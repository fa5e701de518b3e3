------------------------------- MODULE TxRing -------------------------------
(***************************************************************************)
(* One transmit ring of the host driver and the device behind it, from the *)
(* moment Interface.open has returned.                                     *)
(*                                                                         *)
(* Tasks call Interface.start_xmit.  A call takes a buffer, writes a       *)
(* descriptor and posts the new producer pointer; when half of the ring is *)
(* in use it waits for clean_event.  The device fetches descriptors, sends *)
(* the buffers and writes one completion record for each.  The completion  *)
(* handler Txq.process_tx_cq frees the buffers, posts the consumer pointer *)
(* of the completion queue, and, when that write has returned, moves the   *)
(* ring's consumer pointer and wakes the waiting calls.                    *)
(*                                                                         *)
(* A coroutine gives up control only at an await that suspends, so the     *)
(* code between two awaits is one action.  Register writes are posted and  *)
(* reach the device in the order of the calls; completion records reach    *)
(* host memory in the order the device sends them.  Pointers are natural   *)
(* numbers, as in Python; the device's 16-bit pointers agree with them     *)
(* because no two pointers it compares are 2^16 apart.                     *)
(***************************************************************************)
EXTENDS Naturals, Sequences, PacketPool

CONSTANTS
    TASKS,       \* the tasks that call start_xmit
    SIZE,        \* descriptors of the ring: 1024
    CQ_SIZE,     \* records of its completion queue: 1024
    MAX_CALLS,   \* bound: calls of start_xmit in a behaviour
    MAX_POSTED   \* bound: posted writes on their way when the handler runs

full_size == SIZE \div 2

ASSUME TxRingAssumption ==
    /\ SIZE \in Nat \ {0} /\ CQ_SIZE \in Nat \ {0}
    /\ full_size <= CQ_SIZE
    /\ MAX_CALLS \in Nat /\ MAX_POSTED \in Nat

VARIABLES
    \* the driver
    port_up,       \* Interface.port_up
    calls,         \* calls of start_xmit that passed its first check
    pc,            \* per task: "idle", "waiting" on clean_event, "woken" by it
    skb,           \* per task: the frame it was called with (0: none)
    prod_ptr, cons_ptr, tx_info,   \* of the Txq
    buf,           \* descriptors in host memory: the buffer each points at
    data,          \* contents of the packet buffers
    pool,          \* Driver.allocated_packets and Driver.free_packets
    cq_cons_ptr,   \* of the Cq
    handler,       \* process_tx_cq: "idle", or "ring": at its second half
    \* between the two
    mmio,          \* posted register writes on their way
    cq_buf,        \* completion records in host memory
    upstream,      \* completion records on their way to host memory
    \* the device
    hw_prod, hw_cons,         \* queue_manager
    hw_cq_prod, hw_cq_cons,   \* cpl_queue_manager
    engine,        \* descriptors fetched and not yet sent: index and buffer
    \* history
    accepted, wire \* frames taken by start_xmit, frames sent

driverVars == <<port_up, calls, pc, skb, prod_ptr, cons_ptr, tx_info, buf, data, pool, cq_cons_ptr, handler>>
deviceVars == <<hw_prod, hw_cons, hw_cq_prod, hw_cq_cons, engine, wire>>
vars == <<driverVars, deviceVars, mmio, cq_buf, upstream, accepted>>

Cq == INSTANCE CplQueue WITH SIZE <- CQ_SIZE

Slots == 0..SIZE - 1
slot(ptr) == ptr % SIZE

Init ==
    /\ port_up = TRUE /\ calls = 0
    /\ pc = [t \in TASKS |-> "idle"] /\ skb = [t \in TASKS |-> 0]
    /\ prod_ptr = 0 /\ cons_ptr = 0 /\ tx_info = [s \in Slots |-> None]
    /\ buf = [s \in Slots |-> None] /\ data = <<>> /\ pool = EmptyPool
    /\ cq_cons_ptr = 0 /\ handler = "idle"
    /\ mmio = <<>> /\ cq_buf = Cq!Zeroed /\ upstream = <<>>
    /\ hw_prod = 0 /\ hw_cons = 0 /\ hw_cq_prod = 0 /\ hw_cq_cons = 0
    /\ engine = <<>> /\ accepted = <<>> /\ wire = <<>>

(***************************************************************************)
(* start_xmit                                                              *)
(***************************************************************************)
(* Mutants of has_space: the whole ring, and one descriptor more than it,  *)
(* may be in use.                                                          *)
has_space_whole == prod_ptr - cons_ptr < SIZE
has_space_over  == prod_ptr - cons_ptr <= SIZE

has_space == prod_ptr - cons_ptr < full_size

(* Mutant of post: the producer pointer is posted before it is counted up. *)
post_stale(reg, val) ==
    mmio' = Append(mmio, [reg |-> reg, val |-> IF reg = "prod" THEN val - 1 ELSE val])

(* write_dword: the write is posted before the coroutine suspends.         *)
post(reg, val) == mmio' = Append(mmio, [reg |-> reg, val |-> val])

(* From the check for space to the end of the call, with space.  The frame *)
(* goes into a buffer, the buffer into tx_info and a descriptor, and the   *)
(* producer pointer is posted.                                             *)
Enqueue(t, frame) ==
    LET index == slot(prod_ptr)
        pkt   == next_pkt(pool)
    IN
    /\ has_space
    /\ pool' = alloc_pkt(pool)
    /\ tx_info' = [tx_info EXCEPT ![index] = pkt]
    /\ data' = IF pkt \in DOMAIN data THEN [data EXCEPT ![pkt] = frame] ELSE Append(data, frame)
    /\ buf' = [buf EXCEPT ![index] = pkt]
    /\ prod_ptr' = prod_ptr + 1
    /\ post("prod", prod_ptr + 1)
    /\ pc' = [pc EXCEPT ![t] = "idle"] /\ skb' = [skb EXCEPT ![t] = 0]
    /\ accepted' = Append(accepted, frame)
    /\ UNCHANGED <<port_up, cons_ptr, cq_cons_ptr, handler, deviceVars, cq_buf, upstream>>

(* The same without space: clear the event and wait for it.                *)
Wait(t, frame) ==
    /\ ~has_space
    /\ pc' = [pc EXCEPT ![t] = "waiting"] /\ skb' = [skb EXCEPT ![t] = frame]
    /\ UNCHANGED <<port_up, prod_ptr, cons_ptr, tx_info, buf, data, pool, cq_cons_ptr, handler,
                   deviceVars, mmio, cq_buf, upstream, accepted>>

(* A call, with a frame of its own; it returns at once when the port is    *)
(* not up.  A call with a frame of max_tx_mtu bytes or more ends at the    *)
(* assertion before it changes anything, and is left out.                  *)
StartXmit(t) ==
    /\ port_up /\ pc[t] = "idle" /\ calls < MAX_CALLS
    /\ calls' = calls + 1
    /\ Enqueue(t, calls + 1) \/ Wait(t, calls + 1)

(* A woken call checks for space again. *)
Resume(t) ==
    /\ pc[t] = "woken"
    /\ Enqueue(t, skb[t]) \/ Wait(t, skb[t])
    /\ UNCHANGED calls

(* The caller's timeout kills a call that has not found space yet.         *)
Abandon(t) ==
    /\ pc[t] \in {"waiting", "woken"}
    /\ pc' = [pc EXCEPT ![t] = "idle"] /\ skb' = [skb EXCEPT ![t] = 0]
    /\ UNCHANGED <<port_up, calls, prod_ptr, cons_ptr, tx_info, buf, data, pool, cq_cons_ptr, handler,
                   deviceVars, mmio, cq_buf, upstream, accepted>>

(* The first statement of Interface.close. *)
PortDown ==
    /\ port_up
    /\ port_up' = FALSE
    /\ UNCHANGED <<calls, pc, skb, prod_ptr, cons_ptr, tx_info, buf, data, pool, cq_cons_ptr, handler,
                   deviceVars, mmio, cq_buf, upstream, accepted>>

(***************************************************************************)
(* process_tx_cq                                                           *)
(***************************************************************************)
cq_end == Cq!first_empty(cq_buf, cq_cons_ptr)

(* The ring slot a completion record names. *)
cpl_slot(ptr) == slot(cq_buf[Cq!slot(ptr)].index)

completed_slots == {cpl_slot(p) : p \in cq_cons_ptr..cq_end - 1}

completed_pkts == [i \in 1..cq_end - cq_cons_ptr |-> tx_info[cpl_slot(cq_cons_ptr + i - 1)]]

(* Up to `await cq.write_cons_ptr()`: free_desc for every new record.      *)
ProcessCq ==
    /\ port_up /\ handler = "idle" /\ Len(mmio) < MAX_POSTED
    /\ tx_info' = [s \in Slots |-> IF s \in completed_slots THEN None ELSE tx_info[s]]
    /\ pool' = free_pkts(pool, completed_pkts)
    /\ cq_cons_ptr' = cq_end
    /\ post("cq_cons", cq_end)
    /\ handler' = "ring"
    /\ UNCHANGED <<port_up, calls, pc, skb, prod_ptr, cons_ptr, buf, data,
                   deviceVars, cq_buf, upstream, accepted>>

(* Mutant of ring_end: out-of-use slots are not looked for. *)
ring_end_all == prod_ptr

(* The first pointer from cons_ptr on whose buffer is still in use.        *)
ring_end ==
    CHOOSE p \in cons_ptr..prod_ptr :
        /\ p = prod_ptr \/ tx_info[slot(p)] # None
        /\ \A q \in cons_ptr..p - 1 : tx_info[slot(q)] = None

(* Mutant of woken: clean_event is never set. *)
woken_none == pc

(* clean_event.set() wakes every waiter. *)
woken == [t \in TASKS |-> IF pc[t] = "waiting" THEN "woken" ELSE pc[t]]

(* After the await: process the ring, and set clean_event.                 *)
ProcessRing ==
    /\ handler = "ring"
    /\ cons_ptr' = ring_end
    /\ pc' = woken
    /\ handler' = "idle"
    /\ UNCHANGED <<port_up, calls, skb, prod_ptr, tx_info, buf, data, pool, cq_cons_ptr,
                   deviceVars, mmio, cq_buf, upstream, accepted>>

(***************************************************************************)
(* The device                                                              *)
(***************************************************************************)
(* The oldest posted write reaches its register. *)
ApplyWrite ==
    /\ mmio # <<>>
    /\ mmio' = Tail(mmio)
    /\ IF Head(mmio).reg = "prod"
       THEN hw_prod' = Head(mmio).val /\ UNCHANGED hw_cq_cons
       ELSE hw_cq_cons' = Head(mmio).val /\ UNCHANGED hw_prod
    /\ UNCHANGED <<driverVars, hw_cons, hw_cq_prod, engine, wire, cq_buf, upstream, accepted>>

(* tx_engine dequeues and reads the next descriptor.                       *)
Fetch ==
    /\ hw_cons # hw_prod
    /\ engine' = Append(engine, [index |-> hw_cons, pkt |-> buf[slot(hw_cons)]])
    /\ hw_cons' = hw_cons + 1
    /\ UNCHANGED <<driverVars, hw_prod, hw_cq_prod, hw_cq_cons, wire, mmio, cq_buf, upstream, accepted>>

(* The oldest fetched buffer goes out, and its completion is enqueued; a   *)
(* full completion queue drops the record (cpl_write invalidates it).      *)
Transmit ==
    /\ engine # <<>>
    /\ engine' = Tail(engine)
    /\ wire' = Append(wire, data[Head(engine).pkt])
    /\ IF Cq!queue_full(hw_cq_prod, hw_cq_cons)
       THEN UNCHANGED <<hw_cq_prod, upstream>>
       ELSE /\ hw_cq_prod' = hw_cq_prod + 1
            /\ upstream' = Append(upstream, [ptr |-> hw_cq_prod, index |-> Head(engine).index])
    /\ UNCHANGED <<driverVars, hw_prod, hw_cons, hw_cq_cons, mmio, cq_buf, accepted>>

(* The oldest completion record on its way reaches host memory. *)
Deliver ==
    /\ upstream # <<>>
    /\ upstream' = Tail(upstream)
    /\ cq_buf' = Cq!written(cq_buf, Head(upstream).ptr, Head(upstream).index)
    /\ UNCHANGED <<driverVars, deviceVars, mmio, accepted>>

Next ==
    \/ \E t \in TASKS : StartXmit(t) \/ Resume(t) \/ Abandon(t)
    \/ PortDown \/ ProcessCq \/ ProcessRing
    \/ ApplyWrite \/ Fetch \/ Transmit \/ Deliver

Spec == Init /\ [][Next]_vars

(* The scheduler resumes what can run; the handler is called again as long *)
(* as there is a record it has not seen (MqnicEvents); the device carries  *)
(* on with what it has.                                                    *)
ProcessNew == Cq!is_new(cq_buf, cq_cons_ptr) /\ ProcessCq

Fairness ==
    /\ \A t \in TASKS : WF_vars(Resume(t))
    /\ WF_vars(ProcessNew) /\ WF_vars(ProcessRing)
    /\ WF_vars(ApplyWrite) /\ WF_vars(Fetch) /\ WF_vars(Transmit) /\ WF_vars(Deliver)

LiveSpec == Spec /\ Fairness

(***************************************************************************)
(* Properties                                                              *)
(***************************************************************************)
Frame == Nat \ {0}

TypeOK ==
    /\ port_up \in BOOLEAN /\ calls \in Nat
    /\ pc \in [TASKS -> {"idle", "waiting", "woken"}] /\ skb \in [TASKS -> Nat]
    /\ \A t \in TASKS : pc[t] # "idle" => skb[t] \in Frame
    /\ prod_ptr \in Nat /\ cons_ptr \in Nat /\ cq_cons_ptr \in Nat
    /\ pool.allocated \in Nat /\ pool.free \in Seq(Buffers(pool))
    /\ pool = [allocated |-> pool.allocated, free |-> pool.free]
    /\ data \in Seq(Frame) /\ Len(data) = pool.allocated
    /\ tx_info \in [Slots -> Buffers(pool) \cup {None}]
    /\ buf \in [Slots -> Buffers(pool) \cup {None}]
    /\ handler \in {"idle", "ring"}
    /\ mmio \in Seq([reg : {"prod", "cq_cons"}, val : Nat])
    /\ cq_buf \in [Cq!Slots -> [phase : {0, 1}, index : Nat]]
    /\ upstream \in Seq([ptr : Nat, index : Nat])
    /\ hw_prod \in Nat /\ hw_cons \in Nat /\ hw_cq_prod \in Nat /\ hw_cq_cons \in Nat
    /\ engine \in Seq([index : Nat, pkt : Buffers(pool)])
    /\ accepted \in Seq(Frame) /\ wire \in Seq(Frame)

(* Every frame start_xmit took leaves the device once, in the order of the *)
(* calls and with the bytes it was given, although descriptors and buffers *)
(* are used again as soon as the driver believes the device is done.       *)
WireInOrder ==
    /\ Len(wire) <= Len(accepted)
    /\ \A i \in 1..Len(wire) : wire[i] = accepted[i]

(* A completion queue of half the ring is large enough: no completion is   *)
(* ever dropped.  The driver frees space in the ring only after it posted  *)
(* the completion queue's consumer pointer, and start_xmit's pointer is    *)
(* posted behind it.                                                       *)
NoCompletionDropped == hw_cq_prod = Len(wire)

(* The two assertions of the driver hold: start_xmit finds its slot of     *)
(* tx_info free (`assert not ring.tx_info[index]`), and every completion   *)
(* names a buffer in use, once (`assert pkt is not None` in free_pkt).     *)
AssertionsHold ==
    /\ has_space => tx_info[slot(prod_ptr)] = None
    /\ \A p \in cq_cons_ptr..cq_end - 1 : tx_info[cpl_slot(p)] # None
    /\ \A p, q \in cq_cons_ptr..cq_end - 1 : p # q => cpl_slot(p) # cpl_slot(q)

(* A buffer is in one place: free, or in one slot of tx_info.  None is     *)
(* lost, none is handed out twice, and the device works on none that is    *)
(* free.  The driver never needs more buffers than half the ring holds.    *)
BuffersOwned ==
    /\ IsInjective(pool.free)
    /\ \A s \in Slots : tx_info[s] \notin FreeBuffers(pool)
    /\ \A s, u \in Slots : s # u /\ tx_info[s] # None => tx_info[s] # tx_info[u]
    /\ \A b \in Buffers(pool) : b \in FreeBuffers(pool) \/ \E s \in Slots : tx_info[s] = b
    /\ \A i \in 1..Len(engine) : engine[i].pkt = tx_info[slot(engine[i].index)]
    /\ pool.allocated <= full_size

(* What the ring promises: a line that hands on what it takes, and all of  *)
(* it, whether or not the port goes down meanwhile.                        *)
Unsealed(frame, place) == frame
Line == INSTANCE SealedLine WITH
            Frames <- 1..MAX_CALLS, Sealed <- Unsealed, accepted <- accepted, sent <- wire
RingIsLine == Line!LineSpec

(* No call waits for ever on clean_event: it is woken after its wait began *)
(* and finds space in the end, unless the port goes down or it is killed.  *)
CallsFinish == \A t \in TASKS : pc[t] # "idle" ~> (pc[t] = "idle" \/ ~port_up)

(***************************************************************************)
(* The inductive invariant: what each pointer counts, and what the slots   *)
(* between two pointers hold.                                              *)
(***************************************************************************)
(* Completion records that have reached host memory. *)
delivered == Len(wire) - Len(upstream)

(* The ring's pointers trail one another, and the driver's are at most     *)
(* half a ring apart.                                                      *)
Pointers ==
    /\ prod_ptr = Len(accepted) /\ hw_cons = Len(wire) + Len(engine) /\ hw_cq_prod = Len(wire)
    /\ cons_ptr <= cq_cons_ptr /\ cq_cons_ptr <= delivered
    /\ hw_cons <= hw_prod /\ hw_prod <= prod_ptr /\ prod_ptr <= cons_ptr + full_size
    /\ handler = "idle" => cons_ptr = cq_cons_ptr

(* What a posted write of a register is between: the register's value and  *)
(* the driver's, in the order of the posts.                                *)
PostedInOrder(reg, low, high) ==
    /\ low <= high
    /\ \A i \in 1..Len(mmio) : mmio[i].reg = reg =>
        /\ low <= mmio[i].val /\ mmio[i].val <= high
        /\ \A j \in 1..i : mmio[j].reg = reg => mmio[j].val <= mmio[i].val

(* When the device gets to the producer pointer v that is the i-th posted  *)
(* write, it knows of the room in the completion queue v was counted on.   *)
RoomKnown(i, v) ==
    \/ v <= hw_cq_cons + full_size
    \/ \E j \in 1..i - 1 : mmio[j].reg = "cq_cons" /\ v <= mmio[j].val + full_size

Posted ==
    /\ PostedInOrder("prod", hw_prod, prod_ptr)
    /\ PostedInOrder("cq_cons", hw_cq_cons, cq_cons_ptr)
    /\ hw_prod <= hw_cq_cons + full_size
    /\ \A i \in 1..Len(mmio) : mmio[i].reg = "prod" => RoomKnown(i, mmio[i].val)
    /\ hw_cq_cons = cq_cons_ptr \/ \E j \in 1..Len(mmio) : mmio[j] = [reg |-> "cq_cons", val |-> cq_cons_ptr]

(* The records the driver has not seen are new to it, those beyond are     *)
(* not, up to one turn of the queue.                                       *)
Records ==
    /\ \A p \in cq_cons_ptr..delivered - 1 :
        cq_buf[Cq!slot(p)].phase = Cq!phase(p) /\ cq_buf[Cq!slot(p)].index = p
    /\ \A p \in delivered..cq_cons_ptr + CQ_SIZE - 1 : cq_buf[Cq!slot(p)].phase # Cq!phase(p)
    /\ \A i \in 1..Len(upstream) :
        upstream[i].ptr = delivered + i - 1 /\ upstream[i].index = delivered + i - 1

(* Which slots of the ring are in use, and with what. *)
InUse ==
    /\ \A p \in cq_cons_ptr..prod_ptr - 1 : tx_info[slot(p)] # None
    /\ \A p \in prod_ptr..cq_cons_ptr + SIZE - 1 : tx_info[slot(p)] = None
    /\ \A p \in hw_cons..prod_ptr - 1 : buf[slot(p)] = tx_info[slot(p)]
    /\ \A p \in Len(wire)..prod_ptr - 1 : data[tx_info[slot(p)]] = accepted[p + 1]
    /\ \A i \in 1..Len(engine) :
        /\ engine[i].index = Len(wire) + i - 1
        /\ engine[i].pkt = tx_info[slot(Len(wire) + i - 1)]

(* No buffer is lost. *)
BuffersCounted == pool.allocated = Len(pool.free) + (prod_ptr - cq_cons_ptr)

IInv ==
    /\ TypeOK /\ Pointers /\ Posted /\ Records /\ InUse
    /\ BuffersOwned /\ BuffersCounted /\ WireInOrder
=============================================================================
