----------------------------- MODULE MqnicEvents -----------------------------
(***************************************************************************)
(* How the driver learns of completions.  An armed completion queue writes *)
(* an event to the event queue when a completion comes in, and is then     *)
(* disarmed; an armed event queue raises an interrupt when an event comes  *)
(* in, and is then disarmed.  The interrupt handler takes the events one   *)
(* by one, lets the queue's handler take its completions, arms the queue   *)
(* again, and in the end reports the event queue's consumer pointer and    *)
(* arms the event queue.  Arming a queue that is not empty fires at once.  *)
(*                                                                         *)
(* The completion queues themselves never overflow (NoCompletionDropped in *)
(* TxRing and RxRing), so that only pointers are kept of them.             *)
(***************************************************************************)
EXTENDS Naturals, Sequences, FiniteSets

CONSTANTS
    CQS,         \* completion queues, by number
    EQ_SIZE,     \* records of the event queue: 1024
    CLOSING,     \* whether Interface.close is called
    MAX_CPLS     \* bound: completions of a queue in a behaviour

ASSUME MqnicEventsAssumption ==
    /\ CQS \subseteq Nat \ {0} /\ IsFiniteSet(CQS)
    /\ EQ_SIZE \in Nat \ {0} /\ CLOSING \in BOOLEAN
    /\ MAX_CPLS \in Nat

VARIABLES
    \* the driver
    port,          \* "opening", "up" (Interface.port_up), "closing"
    interrupts,    \* items in Interrupt.queue
    task,          \* interrupt_handler: "idle"; "eq": at the top of process_eq's
                   \* loop; "cq": in cq.handler; "report": process_eq has
                   \* returned or is about to
    current,       \* the queue whose event is handled
    eq_cons_ptr,   \* Eq.cons_ptr
    eq_next,       \* process_eq's own eq_cons_ptr
    cq_cons_ptr,   \* Cq.cons_ptr
    \* host memory, and what is on its way
    eq_buf,        \* event records
    cq_seen,       \* completion records that reached memory
    mmio,          \* posted register writes
    dma,           \* records on their way to memory
    msi,           \* interrupts on their way
    \* the device
    cq_prod, cq_cons, cq_armed,   \* cpl_queue_manager, completion queues
    eq_prod, eq_cons, eq_armed,   \* cpl_queue_manager, event queue
    event_fifo,    \* events not yet enqueued
    \* history
    dropped        \* queues whose event met a full event queue

driverVars == <<port, interrupts, task, current, eq_cons_ptr, eq_next, cq_cons_ptr>>
memoryVars == <<eq_buf, cq_seen, dma>>
deviceVars == <<cq_prod, cq_cons, cq_armed, eq_prod, eq_cons, eq_armed, event_fifo>>
vars == <<driverVars, memoryVars, deviceVars, mmio, msi, dropped>>

Eq == INSTANCE CplQueue WITH SIZE <- EQ_SIZE

Zero == [c \in CQS |-> 0]

NoQueue == 0

(* Interface.init and open have opened and armed all queues. *)
Init ==
    /\ port = "opening" /\ interrupts = 0 /\ task = "idle" /\ current = NoQueue
    /\ eq_cons_ptr = 0 /\ eq_next = 0 /\ cq_cons_ptr = Zero
    /\ eq_buf = Eq!Zeroed /\ cq_seen = Zero
    /\ mmio = <<>> /\ dma = <<>> /\ msi = 0
    /\ cq_prod = Zero /\ cq_cons = Zero /\ cq_armed = [c \in CQS |-> TRUE]
    /\ eq_prod = 0 /\ eq_cons = 0 /\ eq_armed = TRUE
    /\ event_fifo = <<>> /\ dropped = {}

(***************************************************************************)
(* The device                                                              *)
(***************************************************************************)
(* A completion of queue c is written and committed; an armed queue fires. *)
Complete(c) ==
    /\ cq_prod[c] < MAX_CPLS
    /\ cq_prod' = [cq_prod EXCEPT ![c] = @ + 1]
    /\ dma' = Append(dma, [kind |-> "cpl", cq |-> c, ptr |-> cq_prod[c]])
    /\ event_fifo' = IF cq_armed[c] THEN Append(event_fifo, c) ELSE event_fifo
    /\ cq_armed' = [cq_armed EXCEPT ![c] = FALSE]
    /\ UNCHANGED <<driverVars, eq_buf, cq_seen, cq_cons, eq_prod, eq_cons, eq_armed, mmio, msi, dropped>>

(* The oldest event is enqueued, written and committed, and an armed event *)
(* queue fires; a full event queue drops the event.                        *)
EnqueueEvent ==
    /\ event_fifo # <<>>
    /\ event_fifo' = Tail(event_fifo)
    /\ IF Eq!queue_full(eq_prod, eq_cons)
       THEN /\ dropped' = dropped \cup {Head(event_fifo)}
            /\ UNCHANGED <<eq_prod, dma, eq_armed, msi>>
       ELSE /\ eq_prod' = eq_prod + 1
            /\ dma' = Append(dma, [kind |-> "event", cq |-> Head(event_fifo), ptr |-> eq_prod])
            /\ msi' = IF eq_armed THEN msi + 1 ELSE msi
            /\ eq_armed' = FALSE
            /\ UNCHANGED dropped
    /\ UNCHANGED <<driverVars, eq_buf, cq_seen, cq_prod, cq_cons, cq_armed, eq_cons, mmio>>

(* The oldest record reaches memory. *)
Deliver ==
    /\ dma # <<>>
    /\ dma' = Tail(dma)
    /\ LET r == Head(dma) IN
        IF r.kind = "cpl"
        THEN cq_seen' = [cq_seen EXCEPT ![r.cq] = r.ptr + 1] /\ UNCHANGED eq_buf
        ELSE eq_buf' = Eq!written(eq_buf, r.ptr, r.cq) /\ UNCHANGED cq_seen
    /\ UNCHANGED <<driverVars, deviceVars, mmio, msi, dropped>>

(* An interrupt arrives, before or after the record it is about, and       *)
(* Interrupt.interrupt puts an item into the queue.                        *)
DeliverMsi ==
    /\ msi > 0
    /\ msi' = msi - 1
    /\ interrupts' = interrupts + 1
    /\ UNCHANGED <<port, task, current, eq_cons_ptr, eq_next, cq_cons_ptr, memoryVars, deviceVars, mmio, dropped>>

SetCqCons(w) ==
    /\ cq_cons' = [cq_cons EXCEPT ![w.cq] = w.val]
    /\ UNCHANGED <<cq_armed, event_fifo, eq_cons, eq_armed, msi>>

SetEqCons(w) ==
    /\ eq_cons' = w.val
    /\ UNCHANGED <<cq_cons, cq_armed, event_fifo, eq_armed, msi>>

(* Mutant of ArmCq: the queue fires and stays armed. *)
ArmCqSticky(w) ==
    /\ cq_armed' = [cq_armed EXCEPT ![w.cq] = TRUE]
    /\ event_fifo' = IF cq_prod[w.cq] = cq_cons[w.cq] THEN event_fifo ELSE Append(event_fifo, w.cq)
    /\ UNCHANGED <<cq_cons, eq_cons, eq_armed, msi>>

ArmCq(w) ==
    LET empty == cq_prod[w.cq] = cq_cons[w.cq] IN
    /\ cq_armed' = [cq_armed EXCEPT ![w.cq] = empty]
    /\ event_fifo' = IF empty THEN event_fifo ELSE Append(event_fifo, w.cq)
    /\ UNCHANGED <<cq_cons, eq_cons, eq_armed, msi>>

(* Mutant of ArmEq: the event queue fires and stays armed. *)
ArmEqSticky(w) ==
    /\ eq_armed' = TRUE
    /\ msi' = IF eq_prod = eq_cons THEN msi ELSE msi + 1
    /\ UNCHANGED <<cq_cons, cq_armed, event_fifo, eq_cons>>

ArmEq(w) ==
    LET empty == eq_prod = eq_cons IN
    /\ eq_armed' = empty
    /\ msi' = IF empty THEN msi ELSE msi + 1
    /\ UNCHANGED <<cq_cons, cq_armed, event_fifo, eq_cons>>

(* The oldest posted write reaches its register. *)
ApplyWrite ==
    /\ mmio # <<>>
    /\ mmio' = Tail(mmio)
    /\ LET w == Head(mmio) IN
        \/ w.reg = "cq_cons" /\ SetCqCons(w)
        \/ w.reg = "cq_arm"  /\ ArmCq(w)
        \/ w.reg = "eq_cons" /\ SetEqCons(w)
        \/ w.reg = "eq_arm"  /\ ArmEq(w)
    /\ UNCHANGED <<driverVars, memoryVars, cq_prod, eq_prod, dropped>>

(***************************************************************************)
(* The driver                                                              *)
(***************************************************************************)
(* Mutant of write: the pointer is one too far. *)
write_next(reg, c, val) == [reg |-> reg, cq |-> c, val |-> val + 1]

(* A register write, as posted. *)
write(reg, c, val) == [reg |-> reg, cq |-> c, val |-> val]

PortUp ==
    /\ port = "opening"
    /\ port' = "up"
    /\ UNCHANGED <<interrupts, task, current, eq_cons_ptr, eq_next, cq_cons_ptr, memoryVars, deviceVars, mmio, msi, dropped>>

PortDown ==
    /\ CLOSING /\ port = "up"
    /\ port' = "closing"
    /\ UNCHANGED <<interrupts, task, current, eq_cons_ptr, eq_next, cq_cons_ptr, memoryVars, deviceVars, mmio, msi, dropped>>

(* Interrupt._run takes an item and calls interrupt_handler; process_eq    *)
(* returns at once while the port is not up.                               *)
TakeInterrupt ==
    /\ task = "idle" /\ interrupts > 0
    /\ interrupts' = interrupts - 1
    /\ task' = IF port = "up" THEN "eq" ELSE "report"
    /\ eq_next' = eq_cons_ptr
    /\ UNCHANGED <<port, current, eq_cons_ptr, cq_cons_ptr, memoryVars, deviceVars, mmio, msi, dropped>>

(* The loop's next event, and its queue's handler up to the await of       *)
(* write_cons_ptr: it takes every completion in memory, unless the port    *)
(* has gone down meanwhile, when it returns at once.                       *)
ProcessEvent ==
    LET c == eq_buf[Eq!slot(eq_next)].index IN
    /\ task = "eq" /\ Eq!is_new(eq_buf, eq_next)
    /\ task' = "cq" /\ current' = c
    /\ IF port = "up"
       THEN /\ cq_cons_ptr' = [cq_cons_ptr EXCEPT ![c] = cq_seen[c]]
            /\ mmio' = Append(mmio, write("cq_cons", c, cq_seen[c]))
       ELSE UNCHANGED <<cq_cons_ptr, mmio>>
    /\ UNCHANGED <<port, interrupts, eq_cons_ptr, eq_next, memoryVars, deviceVars, msi, dropped>>

(* The rest of the handler touches the ring only (TxRing, RxRing); then    *)
(* the queue is armed and the loop goes on.                                *)
RearmCq ==
    /\ task = "cq"
    /\ mmio' = Append(mmio, write("cq_arm", current, 0))
    /\ task' = "eq" /\ current' = NoQueue /\ eq_next' = eq_next + 1
    /\ UNCHANGED <<port, interrupts, eq_cons_ptr, cq_cons_ptr, memoryVars, deviceVars, msi, dropped>>

(* The loop finds no further event: report how far it came.                *)
EqEmpty ==
    /\ task = "eq" /\ ~Eq!is_new(eq_buf, eq_next)
    /\ eq_cons_ptr' = eq_next
    /\ mmio' = Append(mmio, write("eq_cons", NoQueue, eq_next))
    /\ task' = "report"
    /\ UNCHANGED <<port, interrupts, current, eq_next, cq_cons_ptr, memoryVars, deviceVars, msi, dropped>>

(* Mutant of RearmEq: the event queue is not armed again. *)
RearmEqForgotten ==
    /\ task = "report" /\ task' = "idle"
    /\ UNCHANGED <<mmio, port, interrupts, current, eq_cons_ptr, eq_next, cq_cons_ptr, memoryVars, deviceVars, msi, dropped>>

(* interrupt_handler arms the event queue and is done. *)
RearmEq ==
    /\ task = "report"
    /\ mmio' = Append(mmio, write("eq_arm", NoQueue, 0))
    /\ task' = "idle"
    /\ UNCHANGED <<port, interrupts, current, eq_cons_ptr, eq_next, cq_cons_ptr, memoryVars, deviceVars, msi, dropped>>

Next ==
    \/ \E c \in CQS : Complete(c)
    \/ EnqueueEvent \/ Deliver \/ DeliverMsi \/ ApplyWrite
    \/ PortUp \/ PortDown \/ TakeInterrupt
    \/ ProcessEvent \/ RearmCq \/ EqEmpty \/ RearmEq

Spec == Init /\ [][Next]_vars

(* The device and the links carry on with what they have, and the          *)
(* simulator's scheduler runs a coroutine whose trigger has fired.         *)
Fairness ==
    /\ WF_vars(EnqueueEvent) /\ WF_vars(Deliver) /\ WF_vars(DeliverMsi) /\ WF_vars(ApplyWrite)
    /\ WF_vars(PortUp) /\ WF_vars(TakeInterrupt)
    /\ WF_vars(ProcessEvent) /\ WF_vars(RearmCq) /\ WF_vars(EqEmpty) /\ WF_vars(RearmEq)

LiveSpec == Spec /\ Fairness

(***************************************************************************)
(* Properties                                                              *)
(***************************************************************************)
Records(kind) == {i \in 1..Len(dma) : dma[i].kind = kind}

(* Event records in memory. *)
eq_seen == eq_prod - Cardinality(Records("event"))

TypeOK ==
    /\ port \in {"opening", "up", "closing"} /\ interrupts \in Nat
    /\ task \in {"idle", "eq", "cq", "report"} /\ current \in CQS \cup {NoQueue}
    /\ (task = "cq") = (current # NoQueue)
    /\ eq_cons_ptr \in Nat /\ eq_next \in Nat
    /\ eq_buf \in [Eq!Slots -> [phase : {0, 1}, index : CQS \cup {0}]]
    /\ mmio \in Seq([reg : {"cq_cons", "cq_arm", "eq_cons", "eq_arm"}, cq : CQS \cup {NoQueue}, val : Nat])
    /\ dma \in Seq([kind : {"cpl", "event"}, cq : CQS, ptr : Nat])
    /\ msi \in Nat /\ event_fifo \in Seq(CQS) /\ dropped \subseteq CQS
    /\ eq_prod \in Nat /\ eq_cons \in Nat /\ eq_armed \in BOOLEAN
    /\ cq_armed \in [CQS -> BOOLEAN]
    /\ \A f \in {cq_cons_ptr, cq_seen, cq_prod, cq_cons} : f \in [CQS -> Nat]
    /\ \A c \in CQS : /\ cq_cons[c] <= cq_cons_ptr[c]
                      /\ cq_cons_ptr[c] <= cq_seen[c]
                      /\ cq_seen[c] <= cq_prod[c]

CountIf(P) == IF P THEN 1 ELSE 0

(* Where the right to say something about queue c can be: the queue is     *)
(* armed, an event is on its way to the event queue or in it, not yet      *)
(* done with, or the queue is about to be armed.                           *)
CqTokens(c) ==
    CountIf(cq_armed[c])
    + Cardinality({i \in 1..Len(event_fifo) : event_fifo[i] = c})
    + Cardinality({i \in Records("event") : dma[i].cq = c})
    + Cardinality({p \in eq_next..eq_seen - 1 : eq_buf[Eq!slot(p)].index = c})
    + Cardinality({i \in 1..Len(mmio) : mmio[i].reg = "cq_arm" /\ mmio[i].cq = c})

(* A completion queue is never forgotten and never announced twice: there  *)
(* is exactly one such place, whatever completes between the handler's     *)
(* last look and the arming; only a queue whose event was dropped has none.*)
OneEventPerQueue == \A c \in CQS : CqTokens(c) = CountIf(c \notin dropped)

(* The same for the event queue: it is armed, or an interrupt is on its    *)
(* way, waits in Interrupt.queue or is handled, or the queue is about to   *)
(* be armed.  So Interrupt.queue never holds more than one item.           *)
OneInterrupt ==
    CountIf(eq_armed) + msi + interrupts + CountIf(task # "idle")
    + Cardinality({i \in 1..Len(mmio) : mmio[i].reg = "eq_arm"}) = 1

(* The event queue can only be full while one call of process_eq has       *)
(* handled, without reporting it, all but as many events as there are      *)
(* completion queues: the loop reports only when it finds no further       *)
(* event.  An event that meets a full queue is lost, and its completion    *)
(* queue stays disarmed.                                                   *)
FullOnlyWhenUnreported ==
    Eq!queue_full(eq_prod, eq_cons) => eq_next + Cardinality(CQS) >= eq_cons + EQ_SIZE

(* Every completion is handled, unless the port goes down or an event met  *)
(* a full event queue.                                                     *)
Service == INSTANCE CompletionService WITH
               Queues <- CQS, completed <- cq_prod, handled <- cq_cons_ptr,
               stopped <- port = "closing" \/ dropped # {}
EventsAreService == Service!ServiceSpec

(***************************************************************************)
(* The inductive invariant: the order of the event queue's pointers, what  *)
(* records and posted writes stand for, and the properties above.          *)
(***************************************************************************)
EventPointers ==
    /\ eq_cons <= eq_cons_ptr /\ eq_cons_ptr <= eq_next /\ eq_next <= eq_seen
    /\ eq_prod <= eq_cons + EQ_SIZE
    /\ task \in {"idle", "report"} => eq_next = eq_cons_ptr
    /\ task = "cq" => eq_next < eq_seen /\ eq_buf[Eq!slot(eq_next)].index = current

(* Events in front of the i-th record on its way. *)
EventsBefore(i) == Cardinality({j \in Records("event") : j < i})

(* The events process_eq has not handled are new to it, those beyond are   *)
(* not, up to one turn of the event queue, and the rest comes in order.    *)
EventRecords ==
    /\ \A p \in eq_next..eq_seen - 1 :
        eq_buf[Eq!slot(p)].phase = Eq!phase(p) /\ eq_buf[Eq!slot(p)].index \in CQS
    /\ \A p \in eq_seen..eq_next + EQ_SIZE - 1 : eq_buf[Eq!slot(p)].phase # Eq!phase(p)
    /\ \A i \in Records("event") : dma[i].ptr = eq_seen + EventsBefore(i)

(* A queue's completions reach memory in their order. *)
CompletionRecords ==
    \A i \in Records("cpl") :
        /\ cq_seen[dma[i].cq] <= dma[i].ptr /\ dma[i].ptr < cq_prod[dma[i].cq]
        /\ \A j \in Records("cpl") : j < i /\ dma[j].cq = dma[i].cq => dma[j].ptr < dma[i].ptr

(* Consumer pointers posted for queue c lie between the device's and the   *)
(* driver's, in the order of the posts.                                    *)
Reported(reg, c, low, high) ==
    \A i \in 1..Len(mmio) : mmio[i].reg = reg /\ mmio[i].cq = c =>
        /\ low <= mmio[i].val /\ mmio[i].val <= high
        /\ \A j \in 1..i : mmio[j].reg = reg /\ mmio[j].cq = c => mmio[j].val <= mmio[i].val

Reports ==
    /\ Reported("eq_cons", NoQueue, eq_cons, eq_cons_ptr)
    /\ \A c \in CQS : Reported("cq_cons", c, cq_cons[c], cq_cons_ptr[c])
    /\ \A i \in 1..Len(mmio) : mmio[i].cq \in CQS <=> mmio[i].reg \in {"cq_cons", "cq_arm"}

IInv ==
    /\ TypeOK /\ EventPointers /\ EventRecords /\ CompletionRecords /\ Reports
    /\ OneEventPerQueue /\ OneInterrupt
=============================================================================
