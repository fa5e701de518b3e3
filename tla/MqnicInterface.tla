--------------------------- MODULE MqnicInterface ---------------------------
(***************************************************************************)
(* How Interface.init, open and close of the host driver bring the queues  *)
(* of a device up, register write by register write, on a device that      *)
(* another driver may have left running.  The driver cuts the number of    *)
(* queues it manages; the device may have more, which it never touches.    *)
(*                                                                         *)
(* One task makes the calls.  Every register access is awaited, so that    *)
(* device, interrupts and other tasks move between two of them; writes are *)
(* posted, and a read is answered only after the writes before it.  The    *)
(* device completes work of any enabled ring that has some, and follows    *)
(* the path ring, completion queue, event queue, interrupt as far as its   *)
(* registers allow.  The interrupt handler runs beside the calls; while    *)
(* the port is down it only arms the event queues again.  What it does     *)
(* once the port is up, and what then happens on the path, is modelled in  *)
(* TxRing, RxRing and MqnicEvents: here the handler stops at that point.   *)
(*                                                                         *)
(* Of a queue's configuration the model keeps who wrote each register,     *)
(* and the number of the queue it points at.                               *)
(***************************************************************************)
EXTENDS Integers, Sequences, Functions

CONSTANTS
    DEVICE_EQS, DEVICE_CQS, DEVICE_TXQS, DEVICE_RXQS,   \* queues of the device
    MQNIC_MAX_EQ, MQNIC_MAX_TXQ, MQNIC_MAX_RXQ,   \* the driver's limits: 1, 32, 8
    MAX_POSTED   \* bound: posted register accesses on their way

MQNIC_MAX_CQ == MQNIC_MAX_TXQ * 2

(* The queues the driver manages: of the device's, as many as its limit    *)
(* allows.                                                                 *)
Cut(count, limit) == IF count <= limit THEN count ELSE limit

EQ_COUNT  == Cut(DEVICE_EQS, MQNIC_MAX_EQ)
CQ_COUNT  == Cut(DEVICE_CQS, MQNIC_MAX_CQ)
TXQ_COUNT == Cut(DEVICE_TXQS, MQNIC_MAX_TXQ)
RXQ_COUNT == Cut(DEVICE_RXQS, MQNIC_MAX_RXQ)

ASSUME MqnicInterfaceAssumption ==
    /\ DEVICE_EQS \in Nat \ {0} /\ MQNIC_MAX_EQ \in Nat \ {0}
    /\ DEVICE_TXQS \in Nat \ {0} /\ MQNIC_MAX_TXQ \in Nat \ {0}
    /\ DEVICE_RXQS \in Nat /\ MQNIC_MAX_RXQ \in Nat /\ DEVICE_CQS \in Nat
    /\ TXQ_COUNT + RXQ_COUNT <= CQ_COUNT
    /\ MAX_POSTED \in Nat \ {0}

Kinds == {"eq", "cq", "txq", "rxq"}
Rings == {"txq", "rxq"}

Count       == [eq |-> EQ_COUNT, cq |-> CQ_COUNT, txq |-> TXQ_COUNT, rxq |-> RXQ_COUNT]
DeviceCount == [eq |-> DEVICE_EQS, cq |-> DEVICE_CQS, txq |-> DEVICE_TXQS, rxq |-> DEVICE_RXQS]

Queue(kind, n) == [kind |-> kind, n |-> n]

(* Those of the driver, and all of the device. *)
Queues       == UNION {[kind : {kind}, n : 0..Count[kind] - 1] : kind \in Kinds}
DeviceQueues == UNION {[kind : {kind}, n : 0..DeviceCount[kind] - 1] : kind \in Kinds}

None == -1   \* no queue number
IRQ  == 0    \* the interface's number, which its event queues have as interrupt

VARIABLES
    \* the driver
    stage,        \* how far init, open or close is
    todo,         \* register accesses of the current call still to make
    reading,      \* waiting for the answer to a read
    port_up,      \* Interface.port_up
    free_list,    \* of the four Resource objects
    eqs,          \* Interface.eq: their eqn
    rings,        \* Interface.txq and rxq: [index, cqn]
    opening,      \* the ring being opened: [index, cqn], None where not yet
    cqs,          \* per cqn: the Cq object's eq and handler
    handling,     \* the event queue of eqs that interrupt_handler is at; 0: idle
    arming,       \* process_eq of that queue has returned, its arm is not posted
    \* between the two
    mmio,         \* posted accesses of the calls
    arms,         \* per event queue: posted arms of interrupt_handler
    irqs,         \* interrupts on their way to interrupt_handler
    \* the device
    hw,           \* queue registers
    tx_ctrl, rx_ctrl,   \* of port 0: "old", "off", "on"
    events,       \* per event queue: completion queues that have a record there
    \* history
    lost          \* rings of this driver with a completion that found no way

driverVars  == <<stage, todo, reading, port_up, free_list, eqs, rings, opening, cqs>>
handlerVars == <<handling, arming, arms>>
deviceVars  == <<hw, tx_ctrl, rx_ctrl, events, lost>>
vars == <<driverVars, handlerVars, deviceVars, mmio, irqs>>

(* handling, when process_eq was called with the port up. *)
Serving == -1

(***************************************************************************)
(* Register accesses                                                       *)
(***************************************************************************)
Access(op, q, val) == [op |-> op, q |-> q, val |-> val]

NoQueue == Queue("none", 0)
Read    == Access("read", NoQueue, 0)
TxCtrl(val) == Access("tx_ctrl", NoQueue, val)
RxCtrl(val) == Access("rx_ctrl", NoQueue, val)
Enable(q, val) == Access("enable", q, val)
Arm(q)  == Access("arm", q, 1)

(* The registers that make up a queue's configuration. *)
Fields == {"base_lo", "base_hi", "size", "target", "prod", "cons"}

(* Mutant of OpenWrites: the upper half of the address is not written.     *)
OpenWritesLow(q, target) ==
    << Enable(q, 0), Access("base_lo", q, 0), Access("size", q, 0),
       Access("target", q, target), Access("prod", q, 0), Access("cons", q, 0) >>

(* What every open() begins with. *)
OpenWrites(q, target) ==
    << Enable(q, 0), Access("base_lo", q, 0), Access("base_hi", q, 0), Access("size", q, 0),
       Access("target", q, target), Access("prod", q, 0), Access("cons", q, 0) >>

(* Eq.open, with the interface's number as interrupt, and Eq.arm.          *)
EqCalls(n) == OpenWrites(Queue("eq", n), IRQ) \o <<Enable(Queue("eq", n), 1), Arm(Queue("eq", n))>>

(* Mutant of CqCalls: the completion queue is left disabled. *)
CqCallsDisabled(n, eqn) == OpenWrites(Queue("cq", n), eqn) \o <<Arm(Queue("cq", n))>>

(* Cq.open and Cq.arm. *)
CqCalls(n, eqn) == OpenWrites(Queue("cq", n), eqn) \o <<Enable(Queue("cq", n), 1), Arm(Queue("cq", n))>>

(* Txq.open or Rxq.open, which posts the descriptors of a whole ring, and  *)
(* enable.                                                                 *)
RingCalls(kind, n, cqn) ==
    OpenWrites(Queue(kind, n), cqn)
    \o (IF kind = "rxq" THEN <<Access("prod", Queue(kind, n), 1)>> ELSE <<>>)
    \o <<Enable(Queue(kind, n), 1)>>

Disabled(kind) == [i \in 1..Count[kind] |-> Enable(Queue(kind, i - 1), 0)]

(* Mutant of AllDisabled: the rings are left as they are. *)
AllDisabledCpl == Disabled("eq") \o Disabled("cq")

(* "ensure all queues are disabled": all that the driver manages. *)
AllDisabled == Disabled("eq") \o Disabled("cq") \o Disabled("txq") \o Disabled("rxq")

DriverInit ==
    /\ stage = "disable" /\ todo = AllDisabled /\ reading = FALSE
    /\ port_up = FALSE
    /\ free_list = [kind \in Kinds |-> [i \in 1..Count[kind] |-> i - 1]]
    /\ eqs = <<>> /\ rings = [kind \in Rings |-> <<>>]
    /\ opening = [index |-> None, cqn |-> None]
    /\ cqs = [c \in 0..CQ_COUNT - 1 |-> [eq |-> None, handler |-> "none"]]
    /\ handling = 0 /\ arming = FALSE
    /\ mmio = <<>> /\ arms = [e \in 0..EQ_COUNT - 1 |-> 0]

(* The registers of a queue that another driver may have left: enabled or  *)
(* not, armed or not, and pointing at any queue of the device; an event    *)
(* queue with the interrupt of this interface or another.                  *)
TargetsOf(kind) ==
    IF kind = "eq" THEN {IRQ, IRQ + 1}
    ELSE IF kind = "cq" THEN 0..DEVICE_EQS - 1 ELSE 0..DEVICE_CQS - 1

LeftRegisters(kind) ==
    [enabled : BOOLEAN, armed : BOOLEAN, work : BOOLEAN, set : {{}}, target : TargetsOf(kind)]

Leftover ==
    /\ hw \in [DeviceQueues -> UNION {LeftRegisters(kind) : kind \in Kinds}]
    /\ \A q \in DeviceQueues : hw[q] \in LeftRegisters(q.kind)
    /\ tx_ctrl = "old" /\ rx_ctrl = "old"
    /\ events \in [0..DEVICE_EQS - 1 -> SUBSET (0..DEVICE_CQS - 1)]
    /\ irqs \in Nat
    /\ lost = {}

Init == DriverInit /\ Leftover

(***************************************************************************)
(* The device                                                              *)
(***************************************************************************)
(* A register that is read-only while the queue is enabled is not changed. *)
ReadOnly(q, op) ==
    /\ hw[q].enabled
    /\ ~(op = "prod" /\ q.kind \in Rings)
    /\ ~(op = "cons" /\ q.kind \notin Rings)

Configured(r, w) ==
    [r EXCEPT !.set = @ \cup {w.op},
              !.target = IF w.op = "target" THEN w.val ELSE @,
              !.work = IF w.op \in {"prod", "cons"} THEN w.val > 0 ELSE @]

(* An event of completion queue c: its event queue, by the device's        *)
(* register, takes it if enabled, and sends an interrupt if armed.         *)
EqOf(c) == Queue("eq", hw[c].target)

Found(c)      == hw[EqOf(c)].enabled
Interrupts(c) == Found(c) /\ hw[EqOf(c)].armed

(* An event queue fires: the interrupt is this interface's or another's.   *)
Raised(q) == irqs' = IF hw[q].target = IRQ THEN irqs + 1 ELSE irqs

Announce(c) ==
    /\ events' = IF Found(c) THEN [events EXCEPT ![EqOf(c).n] = @ \cup {c.n}] ELSE events
    /\ IF Interrupts(c) THEN Raised(EqOf(c)) ELSE UNCHANGED irqs

Announced(c, regs) ==
    [regs EXCEPT ![EqOf(c)].work = @ \/ Found(c), ![EqOf(c)].armed = @ /\ ~Interrupts(c)]

(* Arming a queue that has records fires at once. *)
ArmWrite(q) ==
    IF ~(hw[q].enabled /\ hw[q].work)
    THEN hw' = [hw EXCEPT ![q].armed = TRUE] /\ UNCHANGED <<irqs, events>>
    ELSE IF q.kind = "cq"
    THEN hw' = Announced(q, [hw EXCEPT ![q].armed = FALSE]) /\ Announce(q)
    ELSE hw' = [hw EXCEPT ![q].armed = FALSE] /\ Raised(q) /\ UNCHANGED events

(* queue_manager and cpl_queue_manager, register write. *)
QueueWrite(w) ==
    LET q == w.q IN
    \/ /\ w.op = "enable"
       /\ hw' = [hw EXCEPT ![q].enabled = (w.val = 1)]
       /\ UNCHANGED <<irqs, events>>
    \/ /\ w.op \in Fields
       /\ hw' = IF ReadOnly(q, w.op) THEN hw ELSE [hw EXCEPT ![q] = Configured(@, w)]
       /\ events' = IF w.op = "cons" /\ q.kind = "eq" THEN [events EXCEPT ![q.n] = {}] ELSE events
       /\ UNCHANGED irqs
    \/ w.op = "arm" /\ ArmWrite(q)

OnOff(val) == IF val = 1 THEN "on" ELSE "off"

(* The oldest posted access reaches the device. *)
Apply ==
    /\ mmio # <<>>
    /\ mmio' = Tail(mmio)
    /\ LET w == Head(mmio) IN
        \/ /\ w.op = "read"
           /\ reading' = FALSE
           /\ UNCHANGED <<hw, tx_ctrl, rx_ctrl, events, irqs>>
        \/ /\ w.op = "tx_ctrl" /\ tx_ctrl' = OnOff(w.val)
           /\ UNCHANGED <<hw, rx_ctrl, events, irqs, reading>>
        \/ /\ w.op = "rx_ctrl" /\ rx_ctrl' = OnOff(w.val)
           /\ UNCHANGED <<hw, tx_ctrl, events, irqs, reading>>
        \/ QueueWrite(w) /\ UNCHANGED <<tx_ctrl, rx_ctrl, reading>>
    /\ UNCHANGED <<stage, todo, port_up, free_list, eqs, rings, opening, cqs, handlerVars, lost>>

(* An arm of interrupt_handler reaches the device.                         *)
ApplyArm(e) ==
    /\ arms[e] > 0
    /\ arms' = [arms EXCEPT ![e] = @ - 1]
    /\ ArmWrite(Queue("eq", e))
    /\ UNCHANGED <<driverVars, handling, arming, mmio, tx_ctrl, rx_ctrl, lost>>

(* A frame of ring r is done.  Its completion queue, by the device's       *)
(* register, takes a record if enabled, and fires if armed.  A receive     *)
(* ring may have a frame that passed the port before it was switched off.  *)
CqOf(r) == Queue("cq", hw[r].target)

Complete(r) ==
    LET c     == CqOf(r)
        taken == hw[c].enabled
        fires == taken /\ hw[c].armed
        regs  == [hw EXCEPT ![r].work = (r.kind = "rxq"), ![c].work = @ \/ taken, ![c].armed = @ /\ ~fires]
    IN
    /\ hw[r].enabled /\ hw[r].work
    /\ hw' = IF fires THEN Announced(c, regs) ELSE regs
    /\ IF fires THEN Announce(c) ELSE UNCHANGED <<events, irqs>>
    /\ lost' = IF hw[r].set = Fields /\ (~taken \/ (fires /\ ~Found(c))) THEN lost \cup {r} ELSE lost
    /\ UNCHANGED <<driverVars, handlerVars, mmio, tx_ctrl, rx_ctrl>>

(***************************************************************************)
(* The driver                                                              *)
(***************************************************************************)
(* The current call makes its next register access. *)
Post ==
    /\ todo # <<>> /\ ~reading /\ Len(mmio) < MAX_POSTED
    /\ mmio' = Append(mmio, Head(todo))
    /\ todo' = Tail(todo)
    /\ reading' = (Head(todo) = Read)
    /\ UNCHANGED <<stage, port_up, free_list, eqs, rings, opening, cqs, handlerVars, deviceVars, irqs>>

(* The call is over, and the next statement runs. *)
Returned == todo = <<>> /\ ~reading

(* From one stage to the next, with the accesses of the next.              *)
Step(from, to, accesses) ==
    /\ stage = from /\ Returned
    /\ stage' = to /\ todo' = accesses
    /\ UNCHANGED <<reading, handlerVars, mmio, irqs, deviceVars>>

(* Port.init switches the port off. *)
InitPort ==
    /\ Step("disable", "eq", <<TxCtrl(0), RxCtrl(0)>>)
    /\ UNCHANGED <<port_up, free_list, eqs, rings, opening, cqs>>

(* Mutant of alloc: the index stays in the list. *)
alloc_peek(kind) == UNCHANGED free_list

(* Resource.alloc takes the first free index. *)
alloc(kind) == free_list' = [free_list EXCEPT ![kind] = Tail(@)]

OpenEq ==
    LET eqn == Head(free_list.eq) IN
    /\ Len(eqs) < EQ_COUNT
    /\ Step("eq", "eq", EqCalls(eqn))
    /\ alloc("eq")
    /\ eqs' = Append(eqs, eqn)
    /\ UNCHANGED <<port_up, rings, opening, cqs>>

(* "wait for all writes to complete" *)
InitFlush ==
    /\ Len(eqs) = EQ_COUNT
    /\ Step("eq", "init_flush", <<Read>>)
    /\ UNCHANGED <<port_up, free_list, eqs, rings, opening, cqs>>

(* init returns, Driver.init_common puts the interface into its list, and  *)
(* open is called.                                                         *)
InitDone ==
    /\ Step("init_flush", "rxq", <<>>)
    /\ UNCHANGED <<port_up, free_list, eqs, rings, opening, cqs>>

(* Whether interrupt_handler finds the interface. *)
listed == stage \notin {"disable", "eq", "init_flush"}

(* The next Cq object, on the event queues in turn. *)
OpenCq(kind) ==
    LET cqn == Head(free_list.cq)
        eqn == eqs[(Len(rings[kind]) % Len(eqs)) + 1]
    IN
    /\ opening.cqn = None /\ Len(rings[kind]) < Count[kind]
    /\ Step(kind, kind, CqCalls(cqn, eqn))
    /\ alloc("cq")
    /\ cqs' = [cqs EXCEPT ![cqn].eq = eqn]
    /\ opening' = [index |-> None, cqn |-> cqn]
    /\ UNCHANGED <<port_up, eqs, rings>>

(* Its ring, which becomes the Cq's src_ring and sets its handler.         *)
OpenRing(kind) ==
    LET index == Head(free_list[kind]) IN
    /\ opening.cqn # None /\ opening.index = None
    /\ Step(kind, kind, RingCalls(kind, index, opening.cqn))
    /\ alloc(kind)
    /\ cqs' = [cqs EXCEPT ![opening.cqn].handler = kind]
    /\ opening' = [opening EXCEPT !.index = index]
    /\ UNCHANGED <<port_up, eqs, rings>>

AppendRing(kind) ==
    /\ opening.index # None
    /\ Step(kind, kind, <<>>)
    /\ rings' = [rings EXCEPT ![kind] = Append(@, opening)]
    /\ opening' = [index |-> None, cqn |-> None]
    /\ UNCHANGED <<port_up, free_list, eqs, cqs>>

(* Mutant of RxOpened: the transmit queues are not opened. *)
RxOpenedLast ==
    /\ Len(rings.rxq) = RXQ_COUNT
    /\ Step("rxq", "open_flush", <<Read>>)
    /\ UNCHANGED <<port_up, free_list, eqs, rings, opening, cqs>>

RxOpened ==
    /\ Len(rings.rxq) = RXQ_COUNT
    /\ Step("rxq", "txq", <<>>)
    /\ UNCHANGED <<port_up, free_list, eqs, rings, opening, cqs>>

(* "wait for all writes to complete" *)
OpenFlush ==
    /\ Len(rings.txq) = TXQ_COUNT
    /\ Step("txq", "open_flush", <<Read>>)
    /\ UNCHANGED <<port_up, free_list, eqs, rings, opening, cqs>>

SwitchOn ==
    /\ Step("open_flush", "switch_on", <<TxCtrl(1), RxCtrl(1)>>)
    /\ UNCHANGED <<port_up, free_list, eqs, rings, opening, cqs>>

OpenDone ==
    /\ Step("switch_on", "up", <<>>)
    /\ port_up' = TRUE
    /\ UNCHANGED <<free_list, eqs, rings, opening, cqs>>

(* start_xmit of another task, as far as it posts the producer pointer of  *)
(* a transmit ring.                                                        *)
StartXmit ==
    /\ port_up /\ Len(mmio) < MAX_POSTED
    /\ \E i \in 1..Len(rings.txq) :
        mmio' = Append(mmio, Access("prod", Queue("txq", rings.txq[i].index), 1))
    /\ UNCHANGED <<driverVars, handlerVars, deviceVars, irqs>>

(***************************************************************************)
(* interrupt_handler.  Its task takes one interrupt after the other.       *)
(***************************************************************************)
(* The interface is not in the driver's list: nothing is done.             *)
IgnoreInterrupt ==
    /\ irqs > 0 /\ handling = 0 /\ ~listed
    /\ irqs' = irqs - 1
    /\ UNCHANGED <<driverVars, handlerVars, deviceVars, mmio>>

(* All event queues of the interface have its interrupt, and their turn.   *)
TakeInterrupt ==
    /\ irqs > 0 /\ handling = 0 /\ listed
    /\ irqs' = irqs - 1
    /\ handling' = 1
    /\ UNCHANGED <<driverVars, arming, arms, deviceVars, mmio>>

(* process_eq returns at once unless the port is up.                       *)
ProcessEq ==
    /\ handling > 0 /\ ~arming
    /\ IF port_up THEN handling' = Serving /\ UNCHANGED arming
                  ELSE arming' = TRUE /\ UNCHANGED handling
    /\ UNCHANGED <<driverVars, arms, deviceVars, mmio, irqs>>

Onward == handling' = IF handling < Len(eqs) THEN handling + 1 ELSE 0

(* Mutant of ArmEq: arming is left to a process_eq that has run.           *)
ArmEqServed ==
    /\ arming
    /\ arming' = FALSE /\ Onward
    /\ UNCHANGED <<driverVars, arms, deviceVars, mmio, irqs>>

(* The arm is posted all the same. *)
ArmEq ==
    /\ arming /\ arms[eqs[handling]] < MAX_POSTED
    /\ arming' = FALSE /\ Onward
    /\ arms' = [arms EXCEPT ![eqs[handling]] = @ + 1]
    /\ UNCHANGED <<driverVars, deviceVars, mmio, irqs>>

(***************************************************************************)
(* Interface.close                                                         *)
(***************************************************************************)
Close ==
    /\ Step("up", "close", <<RxCtrl(0)>>)
    /\ port_up' = FALSE
    /\ UNCHANGED <<free_list, eqs, rings, opening, cqs>>

(* disable() is called for every ring and not awaited: the coroutines are  *)
(* made and never run.  Then "wait for all writes to complete".            *)
CloseFlush ==
    /\ Step("close", "close_flush", <<Read>>)
    /\ UNCHANGED <<port_up, free_list, eqs, rings, opening, cqs>>

(* free_buf of the first transmit ring frees its buffers, and the await of *)
(* its result, which is None, raises an exception: close ends here.        *)
CloseRaises ==
    /\ Step("close_flush", "raised", <<>>)
    /\ UNCHANGED <<port_up, free_list, eqs, rings, opening, cqs>>

Next ==
    \/ Post \/ InitPort \/ OpenEq \/ InitFlush \/ InitDone
    \/ \E kind \in Rings : OpenCq(kind) \/ OpenRing(kind) \/ AppendRing(kind)
    \/ RxOpened \/ OpenFlush \/ SwitchOn \/ OpenDone
    \/ StartXmit \/ Close \/ CloseFlush \/ CloseRaises
    \/ IgnoreInterrupt \/ TakeInterrupt \/ ProcessEq \/ ArmEq
    \/ Apply
    \/ \E e \in 0..EQ_COUNT - 1 : ApplyArm(e)
    \/ \E r \in DeviceQueues : r.kind \in Rings /\ Complete(r)

Spec == Init /\ [][Next]_vars

(***************************************************************************)
(* Properties                                                              *)
(***************************************************************************)
Ours(q) == hw[q].enabled /\ hw[q].set = Fields

Accesses ==
    [op : Fields \cup {"enable", "arm", "read", "tx_ctrl", "rx_ctrl"}, q : Queues \cup {NoQueue}, val : Nat]

(* The queue numbers that belong to an object of the driver.               *)
InUse(kind) ==
    IF kind = "eq" THEN eqs
    ELSE IF kind = "cq"
    THEN [i \in 1..Len(rings.rxq) |-> rings.rxq[i].cqn] \o [i \in 1..Len(rings.txq) |-> rings.txq[i].cqn]
    ELSE [i \in 1..Len(rings[kind]) |-> rings[kind][i].index]

DriverTypes ==
    /\ stage \in {"disable", "eq", "init_flush", "rxq", "txq", "open_flush", "switch_on", "up",
                  "close", "close_flush", "raised"}
    /\ todo \in Seq(Accesses) /\ mmio \in Seq(Accesses)
    /\ reading \in BOOLEAN /\ port_up \in BOOLEAN
    /\ free_list \in [Kinds -> Seq(Nat)]
    /\ \A kind \in Kinds : free_list[kind] \in Seq(0..Count[kind] - 1)
    /\ eqs \in Seq(0..EQ_COUNT - 1)
    /\ rings \in [Rings -> Seq([index : Nat, cqn : Nat])]
    /\ \A kind \in Rings :
        rings[kind] \in Seq([index : 0..Count[kind] - 1, cqn : 0..CQ_COUNT - 1])
    /\ opening \in [index : Nat \cup {None}, cqn : Nat \cup {None}]
    /\ cqs \in [0..CQ_COUNT - 1 -> [eq : 0..EQ_COUNT - 1 \cup {None}, handler : Rings \cup {"none"}]]

HandlerTypes ==
    /\ handling \in 0..EQ_COUNT \cup {Serving} /\ arming \in BOOLEAN
    /\ arms \in [0..EQ_COUNT - 1 -> Nat]

QueueRegisters == [enabled : BOOLEAN, armed : BOOLEAN, work : BOOLEAN, set : SUBSET Fields, target : Nat]

DeviceTypes ==
    /\ irqs \in Nat
    /\ hw \in [DeviceQueues -> QueueRegisters]
    /\ \A q \in DeviceQueues :
        /\ q.kind \in Rings => hw[q].target < DEVICE_CQS
        /\ q.kind = "cq" => hw[q].target < DEVICE_EQS
    /\ tx_ctrl \in {"old", "on", "off"} /\ rx_ctrl \in {"old", "on", "off"}
    /\ events \in [0..DEVICE_EQS - 1 -> SUBSET (0..DEVICE_CQS - 1)]
    /\ lost \subseteq DeviceQueues

TypeOK ==
    /\ DriverTypes /\ HandlerTypes /\ DeviceTypes
    /\ \A kind \in Kinds : IsInjective(free_list[kind] \o InUse(kind))

(* Rings that the driver does not manage and that another driver left      *)
(* running, with a path to one of its completion or event queues.  The     *)
(* device has none after its reset, nor after this driver.                 *)
Intruders ==
    {r \in DeviceQueues \ Queues :
        /\ r.kind \in Rings /\ hw[r].enabled
        /\ CqOf(r) \in Queues \/ (hw[CqOf(r)].enabled /\ EqOf(CqOf(r)) \in Queues)}

(* No queue runs on a configuration that is part this driver's and part    *)
(* another's, although the device ignores most writes to an enabled queue; *)
(* and once a queue of this driver runs, none of those it manages runs on  *)
(* another's.                                                              *)
NoMixedConfiguration ==
    \A q, p \in DeviceQueues :
        /\ hw[q].enabled => hw[q].set \in {{}, Fields}
        /\ Ours(q) /\ p \in Queues /\ hw[p].enabled => Ours(p)

(* Whatever a ring of this driver completes, in whatever moment of init    *)
(* and open, is taken by its completion queue and its event queue.         *)
NothingLost == lost = {}

(* An event that process_eq will find names a completion queue that is     *)
(* attached to that event queue (`self.cq_table[event_data[1]]`) and has   *)
(* the handler of its ring (`cq.handler(cq)`), unless a ring the driver    *)
(* does not know of reports there.                                         *)
EventsHaveHandlers ==
    Intruders = {} =>
        \A e \in 0..EQ_COUNT - 1 : Ours(Queue("eq", e)) =>
            \A c \in events[e] :
                /\ c < CQ_COUNT /\ cqs[c].eq = e
                /\ \E r \in Queues : r.kind = cqs[c].handler /\ Ours(r) /\ CqOf(r) = Queue("cq", c)

(* The handler is to come to event queue e, its arm is on the way, or the  *)
(* handler has found the port up.                                          *)
Watched(e) == irqs > 0 \/ handling \in 1..e + 1 \/ arms[e] > 0 \/ handling = Serving

(* No event is left behind by an interrupt that is taken before the driver *)
(* knows the interface or by a handler that finds the port down: until a   *)
(* handler finds it up, one is always to come to an event queue that has   *)
(* events, or its arm, which fires again, is on the way.                   *)
InterruptKept ==
    Intruders = {} =>
        \A e \in 0..EQ_COUNT - 1 : Ours(Queue("eq", e)) /\ events[e] # {} => Watched(e)

(* The port is switched on, and start_xmit lets frames through, only when  *)
(* every ring has its whole path: two rings never share a completion       *)
(* queue, and all queues run and can announce what happens, if no ring the *)
(* driver does not know of has used up the event queue's interrupt.        *)
PathsOpen ==
    port_up \/ rx_ctrl = "on" =>
        /\ \A q \in Queues : q.kind # "cq" => Ours(q)
        /\ \A r, s \in Queues : r.kind \in Rings /\ s.kind \in Rings =>
            /\ Ours(CqOf(r)) /\ (r # s => CqOf(r) # CqOf(s))
            /\ hw[CqOf(r)].armed \/ CqOf(r).n \in events[EqOf(CqOf(r)).n]
        /\ Intruders = {} => \A e \in 0..EQ_COUNT - 1 : hw[Queue("eq", e)].armed \/ Watched(e)

(* "wait for all writes to complete": when close frees the buffers, no     *)
(* ring of the driver is enabled any more.                                 *)
StoppedBeforeFree ==
    stage = "raised" => \A q \in Queues : q.kind \in Rings => ~hw[q].enabled

(***************************************************************************)
(* The inductive invariant.  The accesses init and open make are numbered; *)
(* those the device has applied determine its registers, whatever it does  *)
(* in between.                                                             *)
(***************************************************************************)
(* Where the write that disables q comes, before anything is opened. *)
Offset == [eq |-> 0, cq |-> EQ_COUNT, txq |-> EQ_COUNT + CQ_COUNT, rxq |-> EQ_COUNT + CQ_COUNT + TXQ_COUNT]
DisableNumber(q) == Offset[q.kind] + q.n + 1
Disables == EQ_COUNT + CQ_COUNT + TXQ_COUNT + RXQ_COUNT

(* Completion queues are given out in order, to the receive rings first.   *)
CqnOf(r)  == IF r.kind = "rxq" THEN r.n ELSE RXQ_COUNT + r.n
RingOf(c) == IF c < RXQ_COUNT THEN Queue("rxq", c) ELSE Queue("txq", c - RXQ_COUNT)
EqnOf(c)  == RingOf(c).n % EQ_COUNT

(* The accesses that open q, and the number of those before them. *)
Call(q) ==
    IF q.kind = "eq" THEN EqCalls(q.n)
    ELSE IF q.kind = "cq" THEN CqCalls(q.n, EqnOf(q.n))
    ELSE RingCalls(q.kind, q.n, CqnOf(q))

InitEnd   == Disables + 2 + 9 * EQ_COUNT + 1
CqBase(c) == InitEnd + (IF c <= RXQ_COUNT THEN 18 * c ELSE 18 * RXQ_COUNT + 17 * (c - RXQ_COUNT))
OpenEnd   == CqBase(RXQ_COUNT + TXQ_COUNT) + 1
Base(q) ==
    IF q.kind = "eq" THEN Disables + 2 + 9 * q.n
    ELSE IF q.kind = "cq" THEN CqBase(q.n)
    ELSE CqBase(CqnOf(q)) + 9

(* The queues open() opens: all but the completion queues to spare. *)
Opened == {q \in Queues : q.kind = "cq" => q.n < RXQ_COUNT + TXQ_COUNT}

(* The n-th access is w. *)
Program(n, w) ==
    \/ \E q \in Queues : n = DisableNumber(q) /\ w = Enable(q, 0)
    \/ n = Disables + 1 /\ w = TxCtrl(0)
    \/ n = Disables + 2 /\ w = RxCtrl(0)
    \/ \E q \in Opened : \E k \in 1..Len(Call(q)) : n = Base(q) + k /\ w = Call(q)[k]
    \/ n \in {InitEnd, OpenEnd} /\ w = Read

(* The accesses made when the current call is over, and those the device   *)
(* has applied.                                                            *)
Late == {"switch_on", "up", "close", "close_flush", "raised"}
ringsOpened == Len(rings.rxq) + Len(rings.txq)
called ==
    CASE stage = "disable" -> Disables
      [] stage = "eq" -> Disables + 2 + 9 * Len(eqs)
      [] stage = "init_flush" -> InitEnd
      [] stage \in Rings -> CqBase(ringsOpened) + (IF opening.cqn = None THEN 0 ELSE 9)
                            + (IF opening.index = None THEN 0 ELSE IF stage = "rxq" THEN 9 ELSE 8)
      [] OTHER -> OpenEnd
applied == IF stage \in Late THEN OpenEnd ELSE called - (Len(mmio) + Len(todo))

(* The driver's objects have the numbers 0, 1, 2, ... in order. *)
taken == [eq |-> Len(eqs), cq |-> ringsOpened + (IF opening.cqn = None THEN 0 ELSE 1),
          txq |-> Len(rings.txq) + (IF stage = "txq" /\ opening.index # None THEN 1 ELSE 0),
          rxq |-> Len(rings.rxq) + (IF stage = "rxq" /\ opening.index # None THEN 1 ELSE 0)]
FreeLists ==
    \A kind \in Kinds : /\ Len(free_list[kind]) = Count[kind] - taken[kind]
                        /\ \A i \in 1..Len(free_list[kind]) : free_list[kind][i] = taken[kind] + i - 1
CqObjects ==
    /\ \A c \in 0..taken.cq - 1 : cqs[c].eq = EqnOf(c)
    /\ \A c \in 0..taken.rxq + taken.txq - 1 : cqs[c].handler = RingOf(c).kind
Objects ==
    /\ FreeLists /\ CqObjects
    /\ \A i \in 1..Len(eqs) : eqs[i] = i - 1
    /\ \A kind \in Rings : \A i \in 1..Len(rings[kind]) :
          rings[kind][i] = [index |-> i - 1, cqn |-> CqnOf(Queue(kind, i - 1))]

(* What each stage has behind it. *)
Stages ==
    /\ Len(eqs) <= EQ_COUNT /\ Len(rings.rxq) <= RXQ_COUNT /\ Len(rings.txq) <= TXQ_COUNT
    /\ stage = "disable" => eqs = <<>>
    /\ stage \notin {"disable", "eq"} => Len(eqs) = EQ_COUNT
    /\ ~listed => rings.rxq = <<>>
    /\ ~listed \/ stage = "rxq" => rings.txq = <<>>
    /\ listed /\ stage # "rxq" => Len(rings.rxq) = RXQ_COUNT
    /\ listed /\ stage \notin Rings => Len(rings.txq) = TXQ_COUNT
    /\ opening.index # None => opening.cqn # None
    /\ opening.cqn # None => /\ stage \in Rings /\ opening.cqn = ringsOpened
                             /\ Len(rings[stage]) < Count[stage]
                             /\ opening.index \in {None, Len(rings[stage])}
    /\ port_up => stage = "up"
    /\ rx_ctrl = "on" => stage \in Late

(* The handler comes to the event queues of a listed interface only.       *)
Handler ==
    /\ handling # 0 => listed
    /\ arming => handling > 0
    /\ \A e \in 0..EQ_COUNT - 1 : arms[e] > 0 => listed

(* What is posted or still to be posted; behind a read nothing is posted   *)
(* until it is answered.                                                   *)
LateAccesses ==
    {Read, TxCtrl(1), RxCtrl(1), RxCtrl(0)} \cup {Access("prod", Queue("txq", n), 1) : n \in 0..TXQ_COUNT - 1}
Pending ==
    /\ stage \notin Late =>
        /\ \A i \in 1..Len(mmio) : Program(applied + i, mmio[i])
        /\ \A i \in 1..Len(todo) : Program(applied + Len(mmio) + i, todo[i])
        /\ reading => stage \in {"init_flush", "open_flush"} /\ mmio # <<>> /\ todo = <<>>
        /\ stage \in {"init_flush", "open_flush"} /\ todo = <<>> /\ ~reading => mmio = <<>>
        /\ listed => applied >= InitEnd
    /\ stage \in Late =>
        /\ \A i \in 1..Len(mmio) : mmio[i] \in LateAccesses
        /\ \A i \in 1..Len(todo) : todo[i] \in LateAccesses

(* The registers of queue q when n accesses are applied. *)
FieldStep == [base_lo |-> 2, base_hi |-> 3, size |-> 4, target |-> 5, prod |-> 6, cons |-> 7]
EnableStep(q) == IF q.kind = "rxq" THEN 9 ELSE 8
IsRunning(q, n) == q \in Opened /\ n >= Base(q) + EnableStep(q)
TargetOf(q) == IF q.kind = "eq" THEN 0 ELSE IF q.kind = "cq" THEN EqnOf(q.n) ELSE CqnOf(q)
RegistersAt(q, n) ==
    /\ n < DisableNumber(q) => hw[q].set = {}
    /\ n >= DisableNumber(q) =>
        /\ hw[q].set = IF q \in Opened THEN {f \in Fields : n >= Base(q) + FieldStep[f]} ELSE {}
        /\ hw[q].enabled <=> IsRunning(q, n)
    /\ q \in Opened /\ n >= Base(q) + 5 => hw[q].target = TargetOf(q)
Registers ==
    /\ \A q \in Queues : RegistersAt(q, applied)
    /\ \A q \in DeviceQueues \ Queues : hw[q].set = {}

(* An event queue with events has them from rings of this driver, and the  *)
(* handler is to come, or the arm that makes it come.                      *)
EventQueueAt(e, n) ==
    LET q == Queue("eq", e) IN
    n >= Base(q) + 7 =>
        /\ events[e] # {} => hw[q].work
        /\ hw[q].work => listed /\ Watched(e) /\ n >= Base(q) + 9
        /\ n >= Base(q) + 9 => hw[q].armed \/ (listed /\ Watched(e))
        /\ \A c \in events[e] :
              c < RXQ_COUNT + TXQ_COUNT /\ EqnOf(c) = e /\ IsRunning(RingOf(c), n)
EventQueues == \A e \in 0..EQ_COUNT - 1 : EventQueueAt(e, applied)

(* A completion queue has no records before its ring runs.                 *)
CompletionQueueAt(c, n) ==
    n >= Base(Queue("cq", c)) + 7 /\ ~IsRunning(RingOf(c), n) => ~hw[Queue("cq", c)].work
CompletionQueues == \A c \in 0..RXQ_COUNT + TXQ_COUNT - 1 : CompletionQueueAt(c, applied)

(* A completion queue is armed or announced, whoever reports there.        *)
Announcing ==
    \A c \in 0..RXQ_COUNT + TXQ_COUNT - 1 :
        LET q == Queue("cq", c) IN
        applied >= Base(q) + 9 => hw[q].armed \/ c \in events[EqnOf(c)]

IInv ==
    /\ TypeOK /\ Objects /\ Stages /\ Handler /\ Pending /\ Registers /\ Announcing /\ NothingLost
    /\ Intruders = {} => EventQueues /\ CompletionQueues
=============================================================================
