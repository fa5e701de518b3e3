-------------------------- MODULE MCMqnicInterface --------------------------
(***************************************************************************)
(* MqnicInterface for TLC.  Of the states a device may be left in, those   *)
(* where all enabled queues and no others are armed or have work; of       *)
(* the event and completion queues the driver manages all or none are      *)
(* enabled; the event queues it does not manage are, and have another      *)
(* interface's interrupt only at the end of a path beyond the driver's     *)
(* limits; and all queues of a kind point at one queue.                    *)
(***************************************************************************)
EXTENDS MqnicInterface

(* The registers of queue q, pointing at target[q.kind]. *)
Left(q, running, target) ==
    [enabled |-> q \in running, armed |-> q \in running /\ q.kind \notin Rings,
     work |-> q \in running /\ q.kind \in Rings, set |-> {},
     target |-> IF q.kind = "eq" /\ q \in Queues THEN IRQ
                ELSE IF q \notin running /\ q \notin Queues THEN 0 ELSE target[q.kind]]

MCInit ==
    /\ \E running \in SUBSET DeviceQueues, cqn \in 0..DEVICE_CQS - 1, eqn \in 0..DEVICE_EQS - 1,
          irq \in TargetsOf("eq") :
        /\ \A q \in DeviceQueues \ Queues : q.kind = "eq" => q \in running
        /\ LET reported == {q \in Queues : q.kind \notin Rings} IN
           reported \subseteq running \/ reported \cap running = {}
        /\ {Queue("cq", cqn), Queue("eq", eqn)} \cap Queues # {} => irq = IRQ
        /\ LET target == [eq |-> irq, cq |-> eqn, txq |-> cqn, rxq |-> cqn] IN
           hw = [q \in DeviceQueues |-> Left(q, running, target)]
    /\ events = [e \in 0..DEVICE_EQS - 1 |-> {}]
    /\ irqs = 0
    /\ Init

MCSpec == MCInit /\ [][Next]_vars
=============================================================================
