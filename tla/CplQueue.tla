------------------------------ MODULE CplQueue ------------------------------
(***************************************************************************)
(* A queue of SIZE records in host memory, as the device fills and the     *)
(* driver empties it.  A record has a phase bit that flips on every pass   *)
(* over the ring; the driver has no other way to tell a new record from    *)
(* one of the pass before (cpl_queue_manager.v and cpl_write.v on one      *)
(* side, the loops of Eq.process_eq, Txq.process_tx_cq and                 *)
(* Rxq.process_rx_cq on the other).                                        *)
(***************************************************************************)
LOCAL INSTANCE Naturals

CONSTANT SIZE

Slots == 0..SIZE - 1

slot(ptr) == ptr % SIZE

(* The phase bit the device puts into the record of pointer ptr.           *)
phase(ptr) == 1 - ((ptr \div SIZE) % 2)

(* Memory as open() leaves it: all zero. *)
Zeroed == [s \in Slots |-> [phase |-> 0, index |-> 0]]

(* The driver's test: is the record at pointer ptr one it has not seen?    *)
is_new(buf, ptr) == buf[slot(ptr)].phase # ((ptr \div SIZE) % 2)

(* Where the driver's loop over new records that starts at ptr stops.      *)
first_empty(buf, ptr) ==
    CHOOSE p \in ptr..ptr + SIZE :
        /\ ~is_new(buf, p)
        /\ \A q \in ptr..p - 1 : is_new(buf, q)

(* The DMA write of a record. *)
written(buf, ptr, index) == [buf EXCEPT ![slot(ptr)] = [phase |-> phase(ptr), index |-> index]]

(* The device's test before it reserves a record.                          *)
queue_full(prod, cons) == prod - cons >= SIZE
=============================================================================
