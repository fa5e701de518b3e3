----------------------------- MODULE PacketPool -----------------------------
(***************************************************************************)
(* The driver's packet buffers: Driver.alloc_pkt takes the oldest free     *)
(* buffer, or a new one from the memory pool when none is free, and        *)
(* Driver.free_pkt puts a buffer at the end of the free deque.  Buffers    *)
(* are numbered in the order of their first allocation.                    *)
(*                                                                         *)
(*   pool.allocated   allocated_packets, by its length                     *)
(*   pool.free        free_packets                                         *)
(***************************************************************************)
EXTENDS Naturals, Sequences, Functions

None == 0   \* no buffer

EmptyPool == [allocated |-> 0, free |-> <<>>]

(* The buffer alloc_pkt returns, and the pool it leaves. *)
next_pkt(pool) == IF pool.free # <<>> THEN Head(pool.free) ELSE pool.allocated + 1

(* Mutant of alloc_pkt: the buffer stays in the deque. *)
alloc_pkt_peek(pool) ==
    IF pool.free # <<>> THEN pool ELSE [pool EXCEPT !.allocated = pool.allocated + 1]

alloc_pkt(pool) ==
    IF pool.free # <<>>
    THEN [pool EXCEPT !.free = Tail(pool.free)]
    ELSE [pool EXCEPT !.allocated = pool.allocated + 1]

(* n calls of alloc_pkt: the k-th buffer they return, and the pool they    *)
(* leave.                                                                  *)
nth_pkt(pool, k) ==
    IF k <= Len(pool.free) THEN pool.free[k] ELSE pool.allocated + k - Len(pool.free)

alloc_pkts(pool, n) ==
    IF n <= Len(pool.free)
    THEN [pool EXCEPT !.free = SubSeq(pool.free, n + 1, Len(pool.free))]
    ELSE [allocated |-> pool.allocated + n - Len(pool.free), free |-> <<>>]

(* free_pkt for each of a sequence of buffers, in order. *)
free_pkts(pool, pkts) == [pool EXCEPT !.free = pool.free \o pkts]

Buffers(pool) == 1..pool.allocated

FreeBuffers(pool) == Range(pool.free)
=============================================================================
