------------------------------ MODULE CdcFifo ------------------------------
(***************************************************************************)
(* The clock-domain-crossing FIFO the MACsec datapath instantiates         *)
(* (xpm_fifo_async, as tb/cocotb/xpm_fifo_async_sim.v describes it), seen  *)
(* through what its two sides can observe.                                 *)
(*                                                                         *)
(* A FIFO is a record:                                                     *)
(*   mem       every word ever written, in order (the words in the FIFO    *)
(*             are those after position rd; the ring of FIFO_WRITE_DEPTH   *)
(*             slots that stores them is the subject of XpmFifoAsync)      *)
(*   rd        number of words read: rd_ptr_bin_reg without its wrap       *)
(*   rs1, rs2  rd as it travels through the two synchroniser registers of  *)
(*             the write clock (rd_ptr_gray_sync1_reg, ..sync2_reg)        *)
(*   ws1, ws2  number of words written, in the two synchroniser registers  *)
(*             of the read clock (wr_ptr_gray_sync1_reg, ..sync2_reg)      *)
(* The write side therefore works with an old read pointer, the read side  *)
(* with an old write pointer: full and empty are late to clear.            *)
(***************************************************************************)
LOCAL INSTANCE Naturals
LOCAL INSTANCE Sequences

EmptyFifo == [mem |-> <<>>, rd |-> 0, rs1 |-> 0, rs2 |-> 0, ws1 |-> 0, ws2 |-> 0]

(* Mutant of Full: one word too many. *)
FullLate(f, cap) == Len(f.mem) - f.rs2 > cap

(* full, as the write side computes it for a FIFO that holds cap words. *)
Full(f, cap) == Len(f.mem) - f.rs2 >= cap

(* empty_n, as the read side computes it, and the word dout shows (FWFT). *)
NonEmpty(f) == f.rd < f.ws2
FifoHead(f) == f.mem[f.rd + 1]

(* One edge of the write clock: a write to a full FIFO is dropped. *)
WrEdge(f, cap, en, d) ==
    [mem |-> IF en /\ ~Full(f, cap) THEN Append(f.mem, d) ELSE f.mem,
     rd  |-> f.rd,
     rs1 |-> f.rd, rs2 |-> f.rs1,
     ws1 |-> f.ws1, ws2 |-> f.ws2]

(* One edge of the read clock: a read of an empty FIFO does nothing. *)
RdEdge(f, en) ==
    [mem |-> f.mem,
     rd  |-> IF en /\ NonEmpty(f) THEN f.rd + 1 ELSE f.rd,
     rs1 |-> f.rs1, rs2 |-> f.rs2,
     ws1 |-> Len(f.mem), ws2 |-> f.ws1]

(* What every reachable FIFO record satisfies. *)
FifoOK(f, Word) ==
    /\ f \in [mem : Seq(Word), rd : Nat, rs1 : Nat, rs2 : Nat, ws1 : Nat, ws2 : Nat]
    /\ f.rs2 <= f.rs1 /\ f.rs1 <= f.rd /\ f.rd <= f.ws2
    /\ f.ws2 <= f.ws1 /\ f.ws1 <= Len(f.mem)
============================================================================
