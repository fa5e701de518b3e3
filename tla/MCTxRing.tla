------------------------------ MODULE MCTxRing ------------------------------
(* Small instances of the transmit ring for TLC.                           *)
EXTENDS TxRing, TLC

=============================================================================
