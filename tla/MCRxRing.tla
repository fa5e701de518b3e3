------------------------------ MODULE MCRxRing ------------------------------
(* Small instances of the receive ring for TLC.                            *)
EXTENDS RxRing, TLC

=============================================================================
