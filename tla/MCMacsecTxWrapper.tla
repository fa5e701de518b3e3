-------------------------- MODULE MCMacsecTxWrapper --------------------------
(* Small instances of the transmit wrapper for TLC. *)
EXTENDS MacsecTxWrapper

(* Last beats that leave no payload, one payload byte in the second beat   *)
(* of a frame, or a full last beat.                                        *)
MCLastKeeps == {6, 7, 8}
=============================================================================
