------------------------ MODULE MCAxisToApFifoBridge ------------------------
(* Small instances of the plaintext bridge for TLC. *)
EXTENDS AxisToApFifoBridge

(* A frame ends with a single byte or with a full beat. *)
MCLastKeeps == {1, 8}
=============================================================================
