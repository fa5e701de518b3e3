--------------------------- MODULE MCTagAppendBench ---------------------------
(* Small instances of macsec_tag_append for TLC. *)
EXTENDS TagAppendBench

(* A last beat with one, three or eight bytes leaves room for seven, five  *)
(* or no trailer bytes behind it.                                          *)
MCLastKeeps == {1, 3, 8}
=============================================================================
