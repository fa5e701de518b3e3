---------------------------- MODULE MCRegBlocks ----------------------------
(* Small instances of the register block list for TLC: offset 0, which     *)
(* ends a chain, two others, and a misaligned pointer.                     *)
EXTENDS RegBlocks

MCOffsets  == {0, 4, 8}
MCStray    == {6}
MCVersions == {1, 2}
=============================================================================
