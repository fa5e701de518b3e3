----------------------------- MODULE RegBlocks -----------------------------
(***************************************************************************)
(* RegBlockList: how the driver finds its way about the device.  The       *)
(* device's register blocks form a chain: each holds its type, its version *)
(* and the offset of the next, 0 at the end.  enumerate_reg_blocks walks   *)
(* the chain with one awaited read after another and has to come to an end *)
(* on any memory, and find picks the index-th block of a type; the drivers *)
(* of interface, port and scheduler block each have a list of their own.   *)
(***************************************************************************)
EXTENDS Naturals, Sequences, FiniteSets

CONSTANTS
    OFFSETS,    \* offsets at which register blocks can be
    STRAY,      \* other values a next pointer may have, misaligned
    TYPES, VERSIONS

(* What `offset & 0x3 == 0` asks for. *)
aligned(o) == o % 4 = 0

ASSUME RegBlocksAssumption ==
    /\ OFFSETS \subseteq Nat /\ STRAY \subseteq Nat /\ VERSIONS \subseteq Nat
    /\ \A o \in OFFSETS : aligned(o)
    /\ \A o \in STRAY : ~aligned(o)

Pointers == OFFSETS \cup STRAY \cup {0}

VARIABLES
    device,     \* per offset: type, version and next pointer
    start,      \* the offset the enumeration begins at
    state,      \* "block": about to read the block at offset; "done";
                \* "misaligned", "loop": an assertion has failed
    offset,
    blocks      \* RegBlockList.blocks

vars == <<device, start, state, offset, blocks>>

Init ==
    /\ device \in [OFFSETS -> [type : TYPES, version : VERSIONS, next : Pointers]]
    /\ start \in OFFSETS
    /\ state = "block" /\ offset = start /\ blocks = <<>>

(* Mutant of known: the block just read is not among those compared.       *)
known_before(o) == \E i \in 1..Len(blocks) - 1 : blocks[i].offset = o

(* The new pointer leads back to a block of the list. *)
known(o) == \E i \in 1..Len(blocks) : blocks[i].offset = o

(* Mutant of ReadBlock: the block is not put into the list. *)
ReadBlockSilent ==
    /\ state = "block" /\ state' = "pointer"
    /\ UNCHANGED <<device, start, offset, blocks>>

(* Type and version are read and the block is put into the list. *)
ReadBlock ==
    /\ state = "block"
    /\ blocks' = Append(blocks, [offset |-> offset, type |-> device[offset].type,
                                 version |-> device[offset].version])
    /\ state' = "pointer"
    /\ UNCHANGED <<device, start, offset>>

(* The next pointer is read, and judged. *)
ReadPointer ==
    LET o == device[offset].next IN
    /\ state = "pointer"
    /\ offset' = o
    /\ \/ o = 0 /\ state' = "done"
       \/ o # 0 /\ ~aligned(o) /\ state' = "misaligned"
       \/ o # 0 /\ aligned(o) /\ known(o) /\ state' = "loop"
       \/ o # 0 /\ aligned(o) /\ ~known(o) /\ state' = "block"
    /\ UNCHANGED <<device, start, blocks>>

Next == ReadBlock \/ ReadPointer

(* Reads are answered. *)
Spec == Init /\ [][Next]_vars /\ WF_vars(Next)

(***************************************************************************)
(* find                                                                    *)
(***************************************************************************)
(* A version of 0 (or None) asks for any version.                          *)
matches(b, type, version) == b.type = type /\ (version = 0 \/ b.version = version)

Nothing == [offset |-> 0, type |-> "none", version |-> 0]

(* Mutant of find: the index counts every block. *)
find_any(type, version, index) ==
    LET from[i \in 1..Len(blocks) + 1] ==
            IF i > Len(blocks) THEN [k \in Nat |-> Nothing]
            ELSE [k \in Nat |->
                    IF matches(blocks[i], type, version) /\ k = 0 THEN blocks[i]
                    ELSE from[i + 1][IF k = 0 THEN 0 ELSE k - 1]]
    IN from[1][index]

(* The loop: i goes through the list, k is what is left of the index.      *)
find(type, version, index) ==
    LET from[i \in 1..Len(blocks) + 1] ==
            IF i > Len(blocks) THEN [k \in Nat |-> Nothing]
            ELSE [k \in Nat |->
                    IF ~matches(blocks[i], type, version) THEN from[i + 1][k]
                    ELSE IF k = 0 THEN blocks[i] ELSE from[i + 1][k - 1]]
    IN from[1][index]

(***************************************************************************)
(* Properties                                                              *)
(***************************************************************************)
(* What can be reached from offset o by following next pointers. *)
Closed(S) == \A o \in S : device[o].next \in S \cup STRAY \cup {0}
Reachable(o) ==
    CHOOSE S \in SUBSET OFFSETS :
        /\ o \in S /\ Closed(S)
        /\ \A T \in SUBSET OFFSETS : o \in T /\ Closed(T) => S \subseteq T

(* A list that is complete holds every block of the chain once; and the    *)
(* enumeration fails only on a chain that has a misaligned pointer, or     *)
(* from some block on never ends.                                          *)
ListIsChain ==
    /\ \A i, j \in 1..Len(blocks) : i # j => blocks[i].offset # blocks[j].offset
    /\ state = "done" => {blocks[i].offset : i \in 1..Len(blocks)} = Reachable(start)
    /\ state = "loop" => \A o \in Reachable(start) : device[o].next # 0
    /\ state = "misaligned" => \E o \in Reachable(start) : ~aligned(device[o].next)

(* The first i blocks that match. *)
Hits(type, version, i) == {j \in 1..i : matches(blocks[j], type, version)}

(* find returns the index-th block that matches, in the order of the       *)
(* chain, and nothing when there are fewer.                                *)
FindIsNth ==
    \A type \in TYPES, version \in VERSIONS \cup {0}, index \in 0..Len(blocks) :
        LET hits == Hits(type, version, Len(blocks))
            b    == find(type, version, index)
        IN  IF index < Cardinality(hits)
            THEN \E i \in hits : b = blocks[i] /\ Cardinality(Hits(type, version, i - 1)) = index
            ELSE b = Nothing

(* The enumeration comes to an end, whatever the device's memory holds.    *)
Terminates == <>(state \in {"done", "misaligned", "loop"})
=============================================================================
