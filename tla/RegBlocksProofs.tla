-------------------------- MODULE RegBlocksProofs --------------------------
(***************************************************************************)
(* RegBlockList.enumerate_reg_blocks, for every memory the device may      *)
(* have: the list holds the chain, and an assertion of the loop fails only *)
(* where the chain has no end.                                             *)
(***************************************************************************)
EXTENDS RegBlocks, SequenceTheorems, FiniteSetTheorems, WellFoundedInduction, TLAPS

(***************************************************************************)
(* The inductive invariant                                                 *)
(***************************************************************************)
Block == [offset : OFFSETS, type : TYPES, version : VERSIONS]

(* The offsets of the list, and what the last of its blocks points at. *)
Found == {blocks[i].offset : i \in 1..Len(blocks)}
last_next == device[blocks[Len(blocks)].offset].next

TypeOK ==
    /\ device \in [OFFSETS -> [type : TYPES, version : VERSIONS, next : Pointers]]
    /\ start \in OFFSETS
    /\ state \in {"block", "pointer", "done", "misaligned", "loop"}
    /\ blocks \in Seq(Block)

(* The list begins at start, each of its blocks but the last points at the *)
(* one after it, and none is in it twice.                                  *)
Linked ==
    /\ blocks # <<>> => blocks[1].offset = start
    /\ \A i \in 1..Len(blocks) - 1 : device[blocks[i].offset].next = blocks[i + 1].offset
    /\ \A i, j \in 1..Len(blocks) : i # j => blocks[i].offset # blocks[j].offset

(* Where the loop is. *)
Position ==
    /\ state = "block" => /\ offset \in OFFSETS \ Found
                          /\ blocks = <<>> => offset = start
                          /\ blocks # <<>> => offset = last_next
    /\ state # "block" => blocks # <<>>
    /\ state = "pointer" => offset = blocks[Len(blocks)].offset
    /\ state = "done" => last_next = 0
    /\ state = "loop" => last_next \in Found \ {0}
    /\ state = "misaligned" => last_next \in STRAY

(* No pointer of the list but the last one's ends the chain. *)
GoesOn ==
    /\ \A i \in 1..Len(blocks) - 1 : blocks[i + 1].offset # 0
    /\ state = "block" /\ blocks # <<>> => offset # 0

(* Nothing is in the list that is not in every closed set about start.     *)
Least ==
    \A T \in SUBSET OFFSETS :
        start \in T /\ Closed(T) => Found \subseteq T /\ (state = "block" => offset \in T)

Inv == TypeOK /\ Linked /\ Position /\ GoesOn /\ Least

(***************************************************************************)
(* Pointers                                                                *)
(***************************************************************************)
LEMMA PointerFacts ==
    /\ OFFSETS \subseteq Nat
    /\ \A o \in STRAY : ~aligned(o) /\ o # 0
    /\ \A o \in Pointers : \/ o = 0
                           \/ o # 0 /\ ~aligned(o) /\ o \in STRAY
                           \/ o # 0 /\ aligned(o) /\ o \in OFFSETS
<1>1. aligned(0)  BY SMT DEF aligned
<1>2. OFFSETS \subseteq Nat /\ (\A o \in OFFSETS : aligned(o)) /\ \A o \in STRAY : ~aligned(o)
  BY RegBlocksAssumption
<1>3. \A o \in STRAY : o # 0  BY <1>1, <1>2
<1>4. QED  BY <1>2, <1>3 DEF Pointers

LEMMA KnownFacts == \A o : known(o) <=> o \in Found
  BY DEF known, Found

LEMMA LastNext ==
    ASSUME TypeOK, blocks # <<>>
    PROVE  /\ Len(blocks) \in Nat \ {0} /\ Len(blocks) \in 1..Len(blocks)
           /\ blocks[Len(blocks)].offset \in OFFSETS /\ blocks[Len(blocks)].offset \in Found
           /\ last_next \in Pointers
<1>1. blocks \in Seq(Block)  BY DEF TypeOK
<1>2. Len(blocks) \in Nat \ {0}  BY <1>1, EmptySeq
<1>3. Len(blocks) \in 1..Len(blocks)  BY <1>2
<1>4. blocks[Len(blocks)] \in Block  BY <1>1, <1>3, ElementOfSeq
<1>5. blocks[Len(blocks)].offset \in OFFSETS  BY <1>4 DEF Block
<1>6. last_next \in Pointers  BY <1>5 DEF TypeOK, last_next
<1>7. QED  BY <1>2, <1>3, <1>5, <1>6 DEF Found

(* A closed set that holds a block holds where it points, if that is a     *)
(* block.                                                                  *)
LEMMA ClosedStep ==
    ASSUME NEW T, Closed(T), NEW o \in T, device[o].next \in OFFSETS, device[o].next # 0
    PROVE  device[o].next \in T
<1>1. device[o].next \in T \cup STRAY \cup {0}  BY DEF Closed
<1>2. \A p \in OFFSETS : aligned(p)  BY RegBlocksAssumption
<1>3. \A p \in STRAY : ~aligned(p)  BY RegBlocksAssumption
<1>4. QED  BY <1>1, <1>2, <1>3

(***************************************************************************)
(* The steps                                                               *)
(***************************************************************************)
LEMMA InitInv == Init => Inv
<1> SUFFICES ASSUME Init PROVE Inv
  OBVIOUS
<1>1. blocks = <<>> /\ blocks \in Seq(Block) /\ Len(blocks) = 0  BY DEF Init
<1>2. Found = {}  BY <1>1 DEF Found
<1>3. TypeOK  BY <1>1 DEF Init, TypeOK
<1>4. Linked /\ GoesOn  BY <1>1 DEF Linked, GoesOn
<1>5. Position  BY <1>1, <1>2 DEF Init, Position
<1>6. Least  BY <1>2 DEF Init, Least
<1>7. QED  BY <1>3, <1>4, <1>5, <1>6 DEF Inv

LEMMA ReadBlockStep ==
    ASSUME Inv, ReadBlock
    PROVE  Inv'
<1> DEFINE n == Len(blocks)
           b == [offset |-> offset, type |-> device[offset].type, version |-> device[offset].version]
<1>1. /\ TypeOK /\ Linked /\ Position /\ GoesOn /\ Least  BY DEF Inv
<1>2. /\ state = "block" /\ state' = "pointer" /\ blocks' = Append(blocks, b)
      /\ device' = device /\ start' = start /\ offset' = offset
  BY DEF ReadBlock
<1>3. /\ offset \in OFFSETS /\ offset \notin Found
      /\ blocks = <<>> => offset = start
      /\ blocks # <<>> => offset = last_next
  BY <1>1, <1>2 DEF Position
<1>4. b \in Block /\ b.offset = offset
  <2>1. device[offset] \in [type : TYPES, version : VERSIONS, next : Pointers]  BY <1>1, <1>3 DEF TypeOK
  <2>2. device[offset].type \in TYPES /\ device[offset].version \in VERSIONS  BY <2>1
  <2>3. QED  BY <1>3, <2>2 DEF Block
<1> HIDE DEF b
<1>5. /\ n \in Nat /\ blocks' \in Seq(Block) /\ Len(blocks') = n + 1 /\ blocks' # <<>>
      /\ blocks'[n + 1] = b /\ \A i \in 1..n : blocks'[i] = blocks[i]
      /\ blocks # <<>> <=> n # 0
  <2>1. blocks \in Seq(Block)  BY <1>1 DEF TypeOK
  <2>2. QED  BY <1>2, <1>4, <2>1, AppendProperties, LenProperties, EmptySeq
<1>6. \A i \in 1..n : blocks[i].offset # offset  BY <1>3 DEF Found
<1>7. n # 0 => device[blocks[n].offset].next = offset  BY <1>3, <1>5 DEF last_next
<1> HIDE DEF n
<1>8. \A i \in 1..n + 1 : i \in 1..n \/ i = n + 1  BY <1>5
<1>9. Found' = Found \cup {offset}
  <2>1. Found = {blocks[i].offset : i \in 1..n} /\ Found' = {blocks'[i].offset : i \in 1..n + 1}
    BY <1>5 DEF Found, n
  <2>2. \A i \in 1..n : i \in 1..n + 1  BY <1>5
  <2>3. n + 1 \in 1..n + 1  BY <1>5
  <2>4. QED  BY <1>4, <1>5, <1>8, <2>1, <2>2, <2>3
<1>10. TypeOK'  BY <1>1, <1>2, <1>5 DEF TypeOK
<1>11. Linked'
  <2>1. blocks'[1].offset = start
    <3>1. CASE n = 0  BY <1>3, <1>4, <1>5, <3>1
    <3>2. CASE n # 0
      <4>1. 1 \in 1..n  BY <1>5, <3>2
      <4>2. QED  BY <1>1, <1>5, <3>2, <4>1 DEF Linked
    <3>3. QED  BY <3>1, <3>2
  <2>2. ASSUME NEW i \in 1..n PROVE device[blocks'[i].offset].next = blocks'[i + 1].offset
    <3>1. CASE i = n  BY <1>4, <1>5, <1>7, <3>1
    <3>2. CASE i # n
      <4>1. i \in 1..n - 1 /\ i + 1 \in 1..n  BY <1>5, <3>2
      <4>2. device[blocks[i].offset].next = blocks[i + 1].offset  BY <1>1, <4>1 DEF Linked, n
      <4>3. QED  BY <1>5, <4>1, <4>2
    <3>3. QED  BY <3>1, <3>2
  <2>3. ASSUME NEW i \in 1..n + 1, NEW j \in 1..n + 1, i # j
        PROVE  blocks'[i].offset # blocks'[j].offset
    <3>1. CASE i \in 1..n /\ j \in 1..n  BY <1>1, <1>5, <2>3, <3>1 DEF Linked, n
    <3>2. CASE i = n + 1 /\ j \in 1..n  BY <1>4, <1>5, <1>6, <3>2
    <3>3. CASE i \in 1..n /\ j = n + 1  BY <1>4, <1>5, <1>6, <3>3
    <3>4. QED  BY <1>8, <2>3, <3>1, <3>2, <3>3
  <2>4. (n + 1) - 1 = n  BY <1>5
  <2>5. QED  BY <1>2, <1>5, <2>1, <2>2, <2>3, <2>4 DEF Linked
<1>12. Position'
  <2>1. offset' = blocks'[Len(blocks')].offset  BY <1>2, <1>4, <1>5
  <2>2. QED  BY <1>2, <1>5, <2>1 DEF Position
<1>13. GoesOn'
  <2>1. ASSUME NEW i \in 1..n PROVE blocks'[i + 1].offset # 0
    <3>1. CASE i = n
      <4>1. blocks # <<>>  BY <1>5, <3>1
      <4>2. offset # 0  BY <1>1, <1>2, <4>1 DEF GoesOn
      <4>3. QED  BY <1>4, <1>5, <3>1, <4>2
    <3>2. CASE i # n
      <4>1. i \in 1..n - 1 /\ i + 1 \in 1..n  BY <1>5, <3>2
      <4>2. QED  BY <1>1, <1>5, <4>1 DEF GoesOn, n
    <3>3. QED  BY <3>1, <3>2
  <2>2. (n + 1) - 1 = n  BY <1>5
  <2>3. QED  BY <1>2, <1>5, <2>1, <2>2 DEF GoesOn
<1>14. Least'
  <2>1. \A T : Closed(T)' <=> Closed(T)  BY <1>2 DEF Closed
  <2>2. QED  BY <1>1, <1>2, <1>9, <2>1 DEF Least
<1>15. QED  BY <1>10, <1>11, <1>12, <1>13, <1>14 DEF Inv

LEMMA ReadPointerStep ==
    ASSUME Inv, ReadPointer
    PROVE  Inv'
<1> DEFINE o == device[offset].next
<1>1. /\ TypeOK /\ Linked /\ Position /\ GoesOn /\ Least  BY DEF Inv
<1>2. /\ state = "pointer" /\ offset' = o
      /\ \/ o = 0 /\ state' = "done"
         \/ o # 0 /\ ~aligned(o) /\ state' = "misaligned"
         \/ o # 0 /\ aligned(o) /\ known(o) /\ state' = "loop"
         \/ o # 0 /\ aligned(o) /\ ~known(o) /\ state' = "block"
      /\ device' = device /\ start' = start /\ blocks' = blocks
  BY DEF ReadPointer
<1>3. blocks # <<>> /\ offset = blocks[Len(blocks)].offset  BY <1>1, <1>2 DEF Position
<1>4. offset \in OFFSETS /\ offset \in Found /\ o \in Pointers /\ o = last_next
  BY <1>1, <1>3, LastNext DEF last_next
<1>5. last_next' = last_next /\ Found' = Found  BY <1>2 DEF last_next, Found
<1> HIDE DEF o
<1>6. TypeOK'  BY <1>1, <1>2 DEF TypeOK
<1>7. Linked'  BY <1>1, <1>2 DEF Linked
<1>8. Position'
  BY <1>2, <1>3, <1>4, <1>5, PointerFacts, KnownFacts DEF Position
<1>9. GoesOn'  BY <1>1, <1>2 DEF GoesOn
<1>10. Least'
  <2> SUFFICES ASSUME NEW T \in SUBSET OFFSETS, start \in T, Closed(T)
               PROVE  Found \subseteq T /\ (state' = "block" => o \in T)
    <3>1. \A T : Closed(T)' <=> Closed(T)  BY <1>2 DEF Closed
    <3>2. QED  BY <1>2, <1>5, <3>1 DEF Least
  <2>1. Found \subseteq T  BY <1>1 DEF Least
  <2>2. ASSUME state' = "block" PROVE o \in T
    <3>1. o # 0 /\ o \in OFFSETS  BY <1>2, <1>4, <2>2, PointerFacts
    <3>2. offset \in T  BY <1>4, <2>1
    <3>3. QED  BY <3>1, <3>2, ClosedStep DEF o
  <2>3. QED  BY <2>1, <2>2
<1>11. QED  BY <1>6, <1>7, <1>8, <1>9, <1>10 DEF Inv

(* In every state of the enumeration the list is a piece of the chain from *)
(* its start, and the loop is at the pointer of its last block.            *)
THEOREM EnumerationInvariant == Spec => []Inv
<1>1. Init => Inv  BY InitInv
<1>2. Inv /\ [Next]_vars => Inv'
  <2> SUFFICES ASSUME Inv, [Next]_vars PROVE Inv'
    OBVIOUS
  <2>1. CASE ReadBlock  BY <2>1, ReadBlockStep
  <2>2. CASE ReadPointer  BY <2>2, ReadPointerStep
  <2>3. CASE UNCHANGED vars
    <3>1. TypeOK'  BY <2>3 DEF vars, Inv, TypeOK
    <3>2. last_next' = last_next /\ Found' = Found  BY <2>3 DEF vars, last_next, Found
    <3>3. Linked' /\ GoesOn'  BY <2>3 DEF vars, Inv, Linked, GoesOn
    <3>4. Position'  BY <2>3, <3>2 DEF vars, Inv, Position
    <3>5. Least'
      <4>1. \A T : Closed(T)' <=> Closed(T)  BY <2>3 DEF vars, Closed
      <4>2. QED  BY <2>3, <3>2, <4>1 DEF vars, Inv, Least
    <3>6. QED  BY <3>1, <3>3, <3>4, <3>5 DEF Inv
  <2>4. QED  BY <2>1, <2>2, <2>3 DEF Next
<1>3. QED  BY <1>1, <1>2, PTL DEF Spec

(* When the loop has come to an end the list is what can be reached.       *)
LEMMA FoundIsReachable ==
    ASSUME Inv, state \in {"done", "loop", "misaligned"}
    PROVE  Reachable(start) = Found
<1> DEFINE Chain(S) == /\ start \in S /\ Closed(S)
                       /\ \A T \in SUBSET OFFSETS : start \in T /\ Closed(T) => S \subseteq T
<1>1. TypeOK /\ Linked /\ Position /\ GoesOn /\ Least  BY DEF Inv
<1>2. blocks # <<>> /\ last_next \in Found \cup STRAY \cup {0}  BY <1>1 DEF Position
<1>3. Len(blocks) \in Nat \ {0}  BY <1>1, <1>2, LastNext
<1>4. Found \in SUBSET OFFSETS
  <2>1. \A i \in 1..Len(blocks) : blocks[i] \in Block  BY <1>1, ElementOfSeq DEF TypeOK
  <2>2. QED  BY <2>1 DEF Found, Block
<1>5. start \in Found
  <2>1. 1 \in 1..Len(blocks)  BY <1>3
  <2>2. QED  BY <1>1, <1>2, <2>1 DEF Linked, Found
<1>6. Closed(Found)
  <2> SUFFICES ASSUME NEW i \in 1..Len(blocks)
               PROVE  device[blocks[i].offset].next \in Found \cup STRAY \cup {0}
    BY DEF Closed, Found
  <2>1. CASE i = Len(blocks)  BY <1>2, <2>1 DEF last_next
  <2>2. CASE i # Len(blocks)
    <3>1. i \in 1..Len(blocks) - 1 /\ i + 1 \in 1..Len(blocks)  BY <1>3, <2>2
    <3>2. device[blocks[i].offset].next = blocks[i + 1].offset  BY <1>1, <3>1 DEF Linked
    <3>3. QED  BY <3>1, <3>2 DEF Found
  <2>3. QED  BY <2>1, <2>2
<1>7. Chain(Found)  BY <1>1, <1>5, <1>6 DEF Least
<1>8. ASSUME NEW S \in SUBSET OFFSETS, Chain(S) PROVE S = Found
  <2>1. S \subseteq Found  BY <1>4, <1>7, <1>8
  <2>2. Found \subseteq S  BY <1>7, <1>8
  <2>3. QED  BY <2>1, <2>2
<1>9. Reachable(start) = CHOOSE S \in SUBSET OFFSETS : Chain(S)  BY DEF Reachable
<1> HIDE DEF Chain
<1>10. QED  BY <1>4, <1>7, <1>8, <1>9

(* For every memory of the device: no block is in the list twice, a list   *)
(* that is complete is the whole chain, `offset not in ...` fails only on  *)
(* a chain without an end and the test for alignment only on one with a    *)
(* misaligned pointer.                                                     *)
THEOREM ListHoldsChain == Spec => []ListIsChain
<1>1. ASSUME Inv PROVE ListIsChain
  <2>1. TypeOK /\ Linked /\ Position /\ GoesOn  BY <1>1 DEF Inv
  <2>2. \A i, j \in 1..Len(blocks) : i # j => blocks[i].offset # blocks[j].offset
    BY <2>1 DEF Linked
  <2>3. ASSUME state = "done"
        PROVE  {blocks[i].offset : i \in 1..Len(blocks)} = Reachable(start)
    BY <1>1, <2>3, FoundIsReachable DEF Found
  <2>4. ASSUME state = "loop", NEW o \in Reachable(start) PROVE device[o].next # 0
    <3>1. o \in Found  BY <1>1, <2>4, FoundIsReachable
    <3>2. PICK i \in 1..Len(blocks) : o = blocks[i].offset  BY <3>1 DEF Found
    <3>3. CASE i = Len(blocks)  BY <2>1, <2>4, <3>2, <3>3 DEF Position, last_next
    <3>4. CASE i # Len(blocks)
      <4>1. Len(blocks) \in Nat \ {0}  BY <2>1, <2>4, LastNext DEF Position
      <4>2. i \in 1..Len(blocks) - 1  BY <3>4, <4>1
      <4>3. QED  BY <2>1, <3>2, <4>2 DEF Linked, GoesOn
    <3>5. QED  BY <3>3, <3>4
  <2>5. ASSUME state = "misaligned" PROVE \E o \in Reachable(start) : ~aligned(device[o].next)
    <3>1. blocks # <<>> /\ last_next \in STRAY  BY <2>1, <2>5 DEF Position
    <3>2. blocks[Len(blocks)].offset \in Reachable(start)
      BY <1>1, <2>1, <2>5, <3>1, LastNext, FoundIsReachable
    <3>3. ~aligned(device[blocks[Len(blocks)].offset].next)  BY <3>1, PointerFacts DEF last_next
    <3>4. QED  BY <3>2, <3>3
  <2>6. QED  BY <2>2, <2>3, <2>4, <2>5 DEF ListIsChain
<1>2. Inv => ListIsChain  BY <1>1
<1>3. QED  BY <1>2, EnumerationInvariant, PTL
(***************************************************************************)
(* find                                                                    *)
(***************************************************************************)
(* Induction, for a set of numbers instead of a predicate. *)
LEMMA SetInduction ==
    ASSUME NEW S, 0 \in S, \A n \in Nat : n \in S => n + 1 \in S
    PROVE  Nat \subseteq S
<1> DEFINE R == {p \in Nat \X Nat : p[1] < p[2]}
<1> SUFFICES ASSUME Nat \ S # {} PROVE FALSE
  OBVIOUS
<1>1. IsWellFoundedOn(R, Nat)  BY NatLessThanWellFounded DEF OpToRel
<1>2. PICK x \in Nat \ S : \A y \in Nat \ S : <<y, x>> \notin R
  <2>1. Nat \ S \subseteq Nat  OBVIOUS
  <2> HIDE DEF R
  <2>2. QED  BY <1>1, <2>1, WFMin
<1>3. x - 1 \in Nat /\ x - 1 < x /\ x = (x - 1) + 1  OBVIOUS
<1>4. <<x - 1, x>> \in R
  <2>1. <<x - 1, x>> \in Nat \X Nat  BY <1>3
  <2>2. QED  BY <1>3, <2>1
<1>5. x - 1 \in S  BY <1>2, <1>3, <1>4
<1>6. QED  BY <1>3, <1>5

(* How many of the first i blocks match. *)
hit_count(t, v, i) == Cardinality(Hits(t, v, i))

(* One more is counted just if it matches. *)
LEMMA HitCounts ==
    ASSUME NEW t, NEW v, NEW i \in Nat
    PROVE  /\ hit_count(t, v, i) \in Nat /\ hit_count(t, v, 0) = 0
           /\ matches(blocks[i + 1], t, v) => hit_count(t, v, i + 1) = hit_count(t, v, i) + 1
           /\ ~matches(blocks[i + 1], t, v) => hit_count(t, v, i + 1) = hit_count(t, v, i)
           /\ \A j \in i..i + 1 : \A m \in Nat : j <= m => hit_count(t, v, j) <= hit_count(t, v, m)
<1>1. ASSUME NEW m \in Nat PROVE IsFiniteSet(Hits(t, v, m)) /\ hit_count(t, v, m) \in Nat
  <2>1. IsFiniteSet(1..m) /\ Hits(t, v, m) \in SUBSET (1..m)  BY FS_Interval DEF Hits
  <2>2. IsFiniteSet(Hits(t, v, m))  BY <2>1, FS_Subset
  <2>3. QED  BY <2>2, FS_CardinalityType DEF hit_count
<1>2. hit_count(t, v, 0) = 0
  <2>1. Hits(t, v, 0) = {}  BY DEF Hits
  <2>2. QED  BY <2>1, FS_EmptySet DEF hit_count
<1>3. ASSUME matches(blocks[i + 1], t, v) PROVE hit_count(t, v, i + 1) = hit_count(t, v, i) + 1
  <2>1. Hits(t, v, i + 1) = Hits(t, v, i) \cup {i + 1} /\ i + 1 \notin Hits(t, v, i)
    BY <1>3 DEF Hits
  <2>2. QED  BY <1>1, <2>1, FS_AddElement DEF hit_count
<1>4. ASSUME ~matches(blocks[i + 1], t, v) PROVE hit_count(t, v, i + 1) = hit_count(t, v, i)
  <2>1. Hits(t, v, i + 1) = Hits(t, v, i)  BY <1>4 DEF Hits
  <2>2. QED  BY <2>1 DEF hit_count
<1>5. ASSUME NEW j \in i..i + 1, NEW m \in Nat, j <= m
      PROVE  hit_count(t, v, j) <= hit_count(t, v, m)
  <2>1. Hits(t, v, j) \in SUBSET Hits(t, v, m)  BY <1>5 DEF Hits
  <2>2. QED  BY <1>1, <2>1, FS_Subset DEF hit_count
<1>6. QED  BY <1>1, <1>2, <1>3, <1>4, <1>5

(* One turn of the loop, and the loop.                                     *)
Turn(f, t, v, i) ==
    [k \in Nat |-> IF ~matches(blocks[i], t, v) THEN f[i + 1][k]
                   ELSE IF k = 0 THEN blocks[i] ELSE f[i + 1][k - 1]]

Loop(f, t, v) ==
    [i \in 1..Len(blocks) + 1 |->
        IF i > Len(blocks) THEN [k \in Nat |-> Nothing] ELSE Turn(f, t, v, i)]

(* From block i on the loop looks for the block that matches and has k     *)
(* that match between i and itself.                                        *)
Sought(t, v, i, k) ==
    {j \in i..Len(blocks) : /\ matches(blocks[j], t, v)
                            /\ hit_count(t, v, j - 1) = hit_count(t, v, i - 1) + k}

BlockOf(S) == IF S = {} THEN Nothing ELSE blocks[CHOOSE j \in S : TRUE]

Answer(t, v, i, k) == BlockOf(Sought(t, v, i, k))

Answers(t, v) == [i \in 1..Len(blocks) + 1 |-> [k \in Nat |-> Answer(t, v, i, k)]]

(* The loop's turns are right: what is sought from i on is block i, or     *)
(* sought from the next on.                                                *)
LEMMA SoughtNext ==
    ASSUME NEW t, NEW v, NEW i \in 1..Len(blocks), NEW k \in Nat, Len(blocks) \in Nat
    PROVE  /\ ~matches(blocks[i], t, v) => Sought(t, v, i, k) = Sought(t, v, i + 1, k)
           /\ matches(blocks[i], t, v) /\ k = 0 => Sought(t, v, i, k) = {i}
           /\ matches(blocks[i], t, v) /\ k # 0 => Sought(t, v, i, k) = Sought(t, v, i + 1, k - 1)
<1> DEFINE c(j) == hit_count(t, v, j)
           n == Len(blocks)
<1>1. i - 1 \in Nat /\ (i - 1) + 1 = i /\ (i + 1) - 1 = i /\ i \in Nat /\ n \in Nat  OBVIOUS
<1>2. /\ c(i - 1) \in Nat /\ c(i) \in Nat
      /\ matches(blocks[i], t, v) => c(i) = c(i - 1) + 1
      /\ ~matches(blocks[i], t, v) => c(i) = c(i - 1)
  <2>1. i \in Nat => c(i) \in Nat  BY HitCounts
  <2>2. QED  BY <1>1, <2>1, HitCounts
<1>3. \A m \in Nat : i <= m => c(i) <= c(m) /\ c(m) \in Nat
  <2>1. i \in i..i + 1  BY <1>1
  <2>2. \A m \in Nat : i <= m => c(i) <= c(m)  BY <1>1, <2>1, HitCounts
  <2>3. \A m \in Nat : c(m) \in Nat  BY HitCounts
  <2>4. QED  BY <2>2, <2>3
<1>4. /\ Sought(t, v, i, k) = {j \in i..n : matches(blocks[j], t, v) /\ c(j - 1) = c(i - 1) + k}
      /\ Sought(t, v, i + 1, k) = {j \in i + 1..n : matches(blocks[j], t, v) /\ c(j - 1) = c(i) + k}
      /\ Sought(t, v, i + 1, k - 1) =
            {j \in i + 1..n : matches(blocks[j], t, v) /\ c(j - 1) = c(i) + (k - 1)}
  BY <1>1 DEF Sought
<1> HIDE DEF c
<1>5. \A j \in i..n : (j = i \/ j \in i + 1..n) /\ j - 1 \in Nat  BY <1>1
<1>6. \A j \in i + 1..n : j \in i..n /\ j # i /\ i <= j - 1 /\ j - 1 \in Nat  BY <1>1
<1>7. ASSUME ~matches(blocks[i], t, v) PROVE Sought(t, v, i, k) = Sought(t, v, i + 1, k)
  BY <1>2, <1>4, <1>5, <1>6, <1>7
<1>8. ASSUME matches(blocks[i], t, v), k = 0 PROVE Sought(t, v, i, k) = {i}
  <2>1. c(i) = c(i - 1) + 1 /\ c(i - 1) + k = c(i - 1)  BY <1>2, <1>8
  <2>2. \A j \in i + 1..n : c(j - 1) # c(i - 1) + k  BY <1>2, <1>3, <1>6, <2>1
  <2>3. i \in i..n  BY <1>1
  <2>4. QED  BY <1>4, <1>5, <1>8, <2>1, <2>2, <2>3
<1>9. ASSUME matches(blocks[i], t, v), k # 0 PROVE Sought(t, v, i, k) = Sought(t, v, i + 1, k - 1)
  <2>1. c(i) + (k - 1) = c(i - 1) + k /\ c(i - 1) # c(i - 1) + k  BY <1>2, <1>9
  <2>2. QED  BY <1>4, <1>5, <1>6, <2>1
<1>10. QED  BY <1>7, <1>8, <1>9

LEMMA AnswersAreLoop ==
    ASSUME NEW t, NEW v, Len(blocks) \in Nat
    PROVE  Answers(t, v) = Loop(Answers(t, v), t, v)
<1> DEFINE w == Answers(t, v)
<1>1. \A i \in 1..Len(blocks) + 1, k \in Nat : w[i][k] = Answer(t, v, i, k)  BY DEF Answers
<1>2. ASSUME NEW i \in 1..Len(blocks) + 1
      PROVE  [k \in Nat |-> Answer(t, v, i, k)] =
                IF i > Len(blocks) THEN [k \in Nat |-> Nothing] ELSE Turn(w, t, v, i)
  <2>1. CASE i > Len(blocks)
    <3>1. \A k \in Nat : Sought(t, v, i, k) = {}  BY <2>1 DEF Sought
    <3>2. \A k \in Nat : Answer(t, v, i, k) = Nothing  BY <3>1 DEF Answer, BlockOf
    <3>3. QED  BY <2>1, <3>2
  <2>2. CASE ~(i > Len(blocks))
    <3>1. i \in 1..Len(blocks) /\ i + 1 \in 1..Len(blocks) + 1  BY <2>2
    <3>2. ASSUME NEW k \in Nat
          PROVE  Answer(t, v, i, k) = IF ~matches(blocks[i], t, v) THEN w[i + 1][k]
                                      ELSE IF k = 0 THEN blocks[i] ELSE w[i + 1][k - 1]
      <4>1. /\ ~matches(blocks[i], t, v) => Sought(t, v, i, k) = Sought(t, v, i + 1, k)
            /\ matches(blocks[i], t, v) /\ k = 0 => Sought(t, v, i, k) = {i}
            /\ matches(blocks[i], t, v) /\ k # 0 => Sought(t, v, i, k) = Sought(t, v, i + 1, k - 1)
        BY <3>1, SoughtNext
      <4>2. CASE ~matches(blocks[i], t, v)
        <5>1. Answer(t, v, i, k) = Answer(t, v, i + 1, k)
          <6>1. Sought(t, v, i, k) = Sought(t, v, i + 1, k)  BY <4>1, <4>2
          <6>2. QED  BY <6>1 DEF Answer
        <5>2. QED  BY <1>1, <3>1, <4>2, <5>1
      <4>3. CASE matches(blocks[i], t, v) /\ k = 0
        <5>1. Sought(t, v, i, k) = {i}  BY <4>1, <4>3
        <5>2. Answer(t, v, i, k) = blocks[i]  BY <5>1 DEF Answer, BlockOf
        <5>3. QED  BY <4>3, <5>2
      <4>4. CASE matches(blocks[i], t, v) /\ k # 0
        <5>1. Answer(t, v, i, k) = Answer(t, v, i + 1, k - 1)
          <6>1. Sought(t, v, i, k) = Sought(t, v, i + 1, k - 1)  BY <4>1, <4>4
          <6>2. QED  BY <6>1 DEF Answer
        <5>2. k - 1 \in Nat  BY <4>4
        <5>3. QED  BY <1>1, <3>1, <4>4, <5>1, <5>2
      <4>5. QED  BY <4>2, <4>3, <4>4
    <3> HIDE DEF w
    <3>3. QED  BY <2>2, <3>2 DEF Turn
  <2>3. QED  BY <2>1, <2>2
<1>3. w = [i \in 1..Len(blocks) + 1 |-> [k \in Nat |-> Answer(t, v, i, k)]]  BY DEF Answers
<1> HIDE DEF w
<1>4. w = Loop(w, t, v)  BY <1>2, <1>3 DEF Loop
<1>5. QED  BY <1>4 DEF w

(* The loop determines what it computes, from the end of the list on.      *)
LEMMA LoopsAgree ==
    ASSUME NEW t, NEW v, NEW f, NEW g, Len(blocks) \in Nat, f = Loop(f, t, v), g = Loop(g, t, v)
    PROVE  f[1] = g[1]
<1> DEFINE n == Len(blocks)
           S == {d \in Nat : d <= n => f[n + 1 - d] = g[n + 1 - d]}
<1>1. \A h : h = Loop(h, t, v) =>
        /\ h[n + 1] = [k \in Nat |-> Nothing]
        /\ \A i \in 1..n : h[i] = Turn(h, t, v, i)
  <2> TAKE h
  <2> HAVE h = Loop(h, t, v)
  <2> DEFINE L == Loop(h, t, v)
  <2>1. \A i \in 1..n + 1 : L[i] = IF i > n THEN [k \in Nat |-> Nothing] ELSE Turn(h, t, v, i)
    BY DEF Loop
  <2>2. h = L  OBVIOUS
  <2> HIDE DEF L
  <2>3. n + 1 \in 1..n + 1 /\ n + 1 > n /\ \A i \in 1..n : i \in 1..n + 1 /\ ~(i > n)  OBVIOUS
  <2>4. QED  BY <2>1, <2>2, <2>3
<1>2. 0 \in S  BY <1>1
<1>3. ASSUME NEW d \in Nat, d \in S PROVE d + 1 \in S
  <2>1. SUFFICES ASSUME d + 1 <= n PROVE f[n + 1 - (d + 1)] = g[n + 1 - (d + 1)]
    OBVIOUS
  <2> DEFINE i == n - d
  <2>2. i \in 1..n /\ n + 1 - (d + 1) = i /\ n + 1 - d = i + 1  BY <2>1
  <2>3. f[i + 1] = g[i + 1]  BY <1>3, <2>1, <2>2
  <2> HIDE DEF i
  <2>4. f[i] = Turn(f, t, v, i) /\ g[i] = Turn(g, t, v, i)  BY <1>1, <2>2
  <2>5. Turn(f, t, v, i) = Turn(g, t, v, i)  BY <2>3 DEF Turn
  <2>6. QED  BY <2>2, <2>4, <2>5
<1>4. n \in S
  <2> HIDE DEF S, n
  <2>1. Nat \subseteq S  BY <1>2, <1>3, SetInduction
  <2>2. QED  BY <2>1 DEF n
<1>5. n <= n /\ n + 1 - n = 1  OBVIOUS
<1>6. QED  BY <1>4, <1>5

LEMMA FindIsAnswer ==
    ASSUME NEW t, NEW v, NEW x \in Nat, Len(blocks) \in Nat
    PROVE  find(t, v, x) = Answer(t, v, 1, x)
<1> DEFINE g == CHOOSE f : f = Loop(f, t, v)
           w == Answers(t, v)
<1>1. find(t, v, x) = g[1][x]  BY DEF find, Loop, Turn
<1>2. w = Loop(w, t, v)  BY AnswersAreLoop
<1>3. g = Loop(g, t, v)  BY <1>2, Zenon
<1> HIDE DEF g, w
<1>4. g[1] = w[1]  BY <1>2, <1>3, LoopsAgree
<1>5. w[1][x] = Answer(t, v, 1, x)
  <2>1. 1 \in 1..Len(blocks) + 1  OBVIOUS
  <2>2. QED  BY <2>1 DEF w, Answers
<1>6. QED  BY <1>1, <1>4, <1>5

(* Where the count passes x, it is x before a block that matches.          *)
LEMMA HitExists ==
    ASSUME NEW t, NEW v, NEW x \in Nat, NEW m \in Nat, x < hit_count(t, v, m)
    PROVE  \E j \in 1..m : matches(blocks[j], t, v) /\ hit_count(t, v, j - 1) = x
<1> DEFINE c(j) == hit_count(t, v, j)
           P(l) == \E j \in 1..l : matches(blocks[j], t, v) /\ c(j - 1) = x
           S == {l \in Nat : x < c(l) => P(l)}
<1>1. 0 \in S
  <2>1. c(0) = 0  BY HitCounts
  <2>2. QED  BY <2>1
<1>2. ASSUME NEW l \in Nat, l \in S PROVE l + 1 \in S
  <2>1. SUFFICES ASSUME x < c(l + 1) PROVE P(l + 1)
    OBVIOUS
  <2>2. c(l) \in Nat  BY HitCounts
  <2>3. CASE x < c(l)
    <3>1. P(l)  BY <1>2, <2>3
    <3>2. QED  BY <3>1
  <2>4. CASE ~(x < c(l))
    <3>1. matches(blocks[l + 1], t, v) /\ c(l + 1) = c(l) + 1
      <4>1. ~matches(blocks[l + 1], t, v) => c(l + 1) = c(l)  BY HitCounts
      <4>2. matches(blocks[l + 1], t, v) => c(l + 1) = c(l) + 1  BY HitCounts
      <4> HIDE DEF c
      <4>3. QED  BY <2>1, <2>4, <4>1, <4>2
    <3>2. c(l) = x
      <4> HIDE DEF c
      <4>1. QED  BY <2>1, <2>2, <2>4, <3>1
    <3>3. l + 1 \in 1..l + 1 /\ (l + 1) - 1 = l  OBVIOUS
    <3>4. c((l + 1) - 1) = x  BY <3>2, <3>3
    <3> HIDE DEF c
    <3>5. QED  BY <3>1, <3>3, <3>4
  <2>5. QED  BY <2>3, <2>4
<1>3. m \in S
  <2> HIDE DEF S
  <2>1. QED  BY <1>1, <1>2, SetInduction
<1>4. QED  BY <1>3

(* find(type, version, index) returns the block that matches and has index *)
(* blocks before it that match, for any list of blocks, and nothing behind *)
(* the last.                                                               *)
THEOREM FindReturnsNth == Spec => []FindIsNth
<1>1. ASSUME Inv PROVE FindIsNth
  <2>1. Len(blocks) \in Nat  BY <1>1, LenProperties DEF Inv, TypeOK
  <2> SUFFICES ASSUME NEW t \in TYPES, NEW v \in VERSIONS \cup {0}, NEW x \in 0..Len(blocks)
               PROVE  IF x < Cardinality(Hits(t, v, Len(blocks)))
                      THEN \E i \in Hits(t, v, Len(blocks)) :
                              find(t, v, x) = blocks[i] /\ Cardinality(Hits(t, v, i - 1)) = x
                      ELSE find(t, v, x) = Nothing
    BY Zenon DEF FindIsNth
  <2> DEFINE n == Len(blocks)
  <2>2. x \in Nat /\ n \in Nat  BY <2>1
  <2>3. find(t, v, x) = Answer(t, v, 1, x)  BY <2>1, <2>2, FindIsAnswer
  <2>4. Sought(t, v, 1, x) = {j \in 1..n : matches(blocks[j], t, v) /\ hit_count(t, v, j - 1) = x}
    <3>1. hit_count(t, v, 1 - 1) = 0
      <4>1. 1 - 1 = 0  OBVIOUS
      <4>2. QED  BY <4>1, HitCounts
    <3>2. hit_count(t, v, 1 - 1) + x = x  BY <2>2, <3>1
    <3>3. QED  BY <3>2 DEF Sought
  <2>5. CASE x < hit_count(t, v, n)
    <3>1. Sought(t, v, 1, x) # {}  BY <2>2, <2>4, <2>5, HitExists
    <3>2. PICK i \in Sought(t, v, 1, x) : find(t, v, x) = blocks[i]
      BY <2>3, <3>1 DEF Answer, BlockOf
    <3>3. i \in Hits(t, v, n) /\ hit_count(t, v, i - 1) = x  BY <2>4, <3>2 DEF Hits
    <3>4. QED  BY <2>5, <3>2, <3>3 DEF hit_count
  <2>6. CASE ~(x < hit_count(t, v, n))
    <3>1. ASSUME NEW j \in 1..n, matches(blocks[j], t, v), hit_count(t, v, j - 1) = x PROVE FALSE
      <4>1. j - 1 \in Nat /\ (j - 1) + 1 = j /\ j \in j - 1..(j - 1) + 1 /\ j <= n  BY <2>2
      <4>2. hit_count(t, v, j) = x + 1  BY <3>1, <4>1, HitCounts
      <4>3. hit_count(t, v, j) <= hit_count(t, v, n)  BY <2>2, <4>1, HitCounts
      <4>4. hit_count(t, v, n) \in Nat  BY <2>2, HitCounts
      <4>5. QED  BY <2>2, <2>6, <4>2, <4>3, <4>4
    <3>2. Sought(t, v, 1, x) = {}  BY <2>4, <3>1
    <3>3. find(t, v, x) = Nothing  BY <2>3, <3>2 DEF Answer, BlockOf
    <3>4. QED  BY <2>6, <3>3 DEF hit_count
  <2>7. QED  BY <2>5, <2>6
<1>2. QED  BY <1>1, EnumerationInvariant, PTL
=============================================================================
