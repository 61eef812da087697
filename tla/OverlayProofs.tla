--------------------------- MODULE OverlayProofs ---------------------------
(***************************************************************************)
(* Facts about the operators of module Overlay, for every number of nodes. *)
(* Nodes is the set of the arrays the bootstrap computes with after the    *)
(* sort: a function on 0..n-1, in the order of the identifiers.            *)
(***************************************************************************)
EXTENDS Overlay, WellFoundedInduction, TLAPS

(* A set of natural numbers that is not empty has a least element.         *)
LEMMA LeastNat ==
  ASSUME NEW S \in SUBSET Nat, S # {}
  PROVE  \E x \in S : \A y \in S : x <= y
<1>1. IsWellFoundedOn({ss \in Nat \X Nat : ss[1] < ss[2]}, Nat)
  BY NatLessThanWellFounded DEF OpToRel
<1>2. PICK x \in S : \A y \in S : <<y, x>> \notin {ss \in Nat \X Nat : ss[1] < ss[2]}
  BY <1>1, WFMin
<1>3. ASSUME NEW y \in S PROVE x <= y
  <2>1. <<y, x>> \in Nat \X Nat /\ <<y, x>>[1] = y /\ <<y, x>>[2] = x
    OBVIOUS
  <2>2. ~(<<y, x>>[1] < <<y, x>>[2])
    BY <1>2, <2>1, Zenon
  <2> QED
    BY <2>1, <2>2
<1> QED
  BY <1>3

Sorted(all_info, n) ==
  /\ \A i \in 0..(n - 1) : all_info[i].node_id \in Nat
  /\ \A i, j \in 0..(n - 1) : i <= j => all_info[i].node_id <= all_info[j].node_id

(* A set of slots that is not empty has a last element.                    *)
LEMMA LastSlot ==
  ASSUME NEW n \in Nat, NEW S \in SUBSET (0..(n - 1)), S # {}
  PROVE  \E x \in S : \A y \in S : y <= x
<1> DEFINE T == {n - y : y \in S}
<1>1. T \in SUBSET Nat /\ T # {}
  OBVIOUS
<1>2. PICK t \in T : \A u \in T : t <= u
  BY <1>1, LeastNat
<1>3. PICK x \in S : t = n - x
  BY <1>2
<1>4. \A y \in S : y <= x
  BY <1>2, <1>3
<1> QED
  BY <1>4

(* map_file_to_node finds a slot of the array, for every identifier.       *)
LEMMA HomeIsSlot ==
  ASSUME NEW n \in Nat \ {0}, NEW all_info, Sorted(all_info, n), NEW x \in Nat
  PROVE  map_file_to_node(x, all_info, n) \in 0..(n - 1)
<1> DEFINE poss == {i \in 0..(n - 1) : all_info[i].node_id >= x}
           First(i) == \A j \in poss :
             \/ all_info[i].node_id < all_info[j].node_id
             \/ all_info[i].node_id = all_info[j].node_id /\ i <= j
<1>1. CASE poss = {}
  BY <1>1 DEF map_file_to_node
<1>2. CASE poss # {}
  <2>1. PICK i \in poss : \A j \in poss : i <= j
    <3>1. poss \in SUBSET Nat
      OBVIOUS
    <3> QED
      BY <1>2, <3>1, LeastNat
  <2>2. First(i)
    BY <2>1 DEF Sorted
  <2>3. (CHOOSE k \in poss : First(k)) \in poss
    BY <2>1, <2>2
  <2> QED
    BY <1>2, <2>3 DEF map_file_to_node
<1> QED
  BY <1>1, <1>2

(* The node a name is indexed with is a node that shares the file.         *)
LEMMA LastSharerShares ==
  ASSUME NEW n \in Nat, NEW all_info, NEW f,
         \E j \in 0..(n - 1) : f \in all_info[j].myFile
  PROVE  /\ LastSharer(f, all_info, n) \in 0..(n - 1)
         /\ f \in all_info[LastSharer(f, all_info, n)].myFile
<1> DEFINE S == {j \in 0..(n - 1) : f \in all_info[j].myFile}
<1>1. PICK x \in S : \A y \in S : y <= x
  BY LastSlot
<1>2. \E i \in 0..(n - 1) :
        /\ f \in all_info[i].myFile
        /\ \A j \in 0..(n - 1) : f \in all_info[j].myFile => j <= i
  BY <1>1
<1> QED
  BY <1>2 DEF LastSharer

(* The index entry of a file is with one node and no other: the node       *)
(* map_file_to_node names.                                                 *)
LEMMA IndexDomain ==
  ASSUME NEW n, NEW all_info, NEW i, NEW f \in File
  PROVE  f \in DOMAIN MyFileInfo(all_info, n, i)
           <=> /\ \E j \in 0..(n - 1) : f \in all_info[j].myFile
               /\ map_file_to_node(FileId[f], all_info, n) = i
BY DEF MyFileInfo, IndexedAt

(* The successors form one ring: from any slot, one step along them brings *)
(* the distance to any other slot h down by exactly one.                   *)
Dist(n, i, h) == IF i <= h THEN h - i ELSE h - i + n

LEMMA SuccessorSlot ==
  ASSUME NEW n \in Nat \ {0}, NEW i \in 0..(n - 1)
  PROVE  (i + 1) % n = IF i + 1 = n THEN 0 ELSE i + 1
OBVIOUS

LEMMA SuccessorIsNearer ==
  ASSUME NEW n \in Nat \ {0}, NEW i \in 0..(n - 1), NEW h \in 0..(n - 1), i # h
  PROVE  Dist(n, (i + 1) % n, h) = Dist(n, i, h) - 1
<1>1. CASE i + 1 = n
  <2>1. (i + 1) % n = 0
    BY <1>1, SuccessorSlot
  <2> QED
    BY <1>1, <2>1 DEF Dist
<1>2. CASE i + 1 # n
  <2>1. (i + 1) % n = i + 1
    BY <1>2, SuccessorSlot
  <2> QED
    BY <1>2, <2>1 DEF Dist
<1> QED
  BY <1>1, <1>2
=============================================================================
