------------------------------ MODULE Overlay ------------------------------
(***************************************************************************)
(* The pure part of the file-sharing overlay of assignment 6: how the      *)
(* bootstrap process (__init.cpp) arranges the registered nodes in a ring  *)
(* and distributes the file index over them.                               *)
(*                                                                         *)
(* all_info is the bootstrap's array of Node objects: a function on        *)
(* 0..n-1 whose values are records with the node's address (ip_port), its  *)
(* hashed identifier (node_id) and the names of the files it shares        *)
(* (myFile).  The hash function itself (oat_hash) is a parameter: node     *)
(* identifiers are part of the records, FileId gives those of the files.   *)
(***************************************************************************)
EXTENDS Integers

CONSTANTS File,     \* the file names
          FileId    \* oat_hash of a file name

ASSUME FileIdAssumption == FileId \in [File -> Nat]

(* Operators named Wrong_... are faulty variants of the operator that      *)
(* follows them; only the mutation checks of PROJECT.json use them.        *)

(* A file whose identifier is above every node's belongs to no slot.       *)
Wrong_map_file_to_node(file_id_x, all_info, n) ==
  LET poss == {i \in 0..(n - 1) : all_info[i].node_id >= file_id_x}
  IN  IF poss = {} THEN n
      ELSE CHOOSE i \in poss : \A j \in poss : i <= j

(* The slot of the node that indexes a file: the least identifier not      *)
(* below the file's, and slot 0 when there is none.  Equal identifiers go  *)
(* to the lowest slot, where the final scan of the code stops.             *)
map_file_to_node(file_id_x, all_info, n) ==
  LET poss == {i \in 0..(n - 1) : all_info[i].node_id >= file_id_x}
  IN  IF poss = {}
      THEN 0
      ELSE CHOOSE i \in poss : \A j \in poss :
             \/ all_info[i].node_id < all_info[j].node_id
             \/ all_info[i].node_id = all_info[j].node_id /\ i <= j

(* The last node is its own successor.                                     *)
Wrong_Successor(all_info, n, i) ==
  all_info[IF i = n - 1 THEN i ELSE i + 1].ip_port

Successor(all_info, n, i)   == all_info[(i + 1) % n].ip_port
Predecessor(all_info, n, i) == all_info[(i - 1 + n) % n].ip_port

(* A name shared by several nodes is entered once per node, in slot order, *)
(* under the same key: the last one stays.                                 *)
LastSharer(f, all_info, n) ==
  CHOOSE i \in 0..(n - 1) :
    /\ f \in all_info[i].myFile
    /\ \A j \in 0..(n - 1) : f \in all_info[j].myFile => j <= i

IndexedAt(all_info, n, i) ==
  {f \in File : /\ \E j \in 0..(n - 1) : f \in all_info[j].myFile
                /\ map_file_to_node(FileId[f], all_info, n) = i}

(* The index names the node that keeps it.                                 *)
Wrong_MyFileInfo(all_info, n, i) ==
  [f \in IndexedAt(all_info, n, i) |-> all_info[i].ip_port]

(* The index (name -> address of a node that has the file) of slot i.      *)
MyFileInfo(all_info, n, i) ==
  [f \in IndexedAt(all_info, n, i) |->
     all_info[LastSharer(f, all_info, n)].ip_port]
=============================================================================
