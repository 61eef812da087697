----------------------------- MODULE MCPeerRing -----------------------------
(***************************************************************************)
(* Instances of PeerRing.  Four peers, two of which have the same          *)
(* identifier; the files are: one indexed in the middle of the ring and    *)
(* shared by two peers, one whose identifier is above every node's (the    *)
(* index wraps to slot 0), one whose name contains "owner_of", and one     *)
(* that nobody shares.                                                     *)
(***************************************************************************)
EXTENDS PeerRing, TLC

CONSTANTS middle, wrapped, swallowed, missing

MCFile   == {middle, wrapped, swallowed, missing}
MCFileId == (middle :> 15) @@ (wrapped :> 50) @@ (swallowed :> 35)
              @@ (missing :> 12)
MCNodeId == (0 :> 10) @@ (1 :> 20) @@ (2 :> 20) @@ (3 :> 40)
MCMyFile == (0 :> {middle}) @@ (1 :> {}) @@ (2 :> {wrapped, middle})
              @@ (3 :> {swallowed})
MCOwnerOfNamed == {swallowed}

(* The liveness instance: three peers.                                     *)
LiveNodeId == (0 :> 10) @@ (1 :> 20) @@ (2 :> 40)
LiveMyFile == (0 :> {middle}) @@ (1 :> {}) @@ (2 :> {wrapped, swallowed})

Symmetry == Permutations(Cmd)
=============================================================================
