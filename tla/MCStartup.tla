----------------------------- MODULE MCStartup -----------------------------
(***************************************************************************)
(* Three peers, two of them with the same identifier; one file shared by   *)
(* two of them, one whose identifier is above every node's, and, for the   *)
(* searches, one that nobody shares.                                       *)
(***************************************************************************)
EXTENDS Startup, TLC

CONSTANTS p1, p2, p3, common, wrapped, missing

MCPeer   == {p1, p2, p3}
MCNodeId == (p1 :> 20) @@ (p2 :> 20) @@ (p3 :> 10)
MCFile   == {common, wrapped, missing}
MCFileId == (common :> 15) @@ (wrapped :> 30) @@ (missing :> 5)
MCMyFile == (p1 :> {common}) @@ (p2 :> {wrapped}) @@ (p3 :> {common})
=============================================================================
