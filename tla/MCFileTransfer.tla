--------------------------- MODULE MCFileTransfer ---------------------------
(***************************************************************************)
(* Instances of FileTransfer: one file of three bytes, read and written    *)
(* two at a time, one the server does not have, and clients that share a   *)
(* directory.                                                              *)
(***************************************************************************)
EXTENDS FileTransfer, TLC

CONSTANTS song, gone, here

MCContent     == song :> <<1, 2, 3>>
MCDirectoryOf == [c \in Client |-> here]
=============================================================================
