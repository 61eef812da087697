-------------------------- MODULE MCSizedTransfer --------------------------
(***************************************************************************)
(* An instance of SizedTransfer: a file whose size has two digits (the     *)
(* base is 2); one of that size of which a read fails before its end; an   *)
(* empty one.  Twice three (Hundred is 2) is the most that fits an int.    *)
(* Clients have a directory each.                                          *)
(***************************************************************************)
EXTENDS SizedTransfer, TLC

CONSTANTS song, torn, empty

MCKept    == (song :> <<1, 2, 3>>) @@ (torn :> <<1, 2, 3>>) @@ (empty :> <<>>)
MCGiven   == (torn :> <<1, 2>>) @@ MCKept
MCContent == (song  :> <<49, 49, Newline, 1, 2, 3>>)    \* "11", three
          @@ (torn  :> <<49, 49, Newline, 1, 2>>)
          @@ (empty :> <<48, Newline, Nul>>)            \* "0"

MCDirectoryOf == [c \in Client |-> c]
=============================================================================
