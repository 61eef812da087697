--------------------------- MODULE MCSelectServer ---------------------------
(***************************************************************************)
(* Instances of SelectServer: a file of three bytes, an empty one, one     *)
(* that cannot be opened, and one the server does not have; blocks of two  *)
(* bytes.                                                                  *)
(***************************************************************************)
EXTENDS SelectServer, TLC

CONSTANTS song, empty, locked, gone

Stored == (song :> <<1, 2, 3>>) @@ (empty :> <<>>) @@ (locked :> <<1>>)

MCContent == [f \in File \ {gone} |-> Stored[f]]
MCGiven   == [f \in File \ {gone} |-> IF f = locked THEN <<>> ELSE Stored[f]]
=============================================================================
