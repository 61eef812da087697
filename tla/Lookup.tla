------------------------------- MODULE Lookup -------------------------------
(***************************************************************************)
(* What the overlay promises the user of a peer, with no ring and no       *)
(* datagrams: a search command may be answered, at the peer where it was   *)
(* typed, at most once, with the address of a peer that shares the file.   *)
(* A search may also stay without an answer.                               *)
(***************************************************************************)
CONSTANTS Node, File, MyFile, Cmd

VARIABLES asked,     \* the searches typed so far
          answered   \* the answers shown so far

vars == <<asked, answered>>

Init == asked = {} /\ answered = {}

Ask(c, p, f) ==
  /\ \A a \in asked : a.id # c
  /\ asked' = asked \cup {[id |-> c, by |-> p, file |-> f]}
  /\ UNCHANGED answered

Answer(a, owner) ==
  /\ a \in asked
  /\ \A r \in answered : r.id # a.id
  /\ a.file \in MyFile[owner]
  /\ answered' = answered \cup {[id |-> a.id, by |-> a.by, owner |-> owner]}
  /\ UNCHANGED asked

Next ==
  \/ \E c \in Cmd, p \in Node, f \in File : Ask(c, p, f)
  \/ \E a \in asked, owner \in Node : Answer(a, owner)

Spec == Init /\ [][Next]_vars
=============================================================================
