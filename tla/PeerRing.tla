------------------------------ MODULE PeerRing ------------------------------
(***************************************************************************)
(* The running overlay of assignment 6: the peers (server.cpp) after each  *)
(* of them has received its successor and its part of the file index.      *)
(*                                                                         *)
(* A peer is three processes.  The child that reads the terminal handles a *)
(* search command by looking in its copy of the index and sending one      *)
(* datagram; the parent loops over __recvinfo, which opens and binds a UDP *)
(* socket, takes ONE datagram and closes the socket, and then serves what  *)
(* it took.  The third process, the TCP file server, is not part of this   *)
(* module.  The copies of my_node the processes hold never change after    *)
(* fork, so the index and the successor are constant operators here.       *)
(*                                                                         *)
(* Peers are named by their slot in the bootstrap's sorted array.          *)
(***************************************************************************)
EXTENDS Overlay

CONSTANTS N,             \* number of peers
          NodeId,        \* the identifier of each peer
          MyFile,        \* the files each peer shares
          OwnerOfNamed,  \* the file names that contain the text "owner_of"
          Cmd,           \* the search commands a run may type
          Patient        \* see Arrive

Node == 0..(N - 1)

ASSUME NAssumption == N \in Nat \ {0}
ASSUME NodeIdAssumption ==            \* what sort(all_info,all_info+n) gives
  /\ NodeId \in [Node -> Nat]
  /\ \A i, j \in Node : i <= j => NodeId[i] <= NodeId[j]
ASSUME MyFileAssumption == MyFile \in [Node -> SUBSET File]
ASSUME OwnerOfNamedAssumption == OwnerOfNamed \subseteq File
ASSUME PatientAssumption == Patient \in BOOLEAN

VARIABLES
  asked,    \* the search commands typed so far (history)
  dgrams,   \* every datagram that still exists, with the place it is in
  sock,     \* sock[p]: the UDP socket of p's parent process
  lookups   \* lookups[c]: the peers that looked in their index for c (history)

vars == <<asked, dgrams, sock, lookups>>

(* "search <file> for <ip_port>" and "owner_of <file> is <ip_port>" are    *)
(* the two kinds of datagram.  The identity of the command that caused it  *)
(* is not in the datagram; it is kept here to state properties.  A         *)
(* datagram is on its way (net), in the receive buffer of its destination  *)
(* (rcvbuf), in the hands of the parent process (req) or printed (shown).  *)
Place == {"net", "rcvbuf", "req", "shown"}
Dgram == [kind: {"search", "owner_of"}, file: File, ip_port: Node,
          to: Node, at: Place, id: Cmd]
Ask   == [id: Cmd, by: Node, file: File]

AllInfo == [i \in Node |-> [ip_port |-> i, node_id |-> NodeId[i],
                            myFile |-> MyFile[i]]]
scr(p)        == Successor(AllInfo, N, p)
myFileInfo(p) == MyFileInfo(AllInfo, N, p)

TypeOK ==
  /\ asked \subseteq Ask
  /\ dgrams \subseteq Dgram
  /\ sock \in [Node -> {"closed", "bound"}]
  /\ lookups \in [Cmd -> SUBSET Node]

Init ==
  /\ asked = {}
  /\ dgrams = {}
  /\ sock = [p \in Node |-> "closed"]
  /\ lookups = [c \in Cmd |-> {}]
-----------------------------------------------------------------------------
(* Faulty variants, for mutation: name and address change places in the    *)
(* answer; the answer goes to the owner of the file, not to the asker.     *)
Wrong_search_func_fields(d, p) ==
  IF d.file \in DOMAIN myFileInfo(p)
  THEN [kind |-> "owner_of", file |-> myFileInfo(p)[d.file], ip_port |-> d.file,
        to |-> d.ip_port, at |-> "net", id |-> d.id]
  ELSE [d EXCEPT !.to = scr(p), !.at = "net"]

Wrong_search_func_to(d, p) ==
  IF d.file \in DOMAIN myFileInfo(p)
  THEN [d EXCEPT !.kind = "owner_of", !.ip_port = myFileInfo(p)[d.file],
                 !.to = myFileInfo(p)[d.file], !.at = "net"]
  ELSE [d EXCEPT !.to = scr(p), !.at = "net"]

(* The datagram search_func sends for the search d at peer p: the answer,  *)
(* to the peer that asks, or the search itself, to the successor.          *)
search_func(d, p) ==
  IF d.file \in DOMAIN myFileInfo(p)
  THEN [kind |-> "owner_of", file |-> d.file, ip_port |-> myFileInfo(p)[d.file],
        to |-> d.ip_port, at |-> "net", id |-> d.id]
  ELSE [kind |-> "search", file |-> d.file, ip_port |-> d.ip_port,
        to |-> scr(p), at |-> "net", id |-> d.id]

(* The terminal process of p reads the line "search f".                    *)
TypeSearch(p, f, c) ==
  /\ \A a \in asked : a.id # c
  /\ asked' = asked \cup {[id |-> c, by |-> p, file |-> f]}
  /\ dgrams' = dgrams \cup
       {search_func([kind |-> "search", file |-> f, ip_port |-> p,
                     to |-> p, at |-> "net", id |-> c], p)}
  /\ lookups' = [lookups EXCEPT ![c] = @ \cup {p}]
  /\ UNCHANGED sock

Serving(p) == {d \in dgrams : d.at = "req" /\ d.to = p}

(* The parent process enters __recvinfo: socket and bind.                  *)
Bind(p) ==
  /\ sock[p] = "closed"
  /\ Serving(p) = {}
  /\ sock' = [sock EXCEPT ![p] = "bound"]
  /\ UNCHANGED <<asked, dgrams, lookups>>

(* The rest of __recvinfo: recvfrom takes a datagram, close discards every *)
(* other datagram the socket has buffered.                                 *)
Receive(p, d) ==
  /\ sock[p] = "bound"
  /\ d \in dgrams /\ d.at = "rcvbuf" /\ d.to = p
  /\ dgrams' = {e \in dgrams : ~(e.at = "rcvbuf" /\ e.to = p)}
                 \cup {[d EXCEPT !.at = "req"]}
  /\ sock' = [sock EXCEPT ![p] = "closed"]
  /\ UNCHANGED <<asked, lookups>>

(* The body of the parent's loop prints whatever contains "owner_of", a    *)
(* search for a file so named included, and ...                            *)
IsOwnerOf(d) == d.kind = "owner_of" \/ d.file \in OwnerOfNamed

Show(d) ==
  /\ d \in dgrams /\ d.at = "req"
  /\ IsOwnerOf(d)
  /\ dgrams' = (dgrams \ {d}) \cup {[d EXCEPT !.at = "shown"]}
  /\ UNCHANGED <<asked, sock, lookups>>

(* Faulty variants, for mutation: the request stays in hand and is served  *)
(* again; a peer drops its own search when it comes back.                  *)
Wrong_Search_again(d) ==
  /\ d \in dgrams /\ d.at = "req"
  /\ ~IsOwnerOf(d)
  /\ dgrams' = dgrams \cup {search_func(d, d.to)}
  /\ lookups' = [lookups EXCEPT ![d.id] = @ \cup {d.to}]
  /\ UNCHANGED <<asked, sock>>

Wrong_Search_own(d) ==
  /\ d \in dgrams /\ d.at = "req"
  /\ ~IsOwnerOf(d)
  /\ dgrams' = (dgrams \ {d}) \cup
       (IF d.ip_port = d.to THEN {} ELSE {search_func(d, d.to)})
  /\ lookups' = [lookups EXCEPT ![d.id] = @ \cup {d.to}]
  /\ UNCHANGED <<asked, sock>>

(* ... hands the other searches to search_func.                            *)
Search(d) ==
  /\ d \in dgrams /\ d.at = "req"
  /\ ~IsOwnerOf(d)
  /\ dgrams' = (dgrams \ {d}) \cup {search_func(d, d.to)}
  /\ lookups' = [lookups EXCEPT ![d.id] = @ \cup {d.to}]
  /\ UNCHANGED <<asked, sock>>
-----------------------------------------------------------------------------
(* The network delivers in any order.  A patient network keeps a datagram  *)
(* until its destination has a socket with nothing in it; the real one     *)
(* delivers to a socket at once, has the destination refuse it when there  *)
(* is no socket, or loses it.                                              *)
Arrive(d) ==
  /\ d \in dgrams /\ d.at = "net"
  /\ sock[d.to] = "bound"
  /\ Patient => \A e \in dgrams : ~(e.at = "rcvbuf" /\ e.to = d.to)
  /\ dgrams' = (dgrams \ {d}) \cup {[d EXCEPT !.at = "rcvbuf"]}
  /\ UNCHANGED <<asked, sock, lookups>>

Refuse(d) ==
  /\ ~Patient
  /\ d \in dgrams /\ d.at = "net"
  /\ sock[d.to] = "closed"
  /\ dgrams' = dgrams \ {d}
  /\ UNCHANGED <<asked, sock, lookups>>

Lose(d) ==
  /\ ~Patient
  /\ d \in dgrams /\ d.at = "net"
  /\ sock[d.to] = "bound"
  /\ dgrams' = dgrams \ {d}
  /\ UNCHANGED <<asked, sock, lookups>>

Next ==
  \/ \E p \in Node, f \in File, c \in Cmd : TypeSearch(p, f, c)
  \/ \E p \in Node : Bind(p)
  \/ \E p \in Node, d \in dgrams : Receive(p, d)
  \/ \E d \in dgrams : Show(d)
  \/ \E d \in dgrams : Search(d)
  \/ \E d \in dgrams : Arrive(d)
  \/ \E d \in dgrams : Refuse(d)
  \/ \E d \in dgrams : Lose(d)

Spec == Init /\ [][Next]_vars
-----------------------------------------------------------------------------
(* A file is indexed at the home of its identifier, and only if a peer     *)
(* shares it.                                                              *)
Shared(f) == \E i \in Node : f \in MyFile[i]
Home(f)   == map_file_to_node(FileId[f], AllInfo, N)

(* A search never multiplies: whatever the peers, the sockets and the      *)
(* network do, a command typed at a terminal is represented by at most one *)
(* datagram or printed line (search_func sends exactly one datagram for    *)
(* the one it was given).                                                  *)
OneDatagramPerSearch == \A d, e \in dgrams : d.id = e.id => d = e

(* Every answer names a peer that shares the file, and goes to the peer    *)
(* where that file was searched for: the index the bootstrap spread over   *)
(* the ring agrees with what the peers share.                              *)
AnswersAreTrue ==
  \A d \in dgrams : d.kind = "owner_of" =>
    /\ d.file \in MyFile[d.ip_port]
    /\ \E a \in asked : a.id = d.id /\ a.file = d.file /\ a.by = d.to

(* The search for a file that some peer shares never reaches a peer that   *)
(* has already looked for it, so it is forwarded fewer than N times: the   *)
(* successors form one ring and the index entry is on it.                  *)
NoPeerAskedTwice ==
  \A d \in dgrams :
    d.kind = "search" /\ Shared(d.file) => d.to \notin lookups[d.id]

(* The overlay implements the promise of module Lookup: an answer counts   *)
(* when the parent process prints it.                                      *)
Answered ==
  {[id |-> d.id, by |-> d.to, owner |-> d.ip_port] :
     d \in {e \in dgrams : e.kind = "owner_of" /\ e.at = "shown"}}

L == INSTANCE Lookup WITH answered <- Answered

ImplementsLookup == L!Spec
-----------------------------------------------------------------------------
(* Fairness: the parent process never stops calling __recvinfo and serving *)
(* what it returns, and the network does not starve a datagram whose       *)
(* destination is ready for one again and again.  Nothing forces a user to *)
(* type.                                                                   *)
Fairness ==
  /\ \A p \in Node :
       /\ WF_vars(Bind(p))
       /\ WF_vars(\E d \in dgrams : Receive(p, d))
       /\ WF_vars(\E d \in dgrams : d.to = p /\ (Show(d) \/ Search(d)))
  /\ \A c \in Cmd : SF_vars(\E d \in dgrams : d.id = c /\ Arrive(d))

FairSpec == Spec /\ Fairness

(* With a patient network, the search for a shared file is answered.  (A   *)
(* name that contains "owner_of" is excepted: see IsOwnerOf.)              *)
SharedFileIsFound ==
  \A c \in Cmd :
    (\E a \in asked : a.id = c /\ Shared(a.file) /\ a.file \notin OwnerOfNamed)
      ~> (\E r \in Answered : r.id = c)

(* With a patient network, the search for a file nobody shares never ends: *)
(* it goes round the ring for ever, and every peer serves it again and     *)
(* again.  No peer recognises its own search, and there is no answer for   *)
(* "not found".                                                            *)
UnsharedSearchNeverEnds ==
  \A c \in Cmd, p \in Node :
    (\E a \in asked : a.id = c /\ ~Shared(a.file) /\ a.file \notin OwnerOfNamed)
      ~> []<>(\E d \in Serving(p) : d.id = c)
=============================================================================
