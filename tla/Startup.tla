------------------------------ MODULE Startup ------------------------------
(***************************************************************************)
(* How the overlay of assignment 6 comes up: every peer (server.cpp,       *)
(* main) registers with the bootstrap process (__init.cpp, main) and waits *)
(* for its configuration; the bootstrap collects n registrations, sorts    *)
(* them, computes ring and index (module Overlay), sends every slot of its *)
(* array one datagram, and exits.  A peer that has its configuration       *)
(* serves searches at once, while others may still be waiting for theirs.  *)
(*                                                                         *)
(* Bootstrap and peers receive with the same __recvinfo: a UDP socket that *)
(* exists for one datagram, whatever that datagram is.                     *)
(***************************************************************************)
EXTENDS Overlay, FiniteSets

CONSTANTS Peer,          \* the peers; a peer stands for its address ip:port
          Boot,          \* the bootstrap, at port 9090
          NoAddr,        \* a text that is not an address
          NodeId,        \* oat_hash of each peer's address
          MyFile,        \* the files each peer registers
          Patient,       \* the network never loses or refuses a datagram
          Quiet,         \* nobody types a search before every peer is ready
          MaxStarts,     \* how often a peer may be started (1 = no restart)
          MaxSearches    \* how many searches are typed

ASSUME PeerAssumption ==
  /\ IsFiniteSet(Peer) /\ Peer # {}
  /\ Boot \notin Peer /\ NoAddr \notin Peer
ASSUME NodeIdAssumption == NodeId \in [Peer -> Nat]
ASSUME MyFileAssumption == MyFile \in [Peer -> SUBSET File]
ASSUME BoundAssumption == MaxStarts \in Nat \ {0} /\ MaxSearches \in Nat

VARIABLES
  all_info,  \* the bootstrap's array: one Node for each registration taken
  phase,     \* the bootstrap: "collect", "send" or "exited"
  sent,      \* how many slots it has sent their configuration
  sock,      \* the UDP socket of each process: "closed" or "bound"
  run,       \* each peer: "off", "waiting" or "ready"
  my_node,   \* what each peer took as its configuration
  starts,    \* how often each peer was started
  typed,     \* how many searches were typed
  dgrams     \* the datagrams on the network and in receive buffers

bootVars == <<all_info, phase, sent>>
peerVars == <<run, my_node, starts, typed>>
vars == <<bootVars, peerVars, sock, dgrams>>

n == Cardinality(Peer)             \* the number fed to the bootstrap
Process == Peer \cup {Boot}

Info   == UNION {[fs -> Peer] : fs \in SUBSET File}
Config == [scr: Peer \cup {NoAddr}, pdr: Peer \cup {NoAddr}, info: Info]
NodeRec == [ip_port: Peer, node_id: Nat, myFile: SUBSET File]
NoInfo == [f \in {} |-> NoAddr]
Unset  == [scr |-> NoAddr, pdr |-> NoAddr, info |-> NoInfo]

(* nr tells apart datagrams with the same text.                            *)
Dgram ==
  LET At == {"net", "rcvbuf"} IN
  [kind: {"register"}, from: Peer, to: {Boot}, at: At, nr: 1..MaxStarts]
    \cup [kind: {"config"}, conf: Config, to: Peer, at: At, nr: 0..(n - 1)]
    \cup [kind: {"search", "owner_of"}, file: File, ip_port: Peer,
          to: Peer, at: At, nr: 1..MaxSearches]

TypeOK ==
  /\ \E k \in 0..n : DOMAIN all_info = 0..(k - 1)
  /\ \A i \in DOMAIN all_info : all_info[i] \in NodeRec
  /\ phase \in {"collect", "send", "exited"}
  /\ sent \in 0..n
  /\ sock \in [Process -> {"closed", "bound"}]
  /\ run \in [Peer -> {"off", "waiting", "ready"}]
  /\ my_node \in [Peer -> Config]
  /\ starts \in [Peer -> 0..MaxStarts]
  /\ typed \in 0..MaxSearches
  /\ dgrams \subseteq Dgram

Init ==
  /\ all_info = [i \in {} |-> NoAddr]
  /\ phase = "collect"
  /\ sent = 0
  /\ sock = [x \in Process |-> "closed"]
  /\ run = [p \in Peer |-> "off"]
  /\ my_node = [p \in Peer |-> Unset]
  /\ starts = [p \in Peer |-> 0]
  /\ typed = 0
  /\ dgrams = {}
-----------------------------------------------------------------------------
(* __recvinfo.  Every process that waits for a datagram first opens and    *)
(* binds a socket; taking a datagram closes it again and discards what     *)
(* else it had buffered.  Taken(x, d) is what stays of dgrams.             *)
Receives(x) == IF x = Boot THEN phase = "collect" ELSE run[x] # "off"

Bind(x) ==
  /\ Receives(x)
  /\ sock[x] = "closed"
  /\ sock' = [sock EXCEPT ![x] = "bound"]
  /\ UNCHANGED <<bootVars, peerVars, dgrams>>

__recvinfo(x, d) ==
  /\ sock[x] = "bound"
  /\ d \in dgrams /\ d.at = "rcvbuf" /\ d.to = x
  /\ sock' = [sock EXCEPT ![x] = "closed"]

Taken(x) == {e \in dgrams : ~(e.at = "rcvbuf" /\ e.to = x)}
-----------------------------------------------------------------------------
(* The bootstrap takes the next registration; the last one ends the loop,  *)
(* and the array is sorted by node_id before anything is sent.  sort is    *)
(* not stable: nodes with one identifier end up in any order.              *)
Sortings(a) ==
  LET Slots == 0..(n - 1) IN
  {[i \in Slots |-> a[pi[i]]] :
     pi \in {q \in [Slots -> Slots] :
               /\ \A i, j \in Slots : i # j => q[i] # q[j]
               /\ \A i, j \in Slots : i < j => a[q[i]].node_id <= a[q[j]].node_id}}

Registered(p) == [ip_port |-> p, node_id |-> NodeId[p], myFile |-> MyFile[p]]

(* Faulty variants, for mutation: the loop never ends; it takes one        *)
(* registration too many.                                                  *)
Wrong_Collect_endless(d) ==
  /\ phase = "collect"
  /\ __recvinfo(Boot, d)
  /\ LET k == Cardinality(DOMAIN all_info)
     IN  all_info' = [i \in 0..k |-> IF i = k THEN Registered(d.from) ELSE all_info[i]]
  /\ dgrams' = Taken(Boot)
  /\ UNCHANGED <<phase, sent, peerVars>>

Wrong_Collect_bound(d) ==
  /\ phase = "collect"
  /\ __recvinfo(Boot, d)
  /\ LET k == Cardinality(DOMAIN all_info)
         a == [i \in 0..k |-> IF i = k THEN Registered(d.from) ELSE all_info[i]]
     IN  IF k + 1 <= n
         THEN all_info' = a /\ phase' = phase
         ELSE all_info' \in Sortings(a) /\ phase' = "send"
  /\ dgrams' = Taken(Boot)
  /\ UNCHANGED <<sent, peerVars>>

Collect(d) ==
  /\ phase = "collect"
  /\ __recvinfo(Boot, d)
  /\ LET k == Cardinality(DOMAIN all_info)
         a == [i \in 0..k |-> IF i = k THEN Registered(d.from) ELSE all_info[i]]
     IN  IF k + 1 < n
         THEN all_info' = a /\ phase' = phase
         ELSE all_info' \in Sortings(a) /\ phase' = "send"
  /\ dgrams' = Taken(Boot)
  /\ UNCHANGED <<sent, peerVars>>

(* scr, pdr and myFileInfo of slot i, in one datagram to its address.      *)
Configuration(i) ==
  [scr |-> Successor(all_info, n, i), pdr |-> Predecessor(all_info, n, i),
   info |-> MyFileInfo(all_info, n, i)]

SendConfig ==
  /\ phase = "send"
  /\ dgrams' = dgrams \cup
       {[kind |-> "config", conf |-> Configuration(sent),
         to |-> all_info[sent].ip_port, at |-> "net", nr |-> sent]}
  /\ sent' = sent + 1
  /\ phase' = IF sent + 1 = n THEN "exited" ELSE phase
  /\ UNCHANGED <<all_info, peerVars, sock>>
-----------------------------------------------------------------------------
(* A faulty variant, for mutation: a peer that starts is a ring of its own *)
(* at once.                                                                *)
Wrong_Start(p) ==
  /\ run[p] = "off"
  /\ starts[p] < MaxStarts
  /\ run' = [run EXCEPT ![p] = "ready"]
  /\ my_node' = [my_node EXCEPT ![p] = [scr |-> p, pdr |-> p, info |-> NoInfo]]
  /\ starts' = [starts EXCEPT ![p] = @ + 1]
  /\ dgrams' = dgrams \cup {[kind |-> "register", from |-> p, to |-> Boot,
                             at |-> "net", nr |-> starts[p] + 1]}
  /\ UNCHANGED <<bootVars, typed, sock>>

(* A peer is started and registers.                                        *)
Start(p) ==
  /\ run[p] = "off"
  /\ starts[p] < MaxStarts
  /\ run' = [run EXCEPT ![p] = "waiting"]
  /\ starts' = [starts EXCEPT ![p] = @ + 1]
  /\ dgrams' = dgrams \cup {[kind |-> "register", from |-> p, to |-> Boot,
                             at |-> "net", nr |-> starts[p] + 1]}
  /\ UNCHANGED <<bootVars, my_node, typed, sock>>

(* It is killed: its socket and its configuration go with it.              *)
Kill(p) ==
  /\ run[p] # "off"
  /\ starts[p] < MaxStarts
  /\ run' = [run EXCEPT ![p] = "off"]
  /\ my_node' = [my_node EXCEPT ![p] = Unset]
  /\ sock' = [sock EXCEPT ![p] = "closed"]
  /\ dgrams' = Taken(p)
  /\ UNCHANGED <<bootVars, starts, typed>>

(* main reads its configuration out of whatever __recvinfo returns: the    *)
(* first two words are the successor and the predecessor, the others the   *)
(* index.  The words of a search or of an answer make no address, and no   *)
(* index entry for a file (a file may not be called "for" or "is").        *)
Parsed(d) == IF d.kind = "config" THEN d.conf ELSE Unset

Configure(p, d) ==
  /\ run[p] = "waiting"
  /\ __recvinfo(p, d)
  /\ my_node' = [my_node EXCEPT ![p] = Parsed(d)]
  /\ run' = [run EXCEPT ![p] = "ready"]
  /\ dgrams' = Taken(p)
  /\ UNCHANGED <<bootVars, starts, typed>>

(* search_func: one datagram, or none when the successor is no address.    *)
search_func(d, p) ==
  LET node == my_node[p] IN
  IF d.file \in DOMAIN node.info
  THEN {[d EXCEPT !.kind = "owner_of", !.ip_port = node.info[d.file],
                  !.to = d.ip_port, !.at = "net"]}
  ELSE IF node.scr = NoAddr THEN {} ELSE {[d EXCEPT !.to = node.scr, !.at = "net"]}

(* The parent process of a ready peer: one turn of its loop.  An answer is *)
(* printed, a configuration that comes now is ignored: no name of a file   *)
(* in it is taken to contain the text "search" or "owner_of", which alone  *)
(* would make it a command.                                                *)
Serve(p, d) ==
  /\ run[p] = "ready"
  /\ __recvinfo(p, d)
  /\ dgrams' = Taken(p) \cup (IF d.kind = "search" THEN search_func(d, p) ELSE {})
  /\ UNCHANGED <<bootVars, peerVars>>

AllReady == \A p \in Peer : run[p] = "ready"

(* The terminal process of a ready peer: "search f".                       *)
TypeSearch(p, f) ==
  /\ run[p] = "ready"
  /\ Quiet => AllReady
  /\ typed < MaxSearches
  /\ typed' = typed + 1
  /\ dgrams' = dgrams \cup
       search_func([kind |-> "search", file |-> f, ip_port |-> p, to |-> p,
                    at |-> "net", nr |-> typed + 1], p)
  /\ UNCHANGED <<bootVars, run, my_node, starts, sock>>
-----------------------------------------------------------------------------
(* The network.  A patient one keeps a datagram until its destination has  *)
(* a socket with nothing in it; the real one delivers to the socket there  *)
(* is, in any order, or not at all.                                        *)
Arrive(d) ==
  /\ d \in dgrams /\ d.at = "net"
  /\ sock[d.to] = "bound"
  /\ Patient => \A e \in dgrams : ~(e.at = "rcvbuf" /\ e.to = d.to)
  /\ dgrams' = (dgrams \ {d}) \cup {[d EXCEPT !.at = "rcvbuf"]}
  /\ UNCHANGED <<bootVars, peerVars, sock>>

Lose(d) ==
  /\ ~Patient
  /\ d \in dgrams /\ d.at = "net"
  /\ dgrams' = dgrams \ {d}
  /\ UNCHANGED <<bootVars, peerVars, sock>>

Next ==
  \/ \E x \in Process : Bind(x)
  \/ \E d \in dgrams : Collect(d)
  \/ SendConfig
  \/ \E p \in Peer : Start(p)
  \/ \E p \in Peer : Kill(p)
  \/ \E p \in Peer, d \in dgrams : Configure(p, d)
  \/ \E p \in Peer, d \in dgrams : Serve(p, d)
  \/ \E p \in Peer, f \in File : TypeSearch(p, f)
  \/ \E d \in dgrams : Arrive(d)
  \/ \E d \in dgrams : Lose(d)

Spec == Init /\ [][Next]_vars
-----------------------------------------------------------------------------
(* A peer is well configured when it runs with a datagram the bootstrap    *)
(* sent.                                                                   *)
Configured(p) == run[p] = "ready" /\ my_node[p].scr # NoAddr

(* The comment above the fork in server.cpp, "topology ready now": a peer  *)
(* that gets there knows its neighbours.                                   *)
TopologyReady == \A p \in Peer : run[p] = "ready" => my_node[p].scr # NoAddr

(* No peer knows a neighbour before n registrations were taken, and the    *)
(* neighbours and the owners in its index are peers that registered.       *)
ConfiguredAfterAll ==
  \A p \in Peer : Configured(p) =>
    /\ phase # "collect" /\ Cardinality(DOMAIN all_info) = n
    /\ {p, my_node[p].scr, my_node[p].pdr}
         \cup {my_node[p].info[f] : f \in DOMAIN my_node[p].info}
         \subseteq {all_info[i].ip_port : i \in DOMAIN all_info}

(* When every peer is configured and none was started twice, the           *)
(* successors form one ring through all of them, the predecessors are its  *)
(* inverse, and every shared file is in the index of exactly one peer.     *)
Hops(p) ==
  LET hop[k \in 0..n] == IF k = 0 THEN p ELSE my_node[hop[k - 1]].scr IN hop

OneRing ==
  (\A p \in Peer : Configured(p) /\ starts[p] = 1) =>
    /\ \A p, q \in Peer : \E k \in 1..n : Hops(p)[k] = q
    /\ \A p \in Peer : my_node[my_node[p].scr].pdr = p
    /\ \A f \in UNION {MyFile[p] : p \in Peer} :
         Cardinality({p \in Peer : f \in DOMAIN my_node[p].info}) = 1

(* Restarts, losses and early searches may break the ring, but no answer   *)
(* is ever wrong: it names a peer that shares the file.                    *)
AnswersAreTrue ==
  \A d \in dgrams : d.kind = "owner_of" => d.file \in MyFile[d.ip_port]
-----------------------------------------------------------------------------
(* Fairness: every process that runs goes on, every peer gets started, and *)
(* the network does not starve a datagram whose destination is ready for   *)
(* one again and again.                                                    *)
Fairness ==
  /\ \A x \in Process : WF_vars(Bind(x))
  /\ WF_vars(\E d \in dgrams : Collect(d))
  /\ WF_vars(SendConfig)
  /\ \A p \in Peer :
       /\ WF_vars(Start(p))
       /\ WF_vars(\E d \in dgrams : Configure(p, d) \/ Serve(p, d))
       /\ SF_vars(\E d \in dgrams : d.kind = "register" /\ d.from = p /\ Arrive(d))
       /\ SF_vars(\E d \in dgrams : d.kind = "config" /\ d.to = p /\ Arrive(d))

FairSpec == Spec /\ Fairness

(* With a patient network and users that wait, every peer gets its         *)
(* neighbours, and keeps them.                                             *)
EveryPeerConfigured == <>[](\A p \in Peer : Configured(p))
=============================================================================
