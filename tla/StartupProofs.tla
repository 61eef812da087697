--------------------------- MODULE StartupProofs ---------------------------
(***************************************************************************)
(* What module Startup promises whatever the network loses and whichever   *)
(* peer is killed, for every finite set of peers: a peer that has a        *)
(* configuration has the one of a slot of the bootstrap's array, the       *)
(* configurations of all slots make one ring, and every answer is true.    *)
(***************************************************************************)
EXTENDS Startup, OverlayProofs, FiniteSetTheorems

(* The array has room for the registrations to come; when the last one was *)
(* taken it is full and sorted.  An entry is what its peer registered.     *)
Array ==
  /\ phase = "collect" => \E k \in 0..(n - 1) : DOMAIN all_info = 0..(k - 1)
  /\ phase # "collect" => DOMAIN all_info = 0..(n - 1) /\ Sorted(all_info, n)
  /\ \A i \in DOMAIN all_info : /\ all_info[i].ip_port \in Peer
                                /\ all_info[i] = Registered(all_info[i].ip_port)

Sending ==
  /\ phase = "collect" => sent = 0
  /\ phase = "send" => sent \in 0..(n - 1)
  /\ phase = "exited" => sent = n

(* Configurations exist when the array is final: those on the way, and     *)
(* those a peer has taken, are each the configuration of a slot of the     *)
(* array that holds the receiver's address.                                *)
OfSlot(c, p) ==
  /\ phase # "collect"
  /\ \E i \in 0..(n - 1) : all_info[i].ip_port = p /\ c = Configuration(i)

FromSlots ==
  /\ \A d \in dgrams : d.kind = "config" => OfSlot(d.conf, d.to)
  /\ \A p \in Peer : my_node[p] = Unset \/ OfSlot(my_node[p], p)

(* A peer that was started at most once is registered at most once: its    *)
(* registration is not sent yet, or is one datagram, or lies in one slot.  *)
Registration(p) == {d \in dgrams : d.kind = "register" /\ d.from = p}
SlotsOf(p) == {i \in DOMAIN all_info : all_info[i].ip_port = p}

Once ==
  \A p \in Peer :
    /\ starts[p] = 0 => Registration(p) = {} /\ SlotsOf(p) = {}
    /\ starts[p] = 1 => /\ \A d, e \in Registration(p) : d = e
                        /\ \A i, j \in SlotsOf(p) : i = j
                        /\ Registration(p) = {} \/ SlotsOf(p) = {}

IInv == TypeOK /\ Array /\ Sending /\ FromSlots /\ AnswersAreTrue /\ Once
-----------------------------------------------------------------------------
LEMMA Size == n \in Nat \ {0} /\ 0 \in 0..(n - 1) /\ n - 1 \in 0..n
<1>1. n \in Nat
  BY PeerAssumption, FS_CardinalityType DEF n
<1>2. n # 0
  BY PeerAssumption, FS_EmptySet DEF n
<1> QED
  BY <1>1, <1>2

LEMMA SlotBefore ==
  ASSUME NEW i \in 0..(n - 1)
  PROVE  /\ (i - 1 + n) % n = IF i = 0 THEN n - 1 ELSE i - 1
         /\ (i - 1 + n) % n \in 0..(n - 1)
<1>1. n \in Nat \ {0}
  BY Size
<1> HIDE DEF n
<1>2. CASE i = 0
  BY <1>1, <1>2
<1>3. CASE i # 0
  BY <1>1, <1>3
<1> QED
  BY <1>2, <1>3

LEMMA SlotAfter ==
  ASSUME NEW i \in 0..(n - 1)
  PROVE  /\ (i + 1) % n = IF i + 1 = n THEN 0 ELSE i + 1
         /\ (i + 1) % n \in 0..(n - 1)
<1>1. n \in Nat \ {0}
  BY Size
<1> QED
  BY <1>1, SuccessorSlot

(* A configuration depends on the array alone.                             *)
LEMMA SameConfiguration ==
  ASSUME all_info' = all_info, NEW i
  PROVE  Configuration(i)' = Configuration(i)
BY DEF Configuration

(* The configuration of a slot names peers.                                *)
LEMMA ConfigurationType ==
  ASSUME Array, phase # "collect", NEW i \in 0..(n - 1)
  PROVE  /\ Configuration(i) \in Config
         /\ Configuration(i).scr \in Peer
         /\ Configuration(i).pdr \in Peer
         /\ \A f \in DOMAIN Configuration(i).info :
               /\ \E j \in 0..(n - 1) : Configuration(i).info[f] = all_info[j].ip_port
               /\ Configuration(i).info[f] \in Peer
               /\ f \in MyFile[Configuration(i).info[f]]
<1> DEFINE info == MyFileInfo(all_info, n, i)
<1>1. \A j \in 0..(n - 1) : /\ all_info[j].ip_port \in Peer
                            /\ all_info[j].myFile = MyFile[all_info[j].ip_port]
  BY DEF Array, Registered
<1>2. Successor(all_info, n, i) \in Peer /\ Predecessor(all_info, n, i) \in Peer
  BY <1>1, SlotAfter, SlotBefore DEF Successor, Predecessor
<1>3. /\ DOMAIN info = IndexedAt(all_info, n, i)
      /\ info = [f \in IndexedAt(all_info, n, i) |-> info[f]]
  BY DEF MyFileInfo
<1>4. IndexedAt(all_info, n, i) \subseteq File
  BY DEF IndexedAt
<1>5. ASSUME NEW f \in DOMAIN info
      PROVE  /\ \E j \in 0..(n - 1) : info[f] = all_info[j].ip_port
             /\ info[f] \in Peer /\ f \in MyFile[info[f]]
  <2>1. /\ info[f] = all_info[LastSharer(f, all_info, n)].ip_port
        /\ \E j \in 0..(n - 1) : f \in all_info[j].myFile
    BY <1>5 DEF MyFileInfo, IndexedAt
  <2>2. /\ LastSharer(f, all_info, n) \in 0..(n - 1)
        /\ f \in all_info[LastSharer(f, all_info, n)].myFile
    BY <2>1, LastSharerShares, Size
  <2> HIDE DEF info
  <2> QED
    BY <1>1, <2>1, <2>2
<1>6. info \in Info
  <2> HIDE DEF info
  <2>1. info \in [IndexedAt(all_info, n, i) -> Peer]
    BY <1>3, <1>5
  <2> QED
    BY <1>4, <2>1 DEF Info
<1>7. /\ Configuration(i).scr = Successor(all_info, n, i)
      /\ Configuration(i).pdr = Predecessor(all_info, n, i)
      /\ Configuration(i).info = info
      /\ Configuration(i) = [scr |-> Successor(all_info, n, i),
                             pdr |-> Predecessor(all_info, n, i), info |-> info]
  BY DEF Configuration
<1> HIDE DEF info
<1> QED
  BY <1>2, <1>5, <1>6, <1>7 DEF Config

LEMMA UnsetType == Unset \in Config /\ DOMAIN Unset.info = {} /\ Unset.scr = NoAddr
<1>1. NoInfo \in [{} -> Peer] /\ DOMAIN NoInfo = {}
  BY DEF NoInfo
<1>2. NoInfo \in Info
  BY <1>1 DEF Info
<1> QED
  BY <1>1, <1>2 DEF Unset, Config

(* What a peer has taken as its configuration is typed, and its index      *)
(* entries are true.                                                       *)
LEMMA NodeType ==
  ASSUME IInv, NEW p \in Peer
  PROVE  /\ my_node[p] \in Config
         /\ my_node[p].scr \in Peer \cup {NoAddr}
         /\ \A f \in DOMAIN my_node[p].info :
               my_node[p].info[f] \in Peer /\ f \in MyFile[my_node[p].info[f]]
<1>1. CASE my_node[p] = Unset
  BY <1>1, UnsetType
<1>2. CASE OfSlot(my_node[p], p)
  BY <1>2, ConfigurationType DEF OfSlot, IInv
<1> QED
  BY <1>1, <1>2 DEF IInv, FromSlots

(* What search_func sends keeps the types, and an answer it gives is true. *)
LEMMA SearchSends ==
  ASSUME IInv, NEW p \in Peer, NEW f \in File, NEW q \in Peer, NEW k \in 1..MaxSearches,
         NEW d, d.kind = "search", d.file = f, d.ip_port = q, d.nr = k,
         d = [kind |-> "search", file |-> f, ip_port |-> q, to |-> p,
              at |-> d.at, nr |-> k],
         NEW e \in search_func(d, p)
  PROVE  /\ e \in Dgram
         /\ e.kind \in {"search", "owner_of"}
         /\ e.kind = "owner_of" => e.file \in MyFile[e.ip_port]
<1>1. CASE f \in DOMAIN my_node[p].info
  <2>1. my_node[p].info[f] \in Peer /\ f \in MyFile[my_node[p].info[f]]
    BY <1>1, NodeType
  <2>2. e = [kind |-> "owner_of", file |-> f, ip_port |-> my_node[p].info[f],
             to |-> q, at |-> "net", nr |-> k]
    BY <1>1 DEF search_func
  <2> QED
    BY <2>1, <2>2 DEF Dgram
<1>2. CASE f \notin DOMAIN my_node[p].info
  <2>1. my_node[p].scr # NoAddr
    BY <1>2 DEF search_func
  <2>2. e = [kind |-> "search", file |-> f, ip_port |-> q,
             to |-> my_node[p].scr, at |-> "net", nr |-> k]
    BY <1>2, <2>1 DEF search_func
  <2>3. my_node[p].scr \in Peer
    BY <2>1, NodeType
  <2> QED
    BY <2>2, <2>3 DEF Dgram
<1> QED
  BY <1>1, <1>2
-----------------------------------------------------------------------------
(* A datagram by its kind, and the fields that it keeps on its way.        *)
LEMMA DgramKinds ==
  ASSUME NEW d \in Dgram
  PROVE  /\ d.at \in {"net", "rcvbuf"}
         /\ d.kind = "register" =>
              d = [kind |-> "register", from |-> d.from, to |-> Boot, at |-> d.at, nr |-> d.nr]
         /\ d.kind = "config" =>
              d = [kind |-> "config", conf |-> d.conf, to |-> d.to, at |-> d.at, nr |-> d.nr]
         /\ d.kind \in {"search", "owner_of"} =>
              d = [kind |-> d.kind, file |-> d.file, ip_port |-> d.ip_port,
                   to |-> d.to, at |-> d.at, nr |-> d.nr]
         /\ d.kind = "register" => d.from \in Peer
         /\ d.kind = "config" => d.to \in Peer
         /\ d.kind \in {"search", "owner_of"} =>
              d.file \in File /\ d.ip_port \in Peer /\ d.to \in Peer /\ d.nr \in 1..MaxSearches
         /\ d.kind \in {"register", "config", "search", "owner_of"}
BY DEF Dgram

LEMMA Moved ==
  ASSUME NEW d \in Dgram, NEW e, e = [d EXCEPT !.at = "rcvbuf"]
  PROVE  /\ e \in Dgram /\ e.kind = d.kind
         /\ d.kind = "register" => e.from = d.from /\ e.nr = d.nr
         /\ d.kind = "config" => e.conf = d.conf /\ e.to = d.to
         /\ d.kind = "owner_of" => e.file = d.file /\ e.ip_port = d.ip_port
<1>1. CASE d.kind = "register"
  BY <1>1, DgramKinds DEF Dgram
<1>2. CASE d.kind = "config"
  BY <1>2, DgramKinds DEF Dgram
<1>3. CASE d.kind \in {"search", "owner_of"}
  BY <1>3, DgramKinds DEF Dgram
<1> QED
  BY <1>1, <1>2, <1>3, DgramKinds

(* Where a datagram comes from: it was there before, or has just arrived,  *)
(* or is a registration, a configuration, a search or a true answer.       *)
Kept(e) == \E d \in dgrams : e = d \/ (d.at = "net" /\ e = [d EXCEPT !.at = "rcvbuf"])
Registers(e) ==
  \E p \in Peer : /\ Start(p)
                 /\ e = [kind |-> "register", from |-> p, to |-> Boot,
                         at |-> "net", nr |-> starts[p] + 1]
Configures(e) ==
  /\ SendConfig
  /\ e = [kind |-> "config", conf |-> Configuration(sent),
          to |-> all_info[sent].ip_port, at |-> "net", nr |-> sent]
Searches(e) ==
  /\ e \in Dgram
  /\ e.kind \in {"search", "owner_of"}
  /\ e.kind = "owner_of" => e.file \in MyFile[e.ip_port]

LEMMA Traffic ==
  ASSUME IInv, Next, NEW e \in dgrams'
  PROVE  Kept(e) \/ Registers(e) \/ Configures(e) \/ Searches(e)
<1>1. ASSUME NEW x, Bind(x)  PROVE Kept(e)
  BY <1>1 DEF Bind, Kept
<1>2. ASSUME NEW d, Collect(d)  PROVE Kept(e)
  BY <1>2 DEF Collect, Taken, Kept
<1>3. CASE SendConfig
  BY <1>3 DEF SendConfig, Configures, Kept
<1>4. ASSUME NEW p \in Peer, Start(p)  PROVE Kept(e) \/ Registers(e)
  <2>1. dgrams' = dgrams \cup {[kind |-> "register", from |-> p, to |-> Boot,
                                at |-> "net", nr |-> starts[p] + 1]}
    BY <1>4 DEF Start
  <2> QED
    BY <1>4, <2>1 DEF Registers, Kept
<1>5. ASSUME NEW p \in Peer, Kill(p)  PROVE Kept(e)
  BY <1>5 DEF Kill, Taken, Kept
<1>6. ASSUME NEW p \in Peer, NEW d \in dgrams, Configure(p, d)  PROVE Kept(e)
  BY <1>6 DEF Configure, Taken, Kept
<1>7. ASSUME NEW p \in Peer, NEW d \in dgrams, Serve(p, d)  PROVE Kept(e) \/ Searches(e)
  <2>1. CASE d.kind = "search" /\ e \in search_func(d, p)
    <3>1. d \in Dgram /\ d.to = p
      BY <1>7 DEF IInv, TypeOK, Serve, __recvinfo
    <3>2. Searches(e)
      BY <2>1, <3>1, DgramKinds, SearchSends DEF Searches
    <3> QED
      BY <3>2
  <2>2. CASE e \in Taken(p)
    BY <2>2 DEF Taken, Kept
  <2> QED
    BY <1>7, <2>1, <2>2 DEF Serve
<1>8. ASSUME NEW p \in Peer, NEW f \in File, TypeSearch(p, f)  PROVE Kept(e) \/ Searches(e)
  <2> DEFINE d == [kind |-> "search", file |-> f, ip_port |-> p, to |-> p,
                   at |-> "net", nr |-> typed + 1]
  <2>1. CASE e \in search_func(d, p)
    <3>1. typed + 1 \in 1..MaxSearches
      BY <1>8, BoundAssumption DEF TypeSearch, IInv, TypeOK
    <3>2. d.at = "net"
      OBVIOUS
    <3>3. Searches(e)
      BY <2>1, <3>1, <3>2, SearchSends DEF Searches
    <3> QED
      BY <3>3
  <2>2. CASE e \in dgrams
    BY <2>2 DEF Kept
  <2> QED
    BY <1>8, <2>1, <2>2 DEF TypeSearch
<1>9. ASSUME NEW d \in dgrams, Arrive(d)  PROVE Kept(e)
  BY <1>9 DEF Arrive, Kept
<1>10. ASSUME NEW d \in dgrams, Lose(d)  PROVE Kept(e)
  BY <1>10 DEF Lose, Kept
<1> QED
  BY <1>1, <1>2, <1>3, <1>4, <1>5, <1>6, <1>7, <1>8, <1>9, <1>10 DEF Next

(* Only Collect, SendConfig, Start, Kill and Configure change what the     *)
(* bootstrap and the peers keep.                                           *)
LEMMA Keepers ==
  ASSUME Next
  PROVE  \/ \E d \in dgrams : Collect(d)
         \/ SendConfig
         \/ UNCHANGED bootVars
BY DEF Next, Bind, Start, Kill, Configure, Serve, TypeSearch, Arrive, Lose
-----------------------------------------------------------------------------
(* The array with one registration more.                                   *)
Longer(k, p) == [i \in 0..k |-> IF i = k THEN Registered(p) ELSE all_info[i]]

LEMMA Collected ==
  ASSUME IInv, NEW d \in dgrams, Collect(d)
  PROVE  /\ d \in Registration(d.from) /\ d.from \in Peer /\ d.at = "rcvbuf" /\ d.to = Boot
         /\ phase = "collect" /\ sent' = sent
         /\ \E k \in 0..(n - 1) :
              /\ DOMAIN all_info = 0..(k - 1)
              /\ \/ k + 1 < n /\ phase' = "collect" /\ all_info' = Longer(k, d.from)
                 \/ /\ k + 1 = n /\ phase' = "send"
                    /\ all_info' \in Sortings(Longer(k, d.from))
<1>1. d.at = "rcvbuf" /\ d.to = Boot /\ d \in Dgram /\ phase = "collect" /\ sent' = sent
  BY DEF Collect, __recvinfo, IInv, TypeOK
<1>2. d.kind = "register" /\ d.from \in Peer
  BY <1>1, DgramKinds, PeerAssumption
<1>3. PICK k \in 0..(n - 1) : DOMAIN all_info = 0..(k - 1)
  BY <1>1 DEF IInv, Array
<1>4. Cardinality(DOMAIN all_info) = k
  <2>1. Cardinality(0..(k - 1)) = IF 0 > k - 1 THEN 0 ELSE (k - 1) - 0 + 1
    BY <1>3, Size, FS_Interval
  <2> QED
    BY <1>3, <2>1, Size
<1>5. IF k + 1 < n
      THEN all_info' = Longer(k, d.from) /\ phase' = phase
      ELSE all_info' \in Sortings(Longer(k, d.from)) /\ phase' = "send"
  BY <1>4 DEF Collect, Longer
<1>6. k + 1 < n \/ k + 1 = n
  BY Size
<1> QED
  BY <1>1, <1>2, <1>3, <1>5, <1>6 DEF Registration

(* What sorting does: the entries are the same, in the order of the        *)
(* identifiers.                                                            *)
LEMMA SortingSorts ==
  ASSUME NEW a, NEW b \in Sortings(a),
         \A i \in 0..(n - 1) : a[i].node_id \in Nat
  PROVE  /\ DOMAIN b = 0..(n - 1)
         /\ \A i \in 0..(n - 1) : \E j \in 0..(n - 1) : b[i] = a[j]
         /\ Sorted(b, n)
<1>1. PICK pi \in [0..(n - 1) -> 0..(n - 1)] :
        /\ \A i, j \in 0..(n - 1) : i # j => pi[i] # pi[j]
        /\ \A i, j \in 0..(n - 1) : i < j => a[pi[i]].node_id <= a[pi[j]].node_id
        /\ b = [i \in 0..(n - 1) |-> a[pi[i]]]
  BY DEF Sortings
<1>2. \A i \in 0..(n - 1) : b[i] = a[pi[i]] /\ pi[i] \in 0..(n - 1)
  BY <1>1
<1>3. DOMAIN b = 0..(n - 1)
  BY <1>1
<1>4. \A i \in 0..(n - 1) : b[i].node_id \in Nat
  BY <1>2
<1>5. ASSUME NEW i \in 0..(n - 1), NEW j \in 0..(n - 1), i <= j
      PROVE  b[i].node_id <= b[j].node_id
  <2>1. CASE i = j
    BY <2>1, <1>4
  <2>2. CASE i # j
    <3>1. i < j
      BY <1>5, <2>2, Size
    <3> QED
      BY <1>1, <1>2, <3>1
  <2> QED
    BY <2>1, <2>2
<1> QED
  BY <1>1, <1>2, <1>3, <1>4, <1>5 DEF Sorted

LEMMA LongerSlots ==
  ASSUME IInv, NEW k \in 0..(n - 1), DOMAIN all_info = 0..(k - 1), NEW p \in Peer,
         NEW i \in 0..k
  PROVE  /\ Longer(k, p)[i] = IF i = k THEN Registered(p) ELSE all_info[i]
         /\ i # k => i \in DOMAIN all_info
         /\ Longer(k, p)[i].ip_port \in Peer
         /\ Longer(k, p)[i] = Registered(Longer(k, p)[i].ip_port)
         /\ Longer(k, p)[i].node_id \in Nat
<1>1. i # k => i \in DOMAIN all_info
  BY Size
<1>2. Longer(k, p)[i] = IF i = k THEN Registered(p) ELSE all_info[i]
  BY DEF Longer
<1>3. /\ Longer(k, p)[i].ip_port \in Peer
      /\ Longer(k, p)[i] = Registered(Longer(k, p)[i].ip_port)
  <2>1. CASE i = k
    BY <1>2, <2>1 DEF Registered
  <2>2. CASE i # k
    BY <1>1, <1>2, <2>2 DEF IInv, Array
  <2> QED
    BY <2>1, <2>2
<1>4. Longer(k, p)[i].node_id \in Nat
  BY <1>3, NodeIdAssumption DEF Registered
<1> QED
  BY <1>1, <1>2, <1>3, <1>4

LEMMA StepArray ==
  ASSUME IInv, [Next]_vars
  PROVE  Array'
<1>1. ASSUME NEW d \in dgrams, Collect(d)  PROVE Array'
  <2>1. PICK k \in 0..(n - 1) :
          /\ DOMAIN all_info = 0..(k - 1)
          /\ \/ k + 1 < n /\ phase' = "collect" /\ all_info' = Longer(k, d.from)
             \/ k + 1 = n /\ phase' = "send" /\ all_info' \in Sortings(Longer(k, d.from))
    BY <1>1, Collected
  <2>2. d.from \in Peer
    BY <1>1, Collected
  <2>6. PICK a : a = Longer(k, d.from)
    OBVIOUS
  <2>3. \A i \in 0..k : a[i].ip_port \in Peer /\ a[i] = Registered(a[i].ip_port)
    BY <2>1, <2>2, <2>6, LongerSlots
  <2>4. CASE k + 1 < n /\ phase' = "collect" /\ all_info' = a
    <3>1. DOMAIN all_info' = 0..k
      BY <2>4, <2>6 DEF Longer
    <3>2. k + 1 \in 0..(n - 1) /\ k = (k + 1) - 1
      BY <2>4, Size
    <3>3. \E m \in 0..(n - 1) : DOMAIN all_info' = 0..(m - 1)
      BY <3>1, <3>2
    <3> QED
      BY <2>3, <2>4, <3>1, <3>3 DEF Array, Registered
  <2>5. CASE k + 1 = n /\ phase' = "send" /\ all_info' \in Sortings(a)
    <3>1. k = n - 1
      BY <2>5, Size
    <3>2. \A i \in 0..(n - 1) : a[i].node_id \in Nat
      BY <2>1, <2>2, <2>6, <3>1, LongerSlots
    <3>3. /\ DOMAIN all_info' = 0..(n - 1)
          /\ \A i \in 0..(n - 1) : \E j \in 0..(n - 1) : all_info'[i] = a[j]
          /\ Sorted(all_info', n)
      BY <2>5, <3>2, SortingSorts
    <3>4. \A i \in DOMAIN all_info' : /\ all_info'[i].ip_port \in Peer
                                      /\ all_info'[i] = Registered(all_info'[i].ip_port)
      BY <2>3, <3>1, <3>3
    <3>5. Sorted(all_info, n)' /\ n' = n
      BY <3>3 DEF Sorted, n
    <3> QED
      BY <2>5, <3>3, <3>4, <3>5 DEF Array, Registered
  <2> QED
    BY <2>1, <2>4, <2>5, <2>6
<1>2. CASE SendConfig
  BY <1>2 DEF SendConfig, IInv, Array, TypeOK, Registered
<1>3. CASE UNCHANGED bootVars
  BY <1>3 DEF bootVars, IInv, Array, Registered
<1> QED
  BY <1>1, <1>2, <1>3, Keepers DEF vars, bootVars

LEMMA StepSending ==
  ASSUME IInv, [Next]_vars
  PROVE  Sending'
<1>1. ASSUME NEW d \in dgrams, Collect(d)  PROVE Sending'
  <2>1. sent' = 0 /\ phase' \in {"collect", "send"}
    BY <1>1, Collected DEF IInv, Sending
  <2> QED
    BY <2>1, Size DEF Sending
<1>2. CASE SendConfig
  <2>1. phase = "send" /\ sent \in 0..(n - 1) /\ sent' = sent + 1
    BY <1>2 DEF SendConfig, IInv, Sending
  <2>2. phase' = IF sent + 1 = n THEN "exited" ELSE "send"
    BY <1>2, <2>1 DEF SendConfig
  <2>3. sent + 1 # n => sent + 1 \in 0..(n - 1)
    BY <2>1, Size
  <2> QED
    BY <2>1, <2>2, <2>3 DEF Sending
<1>3. CASE UNCHANGED bootVars
  BY <1>3 DEF bootVars, IInv, Sending
<1> QED
  BY <1>1, <1>2, <1>3, Keepers DEF vars, bootVars
-----------------------------------------------------------------------------
(* What a slot's configuration was, it stays: the array is final when the  *)
(* first one exists.                                                       *)
LEMMA OfSlotStays ==
  ASSUME IInv, [Next]_vars, NEW c, NEW p, OfSlot(c, p)
  PROVE  OfSlot(c, p)'
<1>1. ASSUME NEW d \in dgrams, Collect(d)  PROVE FALSE
  BY <1>1, Collected DEF OfSlot
<1>2. all_info' = all_info /\ (phase' = phase \/ phase' = "exited")
  BY <1>1, Keepers DEF vars, bootVars, SendConfig
<1>3. \A i : Configuration(i)' = Configuration(i)
  BY <1>2, SameConfiguration
<1>4. phase' # "collect"
  BY <1>2 DEF OfSlot
<1>5. PICK i \in 0..(n - 1) : all_info[i].ip_port = p /\ c = Configuration(i)
  BY DEF OfSlot
<1>6. c = Configuration(i)' /\ all_info'[i].ip_port = p
  BY <1>2, <1>3, <1>5
<1>7. n' = n
  BY DEF n
<1> QED
  BY <1>4, <1>5, <1>6, <1>7 DEF OfSlot

(* The bootstrap sends a slot its own configuration.                       *)
LEMMA SentIsOfSlot ==
  ASSUME IInv, SendConfig
  PROVE  /\ sent \in 0..(n - 1)
         /\ OfSlot(Configuration(sent), all_info[sent].ip_port)
         /\ all_info[sent].ip_port \in Peer
         /\ Configuration(sent) \in Config
<1>1. phase = "send" /\ sent \in 0..(n - 1)
  BY DEF SendConfig, IInv, Sending
<1>2. all_info[sent].ip_port \in Peer
  BY <1>1 DEF IInv, Array
<1> QED
  BY <1>1, <1>2, ConfigurationType DEF OfSlot, IInv

LEMMA NodeStep ==
  ASSUME Next
  PROVE  \/ my_node' = my_node
         \/ \E q \in Peer : Kill(q) /\ my_node' = [my_node EXCEPT ![q] = Unset]
         \/ \E q \in Peer, d \in dgrams :
              Configure(q, d) /\ my_node' = [my_node EXCEPT ![q] = Parsed(d)]
<1>1. ASSUME NEW q \in Peer, Kill(q)  PROVE my_node' = [my_node EXCEPT ![q] = Unset]
  BY <1>1 DEF Kill
<1>2. ASSUME NEW q \in Peer, NEW d \in dgrams, Configure(q, d)
      PROVE  my_node' = [my_node EXCEPT ![q] = Parsed(d)]
  BY <1>2 DEF Configure
<1> QED
  BY <1>1, <1>2 DEF Next, Bind, Collect, SendConfig, Start, Serve, TypeSearch,
                    Arrive, Lose, peerVars

LEMMA StepFromSlots ==
  ASSUME IInv, [Next]_vars
  PROVE  FromSlots'
<1>1. ASSUME NEW e \in dgrams', e.kind = "config"  PROVE OfSlot(e.conf, e.to)'
  <2>1. CASE Kept(e)
    <3>1. PICK d \in dgrams : e = d \/ e = [d EXCEPT !.at = "rcvbuf"]
      BY <2>1 DEF Kept
    <3>2. d.kind = "config" /\ e.conf = d.conf /\ e.to = d.to
      BY <1>1, <3>1, Moved DEF IInv, TypeOK
    <3>3. OfSlot(d.conf, d.to)
      BY <3>2 DEF IInv, FromSlots
    <3> QED
      BY <3>2, <3>3, OfSlotStays
  <2>2. CASE Configures(e)
    <3>1. OfSlot(e.conf, e.to)
      BY <2>2, SentIsOfSlot DEF Configures
    <3> QED
      BY <3>1, OfSlotStays
  <2>3. CASE UNCHANGED vars
    <3>1. OfSlot(e.conf, e.to)
      BY <1>1, <2>3 DEF vars, IInv, FromSlots
    <3> QED
      BY <3>1, OfSlotStays
  <2> QED
    BY <1>1, <2>1, <2>2, <2>3, Traffic DEF Registers, Searches
<1>2. ASSUME NEW p \in Peer  PROVE (my_node[p] = Unset \/ OfSlot(my_node[p], p))'
  <2>1. PICK c : c = my_node'[p]
    OBVIOUS
  <2>2. c = Unset \/ OfSlot(c, p)
    <3>1. c = my_node[p] => c = Unset \/ OfSlot(c, p)
      BY DEF IInv, FromSlots
    <3>2. my_node \in [Peer -> Config]
      BY DEF IInv, TypeOK
    <3>3. ASSUME NEW q \in Peer, my_node' = [my_node EXCEPT ![q] = Unset]
          PROVE  c = Unset \/ c = my_node[p]
      BY <2>1, <3>2, <3>3
    <3>4. ASSUME NEW q \in Peer, NEW d \in dgrams, Configure(q, d),
                 my_node' = [my_node EXCEPT ![q] = Parsed(d)]
          PROVE  c = Unset \/ OfSlot(c, p)
      <4>1. CASE p = q /\ d.kind = "config"
        <5>1. c = d.conf /\ d.to = p
          BY <2>1, <3>2, <3>4, <4>1 DEF Parsed, Configure, __recvinfo
        <5> QED
          BY <4>1, <5>1 DEF IInv, FromSlots
      <4>2. CASE p = q /\ d.kind # "config"
        BY <2>1, <3>2, <3>4, <4>2 DEF Parsed
      <4>3. CASE p # q
        BY <2>1, <3>1, <3>2, <3>4, <4>3
      <4> QED
        BY <4>1, <4>2, <4>3
    <3>5. CASE UNCHANGED vars
      BY <2>1, <3>1, <3>5 DEF vars, peerVars
    <3> QED
      BY <2>1, <3>1, <3>3, <3>4, <3>5, NodeStep
  <2>3. c = Unset \/ OfSlot(c, p)'
    BY <2>2, OfSlotStays
  <2>4. OfSlot(my_node[p], p)' <=> OfSlot(c, p)'
    BY <2>1 DEF OfSlot
  <2>5. Unset' = Unset
    BY DEF Unset, NoInfo
  <2> QED
    BY <2>1, <2>3, <2>4, <2>5
<1> QED
  BY <1>1, <1>2 DEF FromSlots

LEMMA StepAnswers ==
  ASSUME IInv, [Next]_vars
  PROVE  AnswersAreTrue'
<1>1. ASSUME NEW e \in dgrams', e.kind = "owner_of"  PROVE e.file \in MyFile[e.ip_port]
  <2>1. CASE Kept(e)
    <3>1. PICK d \in dgrams : e = d \/ e = [d EXCEPT !.at = "rcvbuf"]
      BY <2>1 DEF Kept
    <3>2. d.kind = "owner_of" /\ e.file = d.file /\ e.ip_port = d.ip_port
      BY <1>1, <3>1, Moved DEF IInv, TypeOK
    <3> QED
      BY <3>2 DEF IInv, AnswersAreTrue
  <2>2. CASE UNCHANGED vars
    BY <1>1, <2>2 DEF vars, IInv, AnswersAreTrue
  <2> QED
    BY <1>1, <2>1, <2>2, Traffic DEF Registers, Configures, Searches
<1> QED
  BY <1>1 DEF AnswersAreTrue
-----------------------------------------------------------------------------
(* The slots of a peer after a registration was taken, sorted or not: none *)
(* that it had not before or got now, and one if it has one.               *)
LEMMA LongerOnce ==
  ASSUME IInv, NEW k \in 0..(n - 1), DOMAIN all_info = 0..(k - 1),
         NEW q \in Peer, NEW p \in Peer,
         \A i, j \in SlotsOf(p) : i = j,
         p = q => SlotsOf(p) = {},
         NEW i \in 0..k, NEW j \in 0..k,
         Longer(k, q)[i].ip_port = p
  PROVE  /\ Longer(k, q)[j].ip_port = p => i = j
         /\ p # q => SlotsOf(p) # {}
<1>1. ASSUME NEW s \in 0..k, Longer(k, q)[s].ip_port = p
      PROVE  s \in SlotsOf(p) \/ (s = k /\ p = q)
  <2>1. CASE s = k
    <3>1. Longer(k, q)[s] = Registered(q)
      BY <2>1, LongerSlots
    <3> QED
      BY <1>1, <2>1, <3>1 DEF Registered
  <2>2. CASE s # k
    <3>1. Longer(k, q)[s] = all_info[s] /\ s \in DOMAIN all_info
      BY <2>2, LongerSlots
    <3> QED
      BY <1>1, <3>1 DEF SlotsOf
  <2> QED
    BY <2>1, <2>2
<1> QED
  BY <1>1

LEMMA CollectOnce ==
  ASSUME IInv, NEW d \in dgrams, Collect(d)
  PROVE  Once'
<1> DEFINE q == d.from
<1>1. /\ d \in Registration(q) /\ q \in Peer /\ d.at = "rcvbuf" /\ d.to = Boot
  BY Collected
<1>2. PICK k \in 0..(n - 1) :
        /\ DOMAIN all_info = 0..(k - 1)
        /\ \/ k + 1 < n /\ all_info' = Longer(k, q)
           \/ k + 1 = n /\ all_info' \in Sortings(Longer(k, q))
  BY Collected
<1>3. starts' = starts /\ dgrams' = Taken(Boot)
  BY DEF Collect, peerVars
<1>4. \A p \in Peer : Registration(p)' \subseteq Registration(p) /\ d \notin Registration(p)'
  BY <1>1, <1>3 DEF Registration, Taken
<1>5. SUFFICES ASSUME NEW p \in Peer
               PROVE  /\ starts[p] = 0 => Registration(p)' = {} /\ SlotsOf(p)' = {}
                      /\ starts[p] = 1 => /\ \A e, f \in Registration(p)' : e = f
                                          /\ \A i, j \in SlotsOf(p)' : i = j
                                          /\ Registration(p)' = {} \/ SlotsOf(p)' = {}
  BY <1>3 DEF Once
<1>6. p = q => starts[p] # 0
  BY <1>1 DEF IInv, Once
<1>7. starts[p] = 1 /\ p = q => SlotsOf(p) = {} /\ Registration(p)' = {}
  BY <1>1, <1>4 DEF IInv, Once
<1>8. PICK a : a = Longer(k, q)
  OBVIOUS
<1>9. ASSUME starts[p] \in {0, 1}
      PROVE  /\ \A i, j \in 0..k : a[i].ip_port = p /\ a[j].ip_port = p => i = j
             /\ \A i \in 0..k : a[i].ip_port = p /\ p # q => SlotsOf(p) # {}
  <2>1. (\A i, j \in SlotsOf(p) : i = j) /\ (p = q => SlotsOf(p) = {})
    BY <1>6, <1>7, <1>9 DEF IInv, Once
  <2> QED
    BY <1>1, <1>2, <1>8, <2>1, LongerOnce
<1>10. ASSUME starts[p] \in {0, 1}
       PROVE  /\ \A i, j \in SlotsOf(p)' : i = j
              /\ SlotsOf(p)' # {} /\ p # q => SlotsOf(p) # {}
  <2>1. CASE k + 1 < n /\ all_info' = a
    <3>1. DOMAIN a = 0..k
      BY <1>8 DEF Longer
    <3> QED
      BY <1>9, <1>10, <2>1, <3>1 DEF SlotsOf
  <2>2. CASE k + 1 = n /\ all_info' \in Sortings(a)
    <3>1. k = n - 1
      BY <2>2, Size
    <3>2. PICK b \in Sortings(a) : b = all_info'
      BY <2>2
    <3>3. PICK pi \in [0..(n - 1) -> 0..(n - 1)] :
            /\ \A i, j \in 0..(n - 1) : i # j => pi[i] # pi[j]
            /\ b = [i \in 0..(n - 1) |-> a[pi[i]]]
      BY DEF Sortings
    <3>4. DOMAIN b = 0..(n - 1) /\ \A i \in 0..(n - 1) : b[i] = a[pi[i]]
      BY <3>3
    <3>5. \A i \in SlotsOf(p)' : i \in 0..(n - 1) /\ pi[i] \in 0..k /\ a[pi[i]].ip_port = p
      BY <3>1, <3>2, <3>3, <3>4 DEF SlotsOf
    <3>6. ASSUME NEW i \in SlotsOf(p)', NEW j \in SlotsOf(p)' PROVE i = j
      <4>1. pi[i] = pi[j]
        BY <1>9, <1>10, <3>5, <3>6
      <4> QED
        BY <3>3, <3>5, <3>6, <4>1
    <3>7. ASSUME SlotsOf(p)' # {}, p # q PROVE SlotsOf(p) # {}
      BY <1>9, <1>10, <3>5, <3>7
    <3> QED
      BY <3>6, <3>7
  <2> QED
    BY <1>2, <1>8, <2>1, <2>2
<1>11. CASE starts[p] = 0
  BY <1>4, <1>6, <1>10, <1>11 DEF IInv, Once
<1>12. CASE starts[p] = 1
  BY <1>4, <1>7, <1>10, <1>12 DEF IInv, Once
<1> QED
  BY <1>11, <1>12

LEMMA StartOnce ==
  ASSUME IInv, NEW q \in Peer, Start(q)
  PROVE  Once'
<1> DEFINE r == [kind |-> "register", from |-> q, to |-> Boot, at |-> "net", nr |-> starts[q] + 1]
<1>1. /\ starts' = [starts EXCEPT ![q] = @ + 1] /\ starts \in [Peer -> 0..MaxStarts]
      /\ dgrams' = dgrams \cup {r} /\ all_info' = all_info
  BY DEF Start, bootVars, IInv, TypeOK
<1>2. SUFFICES ASSUME NEW p \in Peer
               PROVE  /\ starts'[p] = 0 => Registration(p)' = {} /\ SlotsOf(p)' = {}
                      /\ starts'[p] = 1 => /\ \A e, f \in Registration(p)' : e = f
                                           /\ \A i, j \in SlotsOf(p)' : i = j
                                           /\ Registration(p)' = {} \/ SlotsOf(p)' = {}
  BY DEF Once
<1>3. SlotsOf(p)' = SlotsOf(p)
  BY <1>1 DEF SlotsOf
<1>4. r.kind = "register" /\ r.from = q
  OBVIOUS
<1> HIDE DEF r
<1>5. CASE p # q
  <2>1. Registration(p)' = Registration(p)
    BY <1>1, <1>4, <1>5 DEF Registration
  <2>2. starts'[p] = starts[p]
    BY <1>1, <1>5
  <2> QED
    BY <1>3, <2>1, <2>2 DEF IInv, Once
<1>6. CASE p = q
  <2>1. starts'[p] = starts[p] + 1 /\ starts[p] \in Nat
    BY <1>1, <1>6, BoundAssumption
  <2>2. ASSUME starts'[p] = 1
        PROVE  Registration(p)' = {r} /\ SlotsOf(p)' = {}
    <3>1. Registration(p) = {} /\ SlotsOf(p) = {}
      BY <2>1, <2>2 DEF IInv, Once
    <3> QED
      BY <1>1, <1>3, <1>4, <1>6, <3>1 DEF Registration
  <2>3. starts'[p] # 0
    BY <2>1
  <2> QED
    BY <2>2, <2>3
<1> QED
  BY <1>5, <1>6

LEMMA ArriveOnce ==
  ASSUME IInv, NEW x \in dgrams, Arrive(x)
  PROVE  Once'
<1> DEFINE y == [x EXCEPT !.at = "rcvbuf"]
<1>1. starts' = starts /\ all_info' = all_info /\ dgrams' = (dgrams \ {x}) \cup {y}
  BY DEF Arrive, peerVars, bootVars
<1>2. x \in Dgram
  BY DEF IInv, TypeOK
<1>3. y.kind = x.kind /\ (x.kind = "register" => y.from = x.from)
  BY <1>2, Moved
<1> HIDE DEF y
<1>4. SUFFICES ASSUME NEW p \in Peer
               PROVE  /\ starts[p] = 0 => Registration(p)' = {} /\ SlotsOf(p)' = {}
                      /\ starts[p] = 1 => /\ \A e, f \in Registration(p)' : e = f
                                          /\ \A i, j \in SlotsOf(p)' : i = j
                                          /\ Registration(p)' = {} \/ SlotsOf(p)' = {}
  BY <1>1 DEF Once
<1>5. SlotsOf(p)' = SlotsOf(p)
  BY <1>1 DEF SlotsOf
<1>6. /\ starts[p] = 0 => Registration(p) = {} /\ SlotsOf(p) = {}
      /\ starts[p] = 1 => /\ \A e, f \in Registration(p) : e = f
                          /\ \A i, j \in SlotsOf(p) : i = j
                          /\ Registration(p) = {} \/ SlotsOf(p) = {}
  BY DEF IInv, Once
<1>7. CASE x \in Registration(p)
  <2>1. Registration(p)' = (Registration(p) \ {x}) \cup {y}
    BY <1>1, <1>3, <1>7 DEF Registration
  <2> QED
    BY <1>5, <1>6, <1>7, <2>1
<1>8. CASE x \notin Registration(p)
  <2>1. y \in Registration(p)' => FALSE
    BY <1>3, <1>8 DEF Registration
  <2>2. Registration(p)' \subseteq Registration(p)
    BY <1>1, <2>1 DEF Registration
  <2> QED
    BY <1>5, <1>6, <2>2
<1> QED
  BY <1>7, <1>8

(* Every other step sends no registration, and takes none.                 *)
LEMMA StepOnce ==
  ASSUME IInv, [Next]_vars
  PROVE  Once'
<1>1. ASSUME NEW d \in dgrams, Collect(d)  PROVE Once'
  BY <1>1, CollectOnce
<1>2. ASSUME NEW q \in Peer, Start(q)  PROVE Once'
  BY <1>2, StartOnce
<1>3. ASSUME NEW x \in dgrams, Arrive(x)  PROVE Once'
  BY <1>3, ArriveOnce
<1>4. ASSUME UNCHANGED <<all_info, starts>>,
             \A e \in dgrams' : e.kind = "register" => e \in dgrams
      PROVE  Once'
  <2>1. \A p \in Peer : SlotsOf(p)' = SlotsOf(p) /\ Registration(p)' \subseteq Registration(p)
    BY <1>4 DEF SlotsOf, Registration
  <2> QED
    BY <1>4, <2>1 DEF IInv, Once
<1>5. CASE SendConfig
  BY <1>5, <1>4 DEF SendConfig, peerVars
<1>6. ASSUME NEW x, Bind(x)  PROVE Once'
  BY <1>6, <1>4 DEF Bind, bootVars, peerVars
<1>7. ASSUME NEW p \in Peer, Kill(p)  PROVE Once'
  BY <1>7, <1>4 DEF Kill, Taken, bootVars
<1>8. ASSUME NEW p \in Peer, NEW d \in dgrams, Configure(p, d)  PROVE Once'
  BY <1>8, <1>4 DEF Configure, Taken, bootVars
<1>9. ASSUME NEW p \in Peer, NEW d \in dgrams, Serve(p, d)  PROVE Once'
  <2>1. UNCHANGED <<all_info, starts>>
    BY <1>9 DEF Serve, bootVars, peerVars
  <2>2. ASSUME NEW e \in search_func(d, p), d.kind = "search"
        PROVE  e.kind # "register"
    <3>1. d \in Dgram /\ d.to = p
      BY <1>9 DEF IInv, TypeOK, Serve, __recvinfo
    <3> QED
      BY <2>2, <3>1, DgramKinds, SearchSends
  <2>3. \A e \in dgrams' : e.kind = "register" => e \in dgrams
    BY <1>9, <2>2 DEF Serve, Taken
  <2> QED
    BY <1>4, <2>1, <2>3
<1>10. ASSUME NEW p \in Peer, NEW f \in File, TypeSearch(p, f)  PROVE Once'
  <2> DEFINE d == [kind |-> "search", file |-> f, ip_port |-> p, to |-> p,
                   at |-> "net", nr |-> typed + 1]
  <2>1. UNCHANGED <<all_info, starts>> /\ dgrams' = dgrams \cup search_func(d, p)
    BY <1>10 DEF TypeSearch, bootVars
  <2>2. typed + 1 \in 1..MaxSearches
    BY <1>10, BoundAssumption DEF TypeSearch, IInv, TypeOK
  <2>3. d.at = "net"
    OBVIOUS
  <2>4. \A e \in search_func(d, p) : e.kind # "register"
    BY <2>2, <2>3, SearchSends
  <2> HIDE DEF d
  <2> QED
    BY <1>4, <2>1, <2>4
<1>11. ASSUME NEW d \in dgrams, Lose(d)  PROVE Once'
  BY <1>11, <1>4 DEF Lose, bootVars, peerVars
<1>12. CASE UNCHANGED vars
  BY <1>12, <1>4 DEF vars, bootVars, peerVars
<1> QED
  BY <1>1, <1>2, <1>3, <1>5, <1>6, <1>7, <1>8, <1>9, <1>10, <1>11, <1>12 DEF Next
-----------------------------------------------------------------------------
LEMMA RegisteredType == \A p \in Peer : Registered(p) \in NodeRec
BY NodeIdAssumption, MyFileAssumption DEF Registered, NodeRec, MyFileAssumption

LEMMA StepTypeOK ==
  ASSUME IInv, [Next]_vars
  PROVE  TypeOK'
<1>1. (\E k \in 0..n : DOMAIN all_info = 0..(k - 1))'
  <2>1. Array' /\ n' = n
    BY StepArray DEF n
  <2>2. \E k \in 0..n : DOMAIN all_info' = 0..(k - 1)
    BY <2>1, Size DEF Array
  <2> QED
    BY <2>1, <2>2
<1>2. (\A i \in DOMAIN all_info : all_info[i] \in NodeRec)'
  <2>1. \A p \in Peer : Registered(p)' = Registered(p)
    BY DEF Registered
  <2> QED
    BY <2>1, StepArray, RegisteredType DEF Array, NodeRec
<1>3. (phase \in {"collect", "send", "exited"})'
  <2>1. ASSUME NEW d \in dgrams, Collect(d)  PROVE phase' \in {"collect", "send"}
    BY <2>1, Collected
  <2> QED
    BY <2>1, Keepers DEF vars, bootVars, SendConfig, IInv, TypeOK
<1>4. (sent \in 0..n)'
  <2>1. Sending' /\ n' = n
    BY StepSending DEF n
  <2> QED
    BY <1>3, <2>1, Size DEF Sending
<1>5. (sock \in [Process -> {"closed", "bound"}])'
  <2> USE DEF IInv, TypeOK
  <2>1. ASSUME NEW x \in Process, Bind(x)  PROVE sock' \in [Process -> {"closed", "bound"}]
    BY <2>1 DEF Bind
  <2>2. ASSUME NEW d \in dgrams, Collect(d)  PROVE sock' \in [Process -> {"closed", "bound"}]
    BY <2>2 DEF Collect, __recvinfo
  <2>3. ASSUME NEW p \in Peer, NEW d \in dgrams, Configure(p, d) \/ Serve(p, d)
        PROVE  sock' \in [Process -> {"closed", "bound"}]
    BY <2>3 DEF Configure, Serve, __recvinfo
  <2>4. ASSUME NEW p \in Peer, Kill(p)  PROVE sock' \in [Process -> {"closed", "bound"}]
    BY <2>4 DEF Kill
  <2>5. CASE UNCHANGED sock
    BY <2>5
  <2>6. sock' \in [Process -> {"closed", "bound"}]
    BY <2>1, <2>2, <2>3, <2>4, <2>5 DEF Next, SendConfig, Start, TypeSearch, Arrive, Lose, vars
  <2> QED
    BY <2>6 DEF Process
<1>6. (/\ run \in [Peer -> {"off", "waiting", "ready"}]
       /\ starts \in [Peer -> 0..MaxStarts]
       /\ typed \in 0..MaxSearches)'
  <2> USE DEF IInv, TypeOK
  <2>1. ASSUME NEW p \in Peer, Start(p)
        PROVE  /\ run' \in [Peer -> {"off", "waiting", "ready"}]
               /\ starts' \in [Peer -> 0..MaxStarts]
               /\ typed' = typed
    <3>1. starts[p] + 1 \in 0..MaxStarts
      BY <2>1, BoundAssumption DEF Start
    <3> QED
      BY <2>1, <3>1 DEF Start
  <2>2. ASSUME NEW p \in Peer, Kill(p)
        PROVE  run' \in [Peer -> {"off", "waiting", "ready"}] /\ UNCHANGED <<starts, typed>>
    BY <2>2 DEF Kill
  <2>3. ASSUME NEW p \in Peer, NEW d \in dgrams, Configure(p, d)
        PROVE  run' \in [Peer -> {"off", "waiting", "ready"}] /\ UNCHANGED <<starts, typed>>
    BY <2>3 DEF Configure
  <2>4. ASSUME NEW p \in Peer, NEW f \in File, TypeSearch(p, f)
        PROVE  typed' \in 0..MaxSearches /\ UNCHANGED <<run, starts>>
    BY <2>4, BoundAssumption DEF TypeSearch
  <2>5. CASE UNCHANGED peerVars
    BY <2>5 DEF peerVars
  <2> QED
    BY <2>1, <2>2, <2>3, <2>4, <2>5
       DEF Next, Bind, Collect, SendConfig, Serve, Arrive, Lose, vars
<1>7. (my_node \in [Peer -> Config])'
  <2>1. my_node \in [Peer -> Config] /\ Unset \in Config
    BY UnsetType DEF IInv, TypeOK
  <2>2. ASSUME NEW p \in Peer, NEW d \in dgrams, Configure(p, d)  PROVE Parsed(d) \in Config
    <3>1. d.kind = "config" => d.conf \in Config
      <4>1. ASSUME d.kind = "config"
            PROVE  OfSlot(d.conf, d.to)
        BY <4>1 DEF IInv, FromSlots
      <4> QED
        BY <4>1, ConfigurationType DEF OfSlot, IInv
    <3> QED
      BY <2>1, <3>1 DEF Parsed
  <2>3. my_node' \in [Peer -> Config]
    <3>1. ASSUME NEW p \in Peer, NEW c \in Config, my_node' = [my_node EXCEPT ![p] = c]
          PROVE  my_node' \in [Peer -> Config]
      BY <2>1, <3>1
    <3>2. CASE UNCHANGED my_node
      BY <2>1, <3>2
    <3>3. UNCHANGED vars => UNCHANGED my_node
      BY DEF vars, peerVars
    <3>4. ASSUME NEW q \in Peer, my_node' = [my_node EXCEPT ![q] = Unset]
          PROVE  my_node' \in [Peer -> Config]
      BY <2>1, <3>1, <3>4
    <3>5. ASSUME NEW q \in Peer, NEW d \in dgrams, Configure(q, d),
                 my_node' = [my_node EXCEPT ![q] = Parsed(d)]
          PROVE  my_node' \in [Peer -> Config]
      BY <2>2, <3>1, <3>5
    <3> QED
      BY <3>2, <3>3, <3>4, <3>5, NodeStep
  <2>4. Config' = Config
    BY DEF Config, Info
  <2> QED
    BY <2>3, <2>4
<1>8. (dgrams \subseteq Dgram)'
  <2>1. ASSUME NEW e \in dgrams'  PROVE e \in Dgram
    <3>1. CASE Kept(e)
      BY <3>1, Moved DEF Kept, IInv, TypeOK
    <3>2. CASE Registers(e)
      <4>1. PICK p \in Peer : /\ Start(p)
                              /\ e = [kind |-> "register", from |-> p, to |-> Boot,
                                      at |-> "net", nr |-> starts[p] + 1]
        BY <3>2 DEF Registers
      <4>2. starts[p] + 1 \in 1..MaxStarts
        BY <4>1, BoundAssumption DEF Start, IInv, TypeOK
      <4> QED
        BY <4>1, <4>2 DEF Dgram
    <3>3. CASE Configures(e)
      BY <3>3, SentIsOfSlot DEF Configures, Dgram
    <3>4. CASE Searches(e)
      BY <3>4 DEF Searches
    <3>5. CASE UNCHANGED vars
      BY <3>5 DEF vars, IInv, TypeOK
    <3> QED
      BY <3>1, <3>2, <3>3, <3>4, <3>5, Traffic
  <2>2. Dgram' = Dgram
    BY DEF Dgram, Config, Info, n
  <2> QED
    BY <2>1, <2>2
<1> QED
  BY <1>1, <1>2, <1>3, <1>4, <1>5, <1>6, <1>7, <1>8 DEF TypeOK

LEMMA InitIInv == Init => IInv
<1> SUFFICES ASSUME Init PROVE IInv
  OBVIOUS
<1> USE DEF Init
<1>1. DOMAIN all_info = {} /\ {} = 0..(0 - 1) /\ 0 \in 0..n
  BY Size
<1>2. TypeOK
  BY <1>1, UnsetType, BoundAssumption DEF TypeOK
<1>3. Array
  BY <1>1, Size DEF Array
<1>4. Sending /\ FromSlots /\ AnswersAreTrue
  BY DEF Sending, FromSlots, AnswersAreTrue
<1>5. Once
  BY <1>1 DEF Once, Registration, SlotsOf
<1> QED
  BY <1>2, <1>3, <1>4, <1>5 DEF IInv

(* The invariant holds of every run of the bootstrap and the peers,        *)
(* through restarts and lost datagrams.                                    *)
THEOREM Invariance == Spec => []IInv
<1>1. IInv /\ [Next]_vars => IInv'
  BY StepTypeOK, StepArray, StepSending, StepFromSlots, StepAnswers, StepOnce DEF IInv
<1> QED
  BY InitIInv, <1>1, PTL DEF Spec

(* The array, what each peer knows and every datagram stay well typed, for *)
(* any number of peers and files.                                          *)
THEOREM TypeCorrect == Spec => []TypeOK
<1>1. IInv => TypeOK
  BY DEF IInv
<1> QED
  BY Invariance, <1>1, PTL

(* A search answered while others are still being configured is answered   *)
(* with a peer that shares the file.                                       *)
THEOREM AnswersTrue == Spec => []AnswersAreTrue
<1>1. IInv => AnswersAreTrue
  BY DEF IInv
<1> QED
  BY Invariance, <1>1, PTL

(* Whatever a peer took for its configuration: one that has its place in   *)
(* the ring got it after __init.cpp had collected every registration.      *)
THEOREM ConfiguredLate == Spec => []ConfiguredAfterAll
<1>1. IInv => ConfiguredAfterAll
  <2> SUFFICES ASSUME IInv, NEW p \in Peer, Configured(p)
               PROVE  /\ phase # "collect" /\ Cardinality(DOMAIN all_info) = n
                      /\ {p, my_node[p].scr, my_node[p].pdr}
                           \cup {my_node[p].info[f] : f \in DOMAIN my_node[p].info}
                           \subseteq {all_info[i].ip_port : i \in DOMAIN all_info}
    BY DEF ConfiguredAfterAll
  <2>1. OfSlot(my_node[p], p)
    BY UnsetType DEF Configured, IInv, FromSlots
  <2>2. PICK i \in 0..(n - 1) : all_info[i].ip_port = p /\ my_node[p] = Configuration(i)
    BY <2>1 DEF OfSlot
  <2>3. phase # "collect" /\ DOMAIN all_info = 0..(n - 1)
    BY <2>1 DEF OfSlot, IInv, Array
  <2>4. Cardinality(0..(n - 1)) = n
    <3>1. Cardinality(0..(n - 1)) = IF 0 > n - 1 THEN 0 ELSE (n - 1) - 0 + 1
      BY Size, FS_Interval
    <3> QED
      BY <3>1, Size
  <2>5. /\ my_node[p].scr = all_info[(i + 1) % n].ip_port
        /\ my_node[p].pdr = all_info[(i - 1 + n) % n].ip_port
    BY <2>2 DEF Configuration, Successor, Predecessor
  <2>6. (i + 1) % n \in 0..(n - 1) /\ (i - 1 + n) % n \in 0..(n - 1)
    BY SlotAfter, SlotBefore
  <2>7. \A f \in DOMAIN my_node[p].info :
          \E j \in 0..(n - 1) : my_node[p].info[f] = all_info[j].ip_port
    BY <2>2, <2>3, ConfigurationType DEF IInv
  <2> QED
    BY <2>2, <2>3, <2>4, <2>5, <2>6, <2>7
<1> QED
  BY Invariance, <1>1, PTL
-----------------------------------------------------------------------------
(* One ring.  Where every peer is configured and was started once, the     *)
(* array is a numbering of the peers, and peer number i has the            *)
(* configuration of slot i.                                                *)
Numbering ==
  /\ \A i \in 0..(n - 1) : /\ all_info[i].ip_port \in Peer
                           /\ my_node[all_info[i].ip_port] = Configuration(i)
                           /\ all_info[i].myFile = MyFile[all_info[i].ip_port]
  /\ \A p \in Peer : \E i \in 0..(n - 1) : all_info[i].ip_port = p
  /\ \A i, j \in 0..(n - 1) : all_info[i].ip_port = all_info[j].ip_port => i = j
  /\ Sorted(all_info, n)

LEMMA AllNumbered ==
  ASSUME IInv, \A p \in Peer : Configured(p) /\ starts[p] = 1
  PROVE  Numbering
<1>1. \A p \in Peer : OfSlot(my_node[p], p)
  BY UnsetType DEF Configured, IInv, FromSlots
<1>2. phase # "collect" /\ DOMAIN all_info = 0..(n - 1) /\ Sorted(all_info, n)
  BY <1>1, PeerAssumption DEF OfSlot, IInv, Array
<1>3. \A i \in 0..(n - 1) : /\ all_info[i].ip_port \in Peer
                           /\ all_info[i].myFile = MyFile[all_info[i].ip_port]
  BY <1>2 DEF IInv, Array, Registered
<1>4. \A i, j \in 0..(n - 1) : all_info[i].ip_port = all_info[j].ip_port => i = j
  BY <1>2, <1>3 DEF IInv, Once, SlotsOf
<1>5. \A p \in Peer : \E i \in 0..(n - 1) :
        all_info[i].ip_port = p /\ my_node[p] = Configuration(i)
  BY <1>1 DEF OfSlot
<1>6. \A i \in 0..(n - 1) : my_node[all_info[i].ip_port] = Configuration(i)
  BY <1>3, <1>4, <1>5
<1> QED
  BY <1>2, <1>3, <1>4, <1>5, <1>6 DEF Numbering

LEMMA Numbered ==
  ASSUME Numbering, NEW i \in 0..(n - 1), NEW p, p = all_info[i].ip_port
  PROVE  /\ my_node[p].scr = all_info[(i + 1) % n].ip_port
         /\ my_node[p].pdr = all_info[(i - 1 + n) % n].ip_port
         /\ my_node[p].info = MyFileInfo(all_info, n, i)
<1>1. my_node[p] = Configuration(i)
  BY DEF Numbering
<1>2. /\ Configuration(i).scr = all_info[(i + 1) % n].ip_port
      /\ Configuration(i).pdr = all_info[(i - 1 + n) % n].ip_port
      /\ Configuration(i).info = MyFileInfo(all_info, n, i)
  BY DEF Configuration, Successor, Predecessor
<1> QED
  BY <1>1, <1>2

LEMMA Around ==
  ASSUME NEW m \in 0..(2 * n - 1)
  PROVE  /\ m % n = IF m < n THEN m ELSE m - n
         /\ m % n \in 0..(n - 1)
<1>1. n \in Nat \ {0}
  BY Size
<1> HIDE DEF n
<1>2. CASE m < n
  BY <1>1, <1>2
<1>3. CASE ~(m < n)
  <2>1. m = 1 * n + (m - n) /\ m - n \in 0..(n - 1)
    BY <1>1, <1>3
  <2> QED
    BY <1>1, <2>1
<1> QED
  BY <1>2, <1>3

LEMMA AroundNext ==
  ASSUME NEW i \in 0..(n - 1), NEW k \in 1..n, NEW l, l = i + (k - 1)
  PROVE  /\ l % n \in 0..(n - 1)
         /\ ((l % n) + 1) % n = (i + k) % n
<1>1. n \in Nat \ {0}
  BY Size
<1>2. l \in 0..(2 * n - 1) /\ l + 1 \in 0..(2 * n - 1) /\ i + k = l + 1
  BY <1>1
<1>3. l % n = (IF l < n THEN l ELSE l - n) /\ l % n \in 0..(n - 1)
  BY <1>2, Around
<1>4. PICK m \in 0..(2 * n - 1) : m = l + 1
  BY <1>2
<1>5. m % n = IF m < n THEN m ELSE m - n
  BY Around
<1>6. ((l % n) + 1) % n = IF (l % n) + 1 = n THEN 0 ELSE (l % n) + 1
  BY <1>3, SlotAfter
<1>7. ((l % n) + 1) % n = m % n
  BY <1>1, <1>2, <1>3, <1>4, <1>5, <1>6
<1> QED
  BY <1>2, <1>3, <1>4, <1>7

(* From slot i, k hops along the successors lead to slot i + k.            *)
LEMMA HopsAre ==
  ASSUME Numbering, NEW i \in 0..(n - 1), NEW p, p = all_info[i].ip_port
  PROVE  \A k \in 0..n : Hops(p)[k] = all_info[(i + k) % n].ip_port
<1> DEFINE H == [k \in 0..n |-> all_info[(i + k) % n].ip_port]
           Hop(h) == h = [k \in 0..n |-> IF k = 0 THEN p ELSE my_node[h[k - 1]].scr]
<1>1. n \in Nat \ {0}
  BY Size
<1>2. \A j \in 0..(n - 1) : my_node[all_info[j].ip_port].scr = all_info[(j + 1) % n].ip_port
  BY Numbered
<1>3. H[0] = p
  <2>1. 0 \in 0..n /\ i + 0 = i /\ i \in 0..(2 * n - 1) /\ i < n
    BY <1>1
  <2>2. i % n = i
    BY <2>1, Around
  <2> QED
    BY <2>1, <2>2
<1>4. ASSUME NEW k \in 0..n, k # 0  PROVE H[k] = my_node[H[k - 1]].scr
  <2>1. k \in 1..n /\ k - 1 \in 0..n
    BY <1>1, <1>4
  <2>2. H[k - 1] = all_info[(i + (k - 1)) % n].ip_port /\ H[k] = all_info[(i + k) % n].ip_port
    BY <2>1
  <2> QED
    BY <1>2, <2>1, <2>2, AroundNext
<1>5. Hop(H)
  <2>1. H = [k \in 0..n |-> H[k]]
    OBVIOUS
  <2>2. \A k \in 0..n : H[k] = IF k = 0 THEN p ELSE my_node[H[k - 1]].scr
    BY <1>3, <1>4
  <2> HIDE DEF H
  <2> QED
    BY <2>1, <2>2
<1>6. Hops(p) = CHOOSE h : Hop(h)
  BY DEF Hops
<1> HIDE DEF H
<1>7. Hop(Hops(p))
  BY <1>5, <1>6
<1>8. PICK g : g = Hops(p)
  OBVIOUS
<1>9. \A k \in 0..n : g[k] = IF k = 0 THEN p ELSE my_node[g[k - 1]].scr
  BY <1>7, <1>8
<1> HIDE DEF Hop
<1>10. \A k \in 0..n : g[k] = H[k]
  <2> DEFINE Bad == {k \in 0..n : g[k] # H[k]}
  <2>1. SUFFICES ASSUME Bad # {}  PROVE FALSE
    OBVIOUS
  <2>2. PICK k \in Bad : \A j \in Bad : k <= j
    <3>1. Bad \in SUBSET Nat
      BY <1>1
    <3> QED
      BY <2>1, <3>1, LeastNat
  <2>3. k \in 0..n /\ g[k] # H[k]
    OBVIOUS
  <2>4. k # 0
    BY <1>3, <1>9, <2>3
  <2>5. k - 1 \in 0..n /\ ~(k <= k - 1)
    BY <1>1, <2>3, <2>4
  <2>6. g[k - 1] = H[k - 1]
    BY <2>2, <2>5
  <2> QED
    BY <1>4, <1>9, <2>3, <2>4, <2>6
<1> QED
  BY <1>8, <1>10 DEF H

(* When every peer has its configuration and none was started twice, the   *)
(* successors are one ring through all peers, the predecessors its         *)
(* inverse, and every file shared is in the index of exactly one peer,     *)
(* whatever the order of equal identifiers std::sort leaves.               *)
THEOREM RingIsOne == Spec => []OneRing
<1>1. IInv => OneRing
  <2> SUFFICES ASSUME IInv, \A p \in Peer : Configured(p) /\ starts[p] = 1
               PROVE  /\ \A p, q \in Peer : \E k \in 1..n : Hops(p)[k] = q
                      /\ \A p \in Peer : my_node[my_node[p].scr].pdr = p
                      /\ \A f \in UNION {MyFile[p] : p \in Peer} :
                           Cardinality({p \in Peer : f \in DOMAIN my_node[p].info}) = 1
    BY DEF OneRing
  <2>1. Numbering
    BY AllNumbered
  <2>2. n \in Nat \ {0}
    BY Size
  <2>3. ASSUME NEW p \in Peer, NEW q \in Peer  PROVE \E k \in 1..n : Hops(p)[k] = q
    <3>1. PICK i \in 0..(n - 1) : all_info[i].ip_port = p
      BY <2>1 DEF Numbering
    <3>2. PICK j \in 0..(n - 1) : all_info[j].ip_port = q
      BY <2>1 DEF Numbering
    <3>3. PICK k \in 1..n : i + k \in 0..(2 * n - 1) /\ (i + k = j \/ i + k = j + n)
      <4>1. CASE i < j
        <5>1. j - i \in 1..n /\ i + (j - i) = j /\ j \in 0..(2 * n - 1)
          BY <2>2, <4>1
        <5> QED
          BY <5>1
      <4>2. CASE ~(i < j)
        <5>1. j - i + n \in 1..n /\ i + (j - i + n) = j + n /\ j + n \in 0..(2 * n - 1)
          BY <2>2, <4>2
        <5> QED
          BY <5>1
      <4> QED
        BY <4>1, <4>2
    <3>4. (i + k) % n = j
      <4>1. PICK m \in 0..(2 * n - 1) : m = i + k
        BY <3>3
      <4>2. m % n = IF m < n THEN m ELSE m - n
        BY Around
      <4> QED
        BY <2>2, <3>3, <4>1, <4>2
    <3>5. k \in 0..n
      BY <2>2
    <3> QED
      BY <2>1, <3>1, <3>2, <3>4, <3>5, HopsAre
  <2>4. ASSUME NEW p \in Peer  PROVE my_node[my_node[p].scr].pdr = p
    <3>1. PICK i \in 0..(n - 1) : all_info[i].ip_port = p
      BY <2>1 DEF Numbering
    <3>2. PICK j \in 0..(n - 1) : j = (i + 1) % n
      BY SlotAfter
    <3>3. my_node[p].scr = all_info[j].ip_port
      BY <2>1, <3>1, <3>2, Numbered
    <3>4. my_node[all_info[j].ip_port].pdr = all_info[(j - 1 + n) % n].ip_port
      BY <2>1, Numbered
    <3>5. (j - 1 + n) % n = i
      BY <2>2, <3>2, SlotAfter, SlotBefore
    <3> QED
      BY <3>1, <3>3, <3>4, <3>5
  <2>5. ASSUME NEW p \in Peer, NEW f \in MyFile[p]
        PROVE  Cardinality({q \in Peer : f \in DOMAIN my_node[q].info}) = 1
    <3>1. PICK i \in 0..(n - 1) : all_info[i].ip_port = p
      BY <2>1 DEF Numbering
    <3>2. f \in all_info[i].myFile /\ f \in File /\ FileId[f] \in Nat
      BY <2>1, <3>1, <2>5, MyFileAssumption, FileIdAssumption DEF Numbering
    <3>3. PICK h \in 0..(n - 1) : h = map_file_to_node(FileId[f], all_info, n)
      BY <2>1, <2>2, <3>2, HomeIsSlot DEF Numbering
    <3>4. ASSUME NEW q \in Peer
          PROVE  f \in DOMAIN my_node[q].info <=> q = all_info[h].ip_port
      <4>1. PICK j \in 0..(n - 1) : all_info[j].ip_port = q
        BY <2>1 DEF Numbering
      <4>2. my_node[q].info = MyFileInfo(all_info, n, j)
        BY <2>1, <4>1, Numbered
      <4>3. f \in DOMAIN my_node[q].info <=> h = j
        BY <3>2, <3>3, <4>2, IndexDomain
      <4> QED
        BY <2>1, <4>1, <4>3 DEF Numbering
    <3>5. all_info[h].ip_port \in Peer
      BY <2>1 DEF Numbering
    <3>6. {q \in Peer : f \in DOMAIN my_node[q].info} = {all_info[h].ip_port}
      BY <3>4, <3>5
    <3> QED
      BY <3>6, FS_Singleton
  <2>6. \A f \in UNION {MyFile[p] : p \in Peer} :
          Cardinality({p \in Peer : f \in DOMAIN my_node[p].info}) = 1
    BY <2>5
  <2> QED
    BY <2>3, <2>4, <2>6
<1> QED
  BY Invariance, <1>1, PTL
=============================================================================
