--------------------------- MODULE PeerRingProofs ---------------------------
(***************************************************************************)
(* Theorems about PeerRing, for every number of peers, every set of files  *)
(* and identifiers, and every (patient or lossy) network.                  *)
(***************************************************************************)
EXTENDS PeerRing, OverlayProofs

(* Why the ring works, as an inductive invariant: a datagram belongs to    *)
(* the one command with its identity and carries what that command asked;  *)
(* every peer that looked in its index for a shared file is further from   *)
(* the file's home than the peer its search is addressed to.               *)
Asker(d) == IF d.kind = "search" THEN d.ip_port ELSE d.to

AskedOnce == \A a, b \in asked : a.id = b.id => a = b

DgramsAreAsked ==
  \A d \in dgrams : \E a \in asked :
    a.id = d.id /\ a.file = d.file /\ a.by = Asker(d)

AnswersNameSharers ==
  \A d \in dgrams : d.kind = "owner_of" => d.file \in MyFile[d.ip_port]

NotYetLookedUp ==
  \A c \in Cmd : (\A a \in asked : a.id # c) => lookups[c] = {}

SearchApproachesHome ==
  \A d \in dgrams : d.kind = "search" /\ Shared(d.file) =>
    \A s \in lookups[d.id] :
      Dist(N, s, Home(d.file)) > Dist(N, d.to, Home(d.file))

IInv ==
  /\ TypeOK
  /\ AskedOnce
  /\ OneDatagramPerSearch
  /\ DgramsAreAsked
  /\ AnswersNameSharers
  /\ NotYetLookedUp
  /\ SearchApproachesHome
-----------------------------------------------------------------------------
(* The array the peers were configured from is sorted, and the ring and    *)
(* the index are those of module Overlay.                                  *)
LEMMA Configured ==
  /\ Sorted(AllInfo, N)
  /\ \A f \in File : Home(f) \in Node
  /\ \A p \in Node : scr(p) = (p + 1) % N /\ scr(p) \in Node
<1>1. Sorted(AllInfo, N)
  BY NAssumption, NodeIdAssumption DEF Sorted, AllInfo, Node
<1>2. ASSUME NEW f \in File PROVE Home(f) \in Node
  BY <1>1, HomeIsSlot, NAssumption, FileIdAssumption DEF Home, Node
<1>3. ASSUME NEW p \in Node PROVE scr(p) = (p + 1) % N /\ scr(p) \in Node
  <2>1. (p + 1) % N \in Node
    BY NAssumption, SuccessorSlot DEF Node
  <2> QED
    BY <2>1 DEF scr, Successor, AllInfo
<1> QED
  BY <1>1, <1>2, <1>3

(* A file is in the index of its home, if anyone shares it, and in no      *)
(* other; the address there is that of a sharer.                           *)
LEMMA IndexIsRight ==
  ASSUME NEW p \in Node, NEW f \in File
  PROVE  /\ f \in DOMAIN myFileInfo(p) <=> Shared(f) /\ Home(f) = p
         /\ f \in DOMAIN myFileInfo(p) =>
              myFileInfo(p)[f] \in Node /\ f \in MyFile[myFileInfo(p)[f]]
<1>1. f \in DOMAIN myFileInfo(p) <=> Shared(f) /\ Home(f) = p
  <2>1. (\E j \in 0..(N - 1) : f \in AllInfo[j].myFile) <=> Shared(f)
    BY DEF AllInfo, Shared, Node
  <2>2. f \in DOMAIN MyFileInfo(AllInfo, N, p) <=>
          /\ \E j \in 0..(N - 1) : f \in AllInfo[j].myFile
          /\ map_file_to_node(FileId[f], AllInfo, N) = p
    BY IndexDomain
  <2> QED
    BY <2>1, <2>2 DEF myFileInfo, Home
<1>2. ASSUME f \in DOMAIN myFileInfo(p)
      PROVE  myFileInfo(p)[f] \in Node /\ f \in MyFile[myFileInfo(p)[f]]
  <2> DEFINE o == LastSharer(f, AllInfo, N)
  <2>1. \E j \in 0..(N - 1) : f \in AllInfo[j].myFile
    BY <1>1, <1>2 DEF Shared, AllInfo, Node
  <2>2. o \in Node /\ f \in AllInfo[o].myFile
    BY <2>1, LastSharerShares, NAssumption DEF Node
  <2>3. myFileInfo(p)[f] = AllInfo[o].ip_port
    BY <1>2 DEF myFileInfo, MyFileInfo
  <2> QED
    BY <2>2, <2>3 DEF AllInfo
<1> QED
  BY <1>1, <1>2

(* What search_func sends for a search d at peer p: the same command goes  *)
(* on, either as a true answer to the asker or, when p is not the home of  *)
(* a shared file, as the search, one step nearer to the home.              *)
LEMMA SearchFunc ==
  ASSUME NEW d \in Dgram, d.kind = "search", NEW p \in Node
  PROVE  LET e == search_func(d, p) IN
         /\ e \in Dgram
         /\ e.at = "net" /\ e.id = d.id /\ e.file = d.file
         /\ Asker(e) = d.ip_port
         /\ e.kind = "owner_of" => e.file \in MyFile[e.ip_port]
         /\ e.kind = "search" /\ Shared(e.file) =>
              Dist(N, e.to, Home(e.file)) = Dist(N, p, Home(e.file)) - 1
<1> DEFINE e == search_func(d, p)
<1>1. d.file \in File
  BY DEF Dgram
<1>2. CASE d.file \in DOMAIN myFileInfo(p)
  <2>1. e = [kind |-> "owner_of", file |-> d.file, ip_port |-> myFileInfo(p)[d.file],
             to |-> d.ip_port, at |-> "net", id |-> d.id]
    BY <1>2 DEF search_func
  <2>2. myFileInfo(p)[d.file] \in Node /\ d.file \in MyFile[myFileInfo(p)[d.file]]
    BY <1>1, <1>2, IndexIsRight
  <2>3. /\ e.kind = "owner_of" /\ e.at = "net" /\ e.id = d.id /\ e.file = d.file
        /\ e.to = d.ip_port /\ e.ip_port = myFileInfo(p)[d.file] /\ e \in Dgram
    BY <2>1, <2>2 DEF Dgram, Place
  <2> HIDE DEF e
  <2>4. /\ e \in Dgram
        /\ e.at = "net" /\ e.id = d.id /\ e.file = d.file
        /\ Asker(e) = d.ip_port
        /\ e.kind = "owner_of" => e.file \in MyFile[e.ip_port]
        /\ e.kind = "search" /\ Shared(e.file) =>
             Dist(N, e.to, Home(e.file)) = Dist(N, p, Home(e.file)) - 1
    BY <2>2, <2>3 DEF Asker
  <2> QED
    BY <2>4 DEF e
<1>3. CASE d.file \notin DOMAIN myFileInfo(p)
  <2>1. e = [kind |-> "search", file |-> d.file, ip_port |-> d.ip_port,
             to |-> scr(p), at |-> "net", id |-> d.id]
    BY <1>3 DEF search_func
  <2>2. scr(p) = (p + 1) % N /\ scr(p) \in Node
    BY Configured
  <2>3. ASSUME Shared(d.file)
        PROVE  Dist(N, scr(p), Home(d.file)) = Dist(N, p, Home(d.file)) - 1
    <3>1. Home(d.file) # p
      BY <1>1, <1>3, <2>3, IndexIsRight
    <3>2. Home(d.file) \in Node
      BY <1>1, Configured
    <3> QED
      BY <2>2, <3>1, <3>2, SuccessorIsNearer, NAssumption DEF Node
  <2>4. /\ e.kind = "search" /\ e.at = "net" /\ e.id = d.id /\ e.file = d.file
        /\ e.to = scr(p) /\ e.ip_port = d.ip_port /\ e \in Dgram
    BY <2>1, <2>2 DEF Dgram, Place
  <2> HIDE DEF e
  <2>5. /\ e \in Dgram
        /\ e.at = "net" /\ e.id = d.id /\ e.file = d.file
        /\ Asker(e) = d.ip_port
        /\ e.kind = "owner_of" => e.file \in MyFile[e.ip_port]
        /\ e.kind = "search" /\ Shared(e.file) =>
             Dist(N, e.to, Home(e.file)) = Dist(N, p, Home(e.file)) - 1
    BY <2>3, <2>4 DEF Asker
  <2> QED
    BY <2>5 DEF e
<1> QED
  BY <1>2, <1>3
-----------------------------------------------------------------------------
(* A step that drops datagrams, keeps the others and moves at most one of  *)
(* the dropped ones, d, to another place preserves the invariant.          *)
At(d, place) == [d EXCEPT !.at = place]

LEMMA AtKeeps ==
  ASSUME NEW d \in Dgram, NEW place \in Place
  PROVE  /\ At(d, place) \in Dgram
         /\ At(d, place).at = place
         /\ At(d, place).kind = d.kind /\ At(d, place).file = d.file
         /\ At(d, place).ip_port = d.ip_port /\ At(d, place).to = d.to
         /\ At(d, place).id = d.id /\ Asker(At(d, place)) = Asker(d)
BY DEF At, Dgram, Asker

LEMMA Moving ==
  ASSUME IInv, asked' = asked, lookups' = lookups,
         sock' \in [Node -> {"closed", "bound"}],
         \A e \in dgrams' :
           /\ e \in Dgram
           /\ \E d \in dgrams :
                /\ e.kind = d.kind /\ e.file = d.file /\ e.ip_port = d.ip_port
                /\ e.to = d.to /\ e.id = d.id,
         \A d, e \in dgrams' : d.id = e.id => d = e
  PROVE  IInv'
<1>1. TypeOK'
  BY DEF IInv, TypeOK
<1>2. AskedOnce' /\ NotYetLookedUp'
  BY DEF IInv, AskedOnce, NotYetLookedUp
<1>3. OneDatagramPerSearch'
  BY DEF OneDatagramPerSearch
<1>4. DgramsAreAsked'
  BY DEF IInv, DgramsAreAsked, Asker
<1>5. AnswersNameSharers'
  BY DEF IInv, AnswersNameSharers
<1>6. SearchApproachesHome'
  BY DEF IInv, SearchApproachesHome
<1> QED
  BY <1>1, <1>2, <1>3, <1>4, <1>5, <1>6 DEF IInv

LEMMA MovingOne ==
  ASSUME IInv, asked' = asked, lookups' = lookups,
         sock' \in [Node -> {"closed", "bound"}],
         NEW d \in dgrams, NEW place \in Place, NEW keep \in SUBSET (dgrams \ {d}),
         dgrams' = keep \cup {At(d, place)}
  PROVE  IInv'
<1>1. dgrams \subseteq Dgram
  BY DEF IInv, TypeOK
<1>2. \A e \in dgrams' :
        /\ e \in Dgram
        /\ \E g \in dgrams :
             /\ e.kind = g.kind /\ e.file = g.file /\ e.ip_port = g.ip_port
             /\ e.to = g.to /\ e.id = g.id
  BY <1>1, AtKeeps
<1>3. \A e, g \in dgrams' : e.id = g.id => e = g
  <2>1. At(d, place).id = d.id
    BY <1>1, AtKeeps
  <2>2. \A e \in keep : e.id # d.id
    BY DEF IInv, OneDatagramPerSearch
  <2> QED
    BY <2>1, <2>2 DEF IInv, OneDatagramPerSearch
<1> QED
  BY <1>2, <1>3, Moving

LEMMA Dropping ==
  ASSUME IInv, asked' = asked, lookups' = lookups, sock' = sock,
         dgrams' \subseteq dgrams
  PROVE  IInv'
<1>1. dgrams \subseteq Dgram /\ sock \in [Node -> {"closed", "bound"}]
  BY DEF IInv, TypeOK
<1>2. \A d, e \in dgrams' : d.id = e.id => d = e
  BY DEF IInv, OneDatagramPerSearch
<1> QED
  BY <1>1, <1>2, Moving

LEMMA InitIInv == Init => IInv
BY DEF Init, IInv, TypeOK, AskedOnce, OneDatagramPerSearch, DgramsAreAsked,
       AnswersNameSharers, NotYetLookedUp, SearchApproachesHome

(* A typed search: no datagram and no look-up has its identity yet.        *)
LEMMA TypeSearchIInv ==
  ASSUME IInv, NEW p \in Node, NEW f \in File, NEW c \in Cmd, TypeSearch(p, f, c)
  PROVE  IInv'
<1> DEFINE q == [kind |-> "search", file |-> f, ip_port |-> p,
                 to |-> p, at |-> "net", id |-> c]
           r == [id |-> c, by |-> p, file |-> f]
           e == search_func(q, p)
<1>1. q \in Dgram /\ q.kind = "search" /\ q.ip_port = p /\ q.id = c /\ q.file = f
  BY DEF Dgram, Place
<1>2. r \in Ask /\ r.id = c /\ r.by = p /\ r.file = f
  BY DEF Ask
<1>3. /\ asked' = asked \cup {r} /\ dgrams' = dgrams \cup {e}
      /\ lookups' = [lookups EXCEPT ![c] = @ \cup {p}] /\ sock' = sock
      /\ \A a \in asked : a.id # c
  BY DEF TypeSearch
<1>4. /\ e \in Dgram
      /\ e.at = "net" /\ e.id = c /\ e.file = f
      /\ Asker(e) = p
      /\ e.kind = "owner_of" => e.file \in MyFile[e.ip_port]
      /\ e.kind = "search" /\ Shared(e.file) =>
           Dist(N, e.to, Home(e.file)) = Dist(N, p, Home(e.file)) - 1
  <2> HIDE DEF q
  <2> QED
    BY <1>1, SearchFunc
<1> HIDE DEF q, e, r
<1>5. lookups \in [Cmd -> SUBSET Node] /\ lookups[c] = {}
  BY <1>3 DEF IInv, TypeOK, NotYetLookedUp
<1>6. \A d \in dgrams : d \in Dgram /\ d.id # c
  BY <1>3 DEF IInv, TypeOK, DgramsAreAsked
<1>7. lookups'[c] = {p} /\ \A k \in Cmd \ {c} : lookups'[k] = lookups[k]
  BY <1>3, <1>5
<1>8. TypeOK'
  BY <1>2, <1>3, <1>4, <1>5 DEF IInv, TypeOK
<1>9. AskedOnce'
  BY <1>2, <1>3 DEF IInv, AskedOnce
<1>10. OneDatagramPerSearch'
  BY <1>3, <1>4, <1>6 DEF IInv, OneDatagramPerSearch
<1>11. DgramsAreAsked'
  <2>1. ASSUME NEW d \in dgrams'
        PROVE  \E a \in asked' : a.id = d.id /\ a.file = d.file /\ a.by = Asker(d)
    BY <1>2, <1>3, <1>4 DEF IInv, DgramsAreAsked
  <2> QED
    BY <2>1 DEF DgramsAreAsked, Asker
<1>12. AnswersNameSharers'
  BY <1>3, <1>4 DEF IInv, AnswersNameSharers
<1>13. NotYetLookedUp'
  BY <1>2, <1>3, <1>7 DEF IInv, NotYetLookedUp
<1>14. SearchApproachesHome'
  <2>1. ASSUME NEW d \in dgrams', d.kind = "search", Shared(d.file),
               NEW s \in lookups'[d.id]
        PROVE  Dist(N, s, Home(d.file)) > Dist(N, d.to, Home(d.file))
    <3>1. CASE d = e
      <4>1. s = p
        BY <1>4, <1>7, <2>1, <3>1
      <4>2. Dist(N, p, Home(e.file)) \in Int
        BY <1>1, <1>4, Configured, NAssumption DEF Dist, Node, Dgram
      <4> QED
        BY <1>4, <2>1, <3>1, <4>1, <4>2
    <3>2. CASE d \in dgrams
      <4>1. d.id \in Cmd \ {c}
        BY <1>6, <3>2 DEF Dgram
      <4> QED
        BY <1>7, <2>1, <3>2, <4>1 DEF IInv, SearchApproachesHome
    <3> QED
      BY <1>3, <3>1, <3>2
  <2> QED
    BY <2>1 DEF SearchApproachesHome
<1> QED
  BY <1>8, <1>9, <1>10, <1>11, <1>12, <1>13, <1>14 DEF IInv

(* A search that is served: the peer that looked is one step further from  *)
(* the home than the peer the search goes on to, and all earlier ones are  *)
(* further still.                                                          *)
LEMMA SearchIInv ==
  ASSUME IInv, NEW d \in dgrams, Search(d)
  PROVE  IInv'
<1> DEFINE e == search_func(d, d.to)
<1>1. d \in Dgram /\ d.id \in Cmd /\ d.to \in Node /\ d.file \in File
  BY DEF IInv, TypeOK, Dgram
<1>2. d.kind = "search"
  BY <1>1 DEF Search, IsOwnerOf, Dgram
<1>3. /\ asked' = asked /\ dgrams' = (dgrams \ {d}) \cup {e} /\ sock' = sock
      /\ lookups' = [lookups EXCEPT ![d.id] = @ \cup {d.to}]
  BY DEF Search
<1>4. /\ e \in Dgram
      /\ e.at = "net" /\ e.id = d.id /\ e.file = d.file
      /\ Asker(e) = Asker(d)
      /\ e.kind = "owner_of" => e.file \in MyFile[e.ip_port]
      /\ e.kind = "search" /\ Shared(e.file) =>
           Dist(N, e.to, Home(e.file)) = Dist(N, d.to, Home(e.file)) - 1
  <2>1. Asker(d) = d.ip_port
    BY <1>2 DEF Asker
  <2> QED
    BY <1>1, <1>2, <2>1, SearchFunc
<1> HIDE DEF e
<1>5. \A g \in dgrams \ {d} : g \in Dgram /\ g.id # d.id
  BY DEF IInv, TypeOK, OneDatagramPerSearch
<1>6. /\ lookups'[d.id] = lookups[d.id] \cup {d.to}
      /\ \A k \in Cmd \ {d.id} : lookups'[k] = lookups[k]
      /\ lookups' \in [Cmd -> SUBSET Node]
  BY <1>1, <1>3 DEF IInv, TypeOK
<1>7. TypeOK'
  BY <1>3, <1>4, <1>6 DEF IInv, TypeOK
<1>8. AskedOnce'
  BY <1>3 DEF IInv, AskedOnce
<1>9. OneDatagramPerSearch'
  BY <1>3, <1>4, <1>5 DEF IInv, OneDatagramPerSearch
<1>10. DgramsAreAsked'
  <2>1. PICK a \in asked : a.id = d.id /\ a.file = d.file /\ a.by = Asker(d)
    BY DEF IInv, DgramsAreAsked
  <2>2. ASSUME NEW g \in dgrams'
        PROVE  \E b \in asked : b.id = g.id /\ b.file = g.file /\ b.by = Asker(g)
    BY <1>3, <1>4, <2>1 DEF IInv, DgramsAreAsked
  <2> QED
    BY <1>3, <2>2 DEF DgramsAreAsked, Asker
<1>11. AnswersNameSharers'
  BY <1>3, <1>4 DEF IInv, AnswersNameSharers
<1>12. NotYetLookedUp'
  <2>1. \E a \in asked : a.id = d.id
    BY DEF IInv, DgramsAreAsked
  <2> QED
    BY <1>3, <1>6, <2>1 DEF IInv, NotYetLookedUp
<1>13. SearchApproachesHome'
  <2>1. ASSUME NEW g \in dgrams', g.kind = "search", Shared(g.file),
               NEW s \in lookups'[g.id]
        PROVE  Dist(N, s, Home(g.file)) > Dist(N, g.to, Home(g.file))
    <3>1. CASE g = e
      <4> DEFINE h == Home(d.file)
      <4>1. h \in Node /\ lookups[d.id] \subseteq Node
        BY <1>1, Configured DEF IInv, TypeOK
      <4>2. s \in Node /\ (s = d.to \/ s \in lookups[d.id])
        BY <1>1, <1>4, <1>6, <2>1, <3>1, <4>1
      <4>3. Dist(N, s, h) \in Int /\ Dist(N, d.to, h) \in Int
        BY <1>1, <4>1, <4>2, NAssumption DEF Dist, Node
      <4>4. s \in lookups[d.id] => Dist(N, s, h) > Dist(N, d.to, h)
        BY <1>2, <1>4, <2>1, <3>1 DEF IInv, SearchApproachesHome
      <4>5. Dist(N, g.to, h) = Dist(N, d.to, h) - 1
        BY <1>4, <2>1, <3>1
      <4> HIDE DEF h
      <4>6. Dist(N, s, h) > Dist(N, g.to, h)
        BY <4>2, <4>3, <4>4, <4>5
      <4> QED
        BY <1>4, <3>1, <4>6 DEF h
    <3>2. CASE g \in dgrams \ {d}
      <4>1. g.id \in Cmd \ {d.id}
        BY <1>5, <3>2 DEF Dgram
      <4> QED
        BY <1>6, <2>1, <3>2, <4>1 DEF IInv, SearchApproachesHome
    <3> QED
      BY <1>3, <3>1, <3>2
  <2> QED
    BY <2>1 DEF SearchApproachesHome
<1> QED
  BY <1>7, <1>8, <1>9, <1>10, <1>11, <1>12, <1>13 DEF IInv

LEMMA NextIInv == IInv /\ [Next]_vars => IInv'
<1> SUFFICES ASSUME IInv, [Next]_vars PROVE IInv'
  OBVIOUS
<1>1. ASSUME NEW p \in Node, NEW f \in File, NEW c \in Cmd, TypeSearch(p, f, c)
      PROVE  IInv'
  BY <1>1, TypeSearchIInv
<1>2. ASSUME NEW p \in Node, Bind(p) PROVE IInv'
  <2>1. /\ asked' = asked /\ dgrams' = dgrams /\ lookups' = lookups
        /\ sock' \in [Node -> {"closed", "bound"}]
    BY <1>2 DEF Bind, IInv, TypeOK
  <2> QED
    BY <2>1, Moving DEF IInv, TypeOK, OneDatagramPerSearch
<1>3. ASSUME NEW p \in Node, NEW d \in dgrams, Receive(p, d) PROVE IInv'
  <2> DEFINE keep == {e \in dgrams : ~(e.at = "rcvbuf" /\ e.to = p)}
  <2>1. keep \in SUBSET (dgrams \ {d}) /\ "req" \in Place
    BY <1>3 DEF Receive, Place
  <2>2. /\ asked' = asked /\ lookups' = lookups
        /\ dgrams' = keep \cup {At(d, "req")}
        /\ sock' \in [Node -> {"closed", "bound"}]
    BY <1>3 DEF Receive, At, IInv, TypeOK
  <2> HIDE DEF keep
  <2> QED
    BY <2>1, <2>2, MovingOne
<1>4. ASSUME NEW d \in dgrams, Show(d) PROVE IInv'
  <2>1. /\ asked' = asked /\ lookups' = lookups /\ "shown" \in Place
        /\ dgrams' = (dgrams \ {d}) \cup {At(d, "shown")}
        /\ sock' \in [Node -> {"closed", "bound"}]
    BY <1>4 DEF Show, At, IInv, TypeOK, Place
  <2> QED
    BY <2>1, MovingOne
<1>5. ASSUME NEW d \in dgrams, Search(d) PROVE IInv'
  BY <1>5, SearchIInv
<1>6. ASSUME NEW d \in dgrams, Arrive(d) PROVE IInv'
  <2>1. /\ asked' = asked /\ lookups' = lookups /\ "rcvbuf" \in Place
        /\ dgrams' = (dgrams \ {d}) \cup {At(d, "rcvbuf")}
        /\ sock' \in [Node -> {"closed", "bound"}]
    BY <1>6 DEF Arrive, At, IInv, TypeOK, Place
  <2> QED
    BY <2>1, MovingOne
<1>7. ASSUME NEW d \in dgrams, Refuse(d) \/ Lose(d) PROVE IInv'
  BY <1>7, Dropping DEF Refuse, Lose
<1>8. CASE UNCHANGED vars
  BY <1>8, Dropping DEF vars
<1> QED
  BY <1>1, <1>2, <1>3, <1>4, <1>5, <1>6, <1>7, <1>8 DEF Next

(* The invariant is inductive.                                             *)
THEOREM Inductive == Spec => []IInv
<1>1. Init => IInv
  BY InitIInv
<1>2. IInv /\ [Next]_vars => IInv'
  BY NextIInv
<1> QED
  BY <1>1, <1>2, PTL DEF Spec
-----------------------------------------------------------------------------
(* Every variable keeps its type: in particular no answer and no forwarded *)
(* search is addressed outside the ring (search_func).                     *)
THEOREM TypeCorrect == Spec => []TypeOK
<1>1. IInv => TypeOK
  BY DEF IInv
<1> QED
  BY <1>1, Inductive, PTL

(* However many searches cross on the ring, and whatever is lost, no       *)
(* command is ever represented by two datagrams.                           *)
THEOREM NeverMultiplied == Spec => []OneDatagramPerSearch
<1>1. IInv => OneDatagramPerSearch
  BY DEF IInv
<1> QED
  BY <1>1, Inductive, PTL

(* Every answer is true and goes to the peer that asked, in a ring of any  *)
(* size, with any identifiers and any distribution of the files.           *)
THEOREM AnswersTrue == Spec => []AnswersAreTrue
<1>1. IInv => AnswersAreTrue
  BY DEF IInv, DgramsAreAsked, AnswersNameSharers, AnswersAreTrue, Asker
<1> QED
  BY <1>1, Inductive, PTL

(* The search for a shared file comes to no peer twice, so it is forwarded *)
(* fewer than N times.                                                     *)
THEOREM NoPeerTwice == Spec => []NoPeerAskedTwice
<1>1. IInv => NoPeerAskedTwice
  <2> SUFFICES ASSUME IInv, NEW d \in dgrams, d.kind = "search", Shared(d.file),
                      d.to \in lookups[d.id]
               PROVE  FALSE
    BY DEF NoPeerAskedTwice
  <2> DEFINE h == Home(d.file)
  <2>1. d.to \in Node /\ d.file \in File
    BY DEF IInv, TypeOK, Dgram
  <2>2. Dist(N, d.to, h) \in Int
    BY <2>1, Configured, NAssumption DEF Dist, Node
  <2>3. Dist(N, d.to, h) > Dist(N, d.to, h)
    BY DEF IInv, SearchApproachesHome
  <2> QED
    BY <2>2, <2>3
<1> QED
  BY <1>1, Inductive, PTL
-----------------------------------------------------------------------------
(* The refinement of Lookup.  An answer counts when it is printed, and no  *)
(* step other than Show changes what is printed.                           *)
Printed(S) == {e \in S : e.kind = "owner_of" /\ e.at = "shown"}
Ans(d)     == [id |-> d.id, by |-> d.to, owner |-> d.ip_port]

LEMMA AnsweredIs == Answered = {Ans(d) : d \in Printed(dgrams)}
BY DEF Answered, Ans, Printed

LEMMA AnsweredSame ==
  ASSUME Printed(dgrams') = Printed(dgrams)
  PROVE  Answered' = Answered
BY DEF Answered, Printed

LEMMA InitMaps == Init => L!Init
BY DEF Init, L!Init, Answered

LEMMA TypeSearchMaps ==
  ASSUME IInv, NEW p \in Node, NEW f \in File, NEW c \in Cmd, TypeSearch(p, f, c)
  PROVE  L!Ask(c, p, f)
<1> DEFINE q == [kind |-> "search", file |-> f, ip_port |-> p,
                 to |-> p, at |-> "net", id |-> c]
<1>1. search_func(q, p).at = "net"
  BY DEF search_func
<1>2. dgrams' = dgrams \cup {search_func(q, p)}
  BY DEF TypeSearch
<1> HIDE DEF q
<1>3. Printed(dgrams') = Printed(dgrams)
  BY <1>1, <1>2 DEF Printed
<1> QED
  BY <1>3, AnsweredSame DEF L!Ask, TypeSearch

(* Printing an answer is Answer: the command was asked, no other datagram  *)
(* has its identity, and the answer names a sharer.                        *)
LEMMA ShowMaps ==
  ASSUME IInv, NEW d \in dgrams, Show(d)
  PROVE  [L!Next]_(L!vars)
<1> DEFINE s == At(d, "shown")
<1>1. /\ dgrams' = (dgrams \ {d}) \cup {s} /\ asked' = asked /\ d.at = "req"
      /\ "shown" \in Place /\ d \in Dgram
  BY DEF Show, At, IInv, TypeOK, Place
<1>2. s.kind = d.kind /\ s.at = "shown" /\ Ans(s) = Ans(d)
  BY <1>1, AtKeeps DEF Ans
<1> HIDE DEF s
<1>3. CASE d.kind = "search"
  <2>1. Printed(dgrams') = Printed(dgrams)
    BY <1>1, <1>2, <1>3 DEF Printed
  <2> QED
    BY <1>1, <2>1, AnsweredSame DEF L!vars
<1>4. CASE d.kind = "owner_of"
  <2>1. Printed(dgrams') = Printed(dgrams) \cup {s}
    BY <1>1, <1>2, <1>4 DEF Printed
  <2>2. Answered' = {Ans(e) : e \in Printed(dgrams')}
    BY DEF Answered, Printed, Ans
  <2>3. Answered' = Answered \cup {Ans(d)}
    BY <1>2, <2>1, <2>2, AnsweredIs
  <2>4. PICK a \in asked : a.id = d.id /\ a.file = d.file /\ a.by = d.to
    BY <1>4 DEF IInv, DgramsAreAsked, Asker
  <2>5. a.file \in MyFile[d.ip_port] /\ d.ip_port \in Node
    BY <1>1, <1>4, <2>4 DEF IInv, AnswersNameSharers, Dgram
  <2>6. Ans(d) = [id |-> a.id, by |-> a.by, owner |-> d.ip_port]
    BY <2>4 DEF Ans
  <2>7. \A r \in Answered : r.id # a.id
    <3>1. ASSUME NEW e \in Printed(dgrams) PROVE Ans(e).id # d.id
      BY <1>1, <3>1 DEF IInv, OneDatagramPerSearch, Printed, Ans
    <3> QED
      BY <2>4, <3>1, AnsweredIs
  <2>8. L!Answer(a, d.ip_port)
    BY <1>1, <2>3, <2>4, <2>5, <2>6, <2>7 DEF L!Answer
  <2> QED
    BY <2>4, <2>5, <2>8 DEF L!Next
<1> QED
  BY <1>1, <1>3, <1>4 DEF Dgram

LEMMA NextMaps == IInv /\ [Next]_vars => [L!Next]_(L!vars)
<1> SUFFICES ASSUME IInv, [Next]_vars PROVE [L!Next]_(L!vars)
  OBVIOUS
<1>1. ASSUME NEW p \in Node, NEW f \in File, NEW c \in Cmd, TypeSearch(p, f, c)
      PROVE  [L!Next]_(L!vars)
  BY <1>1, TypeSearchMaps DEF L!Next
<1>2. ASSUME NEW d \in dgrams, Show(d) PROVE [L!Next]_(L!vars)
  BY <1>2, ShowMaps
<1>3. ASSUME asked' = asked, Printed(dgrams') = Printed(dgrams)
      PROVE  [L!Next]_(L!vars)
  BY <1>3, AnsweredSame DEF L!vars
<1>4. ASSUME NEW p \in Node, Bind(p) PROVE [L!Next]_(L!vars)
  BY <1>3, <1>4 DEF Bind, Printed
<1>5. ASSUME NEW p \in Node, NEW d \in dgrams, Receive(p, d)
      PROVE  [L!Next]_(L!vars)
  <2>1. At(d, "req").at = "req"
    BY AtKeeps DEF IInv, TypeOK, Place
  <2>2. /\ dgrams' = {e \in dgrams : ~(e.at = "rcvbuf" /\ e.to = p)} \cup {At(d, "req")}
        /\ asked' = asked
    BY <1>5 DEF Receive, At
  <2>3. Printed(dgrams') = Printed(dgrams)
    BY <2>1, <2>2 DEF Printed
  <2> QED
    BY <1>3, <2>2, <2>3
<1>6. ASSUME NEW d \in dgrams, Search(d) PROVE [L!Next]_(L!vars)
  <2>1. search_func(d, d.to).at = "net"
    BY DEF search_func
  <2>2. /\ dgrams' = (dgrams \ {d}) \cup {search_func(d, d.to)}
        /\ asked' = asked /\ d.at = "req"
    BY <1>6 DEF Search
  <2>3. Printed(dgrams') = Printed(dgrams)
    BY <2>1, <2>2 DEF Printed
  <2> QED
    BY <1>3, <2>2, <2>3
<1>7. ASSUME NEW d \in dgrams, Arrive(d) PROVE [L!Next]_(L!vars)
  <2>1. At(d, "rcvbuf").at = "rcvbuf"
    BY AtKeeps DEF IInv, TypeOK, Place
  <2>2. /\ dgrams' = (dgrams \ {d}) \cup {At(d, "rcvbuf")}
        /\ asked' = asked /\ d.at = "net"
    BY <1>7 DEF Arrive, At
  <2>3. Printed(dgrams') = Printed(dgrams)
    BY <2>1, <2>2 DEF Printed
  <2> QED
    BY <1>3, <2>2, <2>3
<1>8. ASSUME NEW d \in dgrams, Refuse(d) \/ Lose(d) PROVE [L!Next]_(L!vars)
  BY <1>3, <1>8 DEF Refuse, Lose, Printed
<1>9. CASE UNCHANGED vars
  BY <1>3, <1>9 DEF vars
<1> QED
  BY <1>1, <1>2, <1>4, <1>5, <1>6, <1>7, <1>8, <1>9 DEF Next

(* The ring of peers implements the promise of Lookup.                     *)
THEOREM Refinement == Spec => ImplementsLookup
<1>1. Init => L!Init
  BY InitMaps
<1>2. IInv /\ [Next]_vars => [L!Next]_(L!vars)
  BY NextMaps
<1> QED
  BY <1>1, <1>2, Inductive, PTL DEF Spec, L!Spec, ImplementsLookup
=============================================================================
