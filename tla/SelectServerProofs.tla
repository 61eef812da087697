------------------------- MODULE SelectServerProofs -------------------------
(***************************************************************************)
(* Theorems about SelectServer, for any number of clients, any files and   *)
(* any sizes: the descriptor sets are the open sockets, no download ends   *)
(* while the server runs, and what a client was sent is whole replies.     *)
(***************************************************************************)
EXTENDS SelectServer, FiniteSetTheorems, SequenceTheorems, WellFoundedInduction, TLAPS

(* A set of natural numbers that is not empty has a least element.         *)
LEMMA LeastNat ==
  ASSUME NEW S \in SUBSET Nat, S # {}
  PROVE  \E x \in S : \A y \in S : x <= y
<1>1. IsWellFoundedOn({ss \in Nat \X Nat : ss[1] < ss[2]}, Nat)
  BY NatLessThanWellFounded DEF OpToRel
<1>2. PICK x \in S : \A y \in S : <<y, x>> \notin {ss \in Nat \X Nat : ss[1] < ss[2]}
  BY <1>1, WFMin
<1>3. ASSUME NEW y \in S PROVE x <= y
  <2>1. <<y, x>> \in Nat \X Nat /\ <<y, x>>[1] = y /\ <<y, x>>[2] = x
    OBVIOUS
  <2>2. ~(<<y, x>>[1] < <<y, x>>[2])
    BY <1>2, <2>1, Zenon
  <2> QED
    BY <2>1, <2>2
<1> QED
  BY <1>3

Going(c) == pc[c] \in {"connected", "header", "reading"}

(* The variables of descriptors and clients, without the bytes.            *)
Typed ==
  /\ up \in BOOLEAN
  /\ backlog \in Seq(Client)
  /\ conn \in [Descriptor -> Client \cup {NoClient}]
  /\ newsockfd \in Descriptor \cup {listener}
  /\ fdmax \in Descriptor \cup {listener}
  /\ pc \in [Client -> {"idle", "connected", "header", "reading", "done",
                        "crashed", "killed"}]
  /\ request \in [Client -> File \cup {NoFile}]

(* A connection is in one place, and a client whose download goes on has   *)
(* one: in the backlog, or a descriptor.                                   *)
OnePlace ==
  /\ \A fd, fe \in Descriptor : conn[fd] = conn[fe] /\ conn[fd] # NoClient => fd = fe
  /\ \A i, j \in DOMAIN backlog : backlog[i] = backlog[j] => i = j
  /\ \A i \in DOMAIN backlog, fd \in Descriptor : conn[fd] # backlog[i]
  /\ \A c \in Client : pc[c] = "idle" => ~Held(c)
  /\ \A c \in Client : up /\ Going(c) => Held(c)

(* What select found is still true when the loop comes to it: a descriptor *)
(* of the pass has a request to read or stands for a client that has gone. *)
Ready(fd) == request[conn[fd]] # NoFile \/ Gone(conn[fd])

PassIsTrue ==
  /\ read_fds \subseteq master
  /\ listener \in read_fds => backlog # <<>>
  /\ \A fd \in read_fds \ {listener} : Ready(fd)

Ended == ~up => master = {} /\ backlog = <<>> /\ \A fd \in Descriptor : conn[fd] = NoClient

(* A client has a name to ask for.                                         *)
Named ==
  /\ name \in [Client -> File \cup {NoFile}]
  /\ \A c \in Client : pc[c] # "idle" => name[c] \in File

SInv == Typed /\ OnePlace /\ MasterIsOpen /\ PassIsTrue /\ Ended /\ EndOnlyWithServer

LEMMA Descriptors ==
  /\ Descriptor \in SUBSET Nat /\ listener \notin Descriptor /\ listener \in Nat
  /\ IsFiniteSet(Descriptor) /\ Cardinality(Descriptor) = Cardinality(Client)
<1>1. Cardinality(Client) \in Nat
  BY ClientAssumption, FS_CardinalityType
<1>2. PICK n \in Nat : n = Cardinality(Client)
  BY <1>1
<1>3. IsFiniteSet(1..n) /\ Cardinality(1..n) = IF 1 > n THEN 0 ELSE n - 1 + 1
  BY FS_Interval
<1>4. Descriptor \in SUBSET Nat /\ listener \notin Descriptor /\ listener \in Nat
  BY <1>1 DEF Descriptor, listener
<1> QED
  BY <1>2, <1>3, <1>4 DEF Descriptor
(* There are as many descriptors as clients: one that waits in the backlog *)
(* finds a free one, and accept takes the lowest.                          *)
LEMMA FreeDescriptor ==
  ASSUME Typed, OnePlace, backlog # <<>>
  PROVE  /\ Head(backlog) \in Client
         /\ Min({fd \in Descriptor : conn[fd] = NoClient}) \in Descriptor
         /\ conn[Min({fd \in Descriptor : conn[fd] = NoClient})] = NoClient
<1> DEFINE free == {fd \in Descriptor : conn[fd] = NoClient}
           c    == Head(backlog)
           rest == Client \ {c}
<1>1. c \in Client /\ 1 \in DOMAIN backlog /\ backlog[1] = c
  BY DEF Typed
<1>2. free # {}
  <2> SUFFICES ASSUME free = {} PROVE FALSE
    OBVIOUS
  <2>1. conn \in [Descriptor -> rest]
    BY <1>1 DEF Typed, OnePlace
  <2>2. IsFiniteSet(rest) /\ Cardinality(rest) < Cardinality(Descriptor)
    <3>1. /\ IsFiniteSet(rest) /\ Cardinality(rest) = Cardinality(Client) - 1
          /\ Cardinality(Client) \in Nat
      BY <1>1, ClientAssumption, FS_RemoveElement, FS_CardinalityType
    <3> HIDE DEF rest
    <3> QED
      BY <3>1, Descriptors
  <2> HIDE DEF rest
  <2>3. PICK fd, fe \in Descriptor : fd # fe /\ conn[fd] = conn[fe]
    <3>1. IsFiniteSet(Descriptor)
      BY Descriptors
    <3> QED
      BY <2>1, <2>2, <3>1, FS_PigeonHole
  <2>4. conn[fd] # NoClient
    OBVIOUS
  <2> QED
    BY <2>3, <2>4 DEF OnePlace
<1>3. free \in SUBSET Nat
  BY Descriptors
<1>4. PICK x \in free : \A y \in free : x <= y
  BY <1>2, <1>3, LeastNat
<1>5. Min(free) \in free
  BY <1>4 DEF Min
<1> QED
  BY <1>1, <1>5
-----------------------------------------------------------------------------
LEMMA InitSInv == Init => SInv
<1> SUFFICES ASSUME Init PROVE SInv
  OBVIOUS
<1>1. Typed
  BY DEF Init, Typed
<1>2. OnePlace
  <2>1. backlog = <<>> /\ DOMAIN backlog = {} /\ \A fd \in Descriptor : conn[fd] = NoClient
    BY DEF Init
  <2>2. \A c \in Client : ~Held(c) /\ ~Going(c)
    BY <2>1, NoneAssumption DEF Init, Held, Going
  <2> QED
    BY <2>1, <2>2 DEF OnePlace
<1>3. MasterIsOpen
  BY Descriptors DEF Init, MasterIsOpen
<1>4. PassIsTrue /\ Ended /\ EndOnlyWithServer
  BY DEF Init, PassIsTrue, Ended, EndOnlyWithServer
<1> QED
  BY <1>1, <1>2, <1>3, <1>4 DEF SInv

(* A step of a client whose download goes on: it takes nothing from the    *)
(* server but what was sent, and a request is only added.                  *)
LEMMA ClientStep ==
  ASSUME SInv, NEW c \in Client, Going(c),
         NEW v \in {"header", "reading", "done", "crashed", "killed"},
         v = "done" => ~up,
         pc' = [pc EXCEPT ![c] = v], UNCHANGED serverVars,
         request' \in [Client -> File \cup {NoFile}],
         \A o \in Client : request[o] # NoFile => request'[o] # NoFile
  PROVE  SInv'
<1>1. Typed' /\ \A fd \in Descriptor : conn[fd] # NoClient => conn[fd] \in Client
  BY DEF SInv, Typed, serverVars
<1>2. /\ pc'[c] = v
      /\ \A o \in Client \ {c} : pc'[o] = pc[o]
  BY DEF SInv, Typed
<1>3. OnePlace'
  <2>1. \A o \in Client : Held(o)' <=> Held(o)
    BY DEF Held, serverVars
  <2>2. \A o \in Client : Going(o)' => Going(o)
    BY <1>2 DEF Going
  <2>3. \A o \in Client : pc'[o] = "idle" => pc[o] = "idle"
    BY <1>2
  <2> QED
    BY <2>1, <2>2, <2>3 DEF SInv, OnePlace, serverVars
<1>4. MasterIsOpen' /\ Ended'
  BY DEF SInv, MasterIsOpen, Ended, serverVars
<1>5. PassIsTrue'
  <2>1. /\ read_fds' = read_fds /\ conn' = conn /\ master' = master /\ backlog' = backlog
    BY DEF serverVars
  <2>2. ASSUME NEW fd \in read_fds, fd # listener PROVE Ready(fd)'
    <3>1. fd \in Descriptor /\ conn[fd] \in Client /\ Ready(fd)
      BY <1>1, <2>2 DEF SInv, PassIsTrue, MasterIsOpen, Ended, Typed
    <3>2. Gone(conn[fd]) => conn[fd] # c
      BY DEF Going, Gone
    <3> QED
      BY <1>2, <2>1, <3>1, <3>2 DEF Ready, Gone
  <2> QED
    BY <2>1, <2>2 DEF SInv, PassIsTrue
<1>6. EndOnlyWithServer'
  BY <1>2 DEF SInv, EndOnlyWithServer, serverVars
<1> QED
  BY <1>1, <1>3, <1>4, <1>5, <1>6 DEF SInv

LEMMA ConnectSInv ==
  ASSUME SInv, NEW c \in Client, NEW f \in File, Connect(c, f)
  PROVE  SInv'
<1> DEFINE n == Len(backlog)
<1>1. /\ backlog \in Seq(Client) /\ n \in Nat /\ DOMAIN backlog = 1..n
      /\ DOMAIN backlog' = 1..(n + 1) /\ backlog' \in Seq(Client)
      /\ backlog'[n + 1] = c /\ \A i \in 1..n : backlog'[i] = backlog[i]
  BY DEF SInv, Typed, Connect
<1>2. /\ ~Held(c) /\ up /\ pc'[c] = "connected"
      /\ \A o \in Client \ {c} : pc'[o] = pc[o]
  BY DEF SInv, Typed, OnePlace, Connect
<1>3. /\ conn' = conn /\ master' = master /\ read_fds' = read_fds /\ fdmax' = fdmax
      /\ up' = up /\ request' = request
  BY DEF Connect
<1>4. Typed'
  BY <1>1, <1>2, <1>3 DEF SInv, Typed, Connect
<1> HIDE DEF n
<1>5. OnePlace'
  <2>1. \A i \in 1..n : backlog[i] # c
    BY <1>1, <1>2 DEF Held
  <2>2. \A fd \in Descriptor : conn[fd] # c
    BY <1>2 DEF Held
  <2>3. \A o \in Client : Held(o)' <=> Held(o) \/ o = c
    BY <1>1, <1>3 DEF Held
  <2>4. \A i, j \in DOMAIN backlog' : backlog'[i] = backlog'[j] => i = j
    BY <1>1, <2>1 DEF SInv, OnePlace
  <2>5. \A i \in DOMAIN backlog', fd \in Descriptor : conn[fd] # backlog'[i]
    BY <1>1, <2>2 DEF SInv, OnePlace
  <2>6. \A o \in Client : (pc'[o] = "idle" => ~Held(o)') /\ (up /\ Going(o)' => Held(o)')
    BY <1>2, <2>3 DEF SInv, OnePlace, Going
  <2> QED
    BY <1>3, <2>4, <2>5, <2>6 DEF SInv, OnePlace
<1>6. MasterIsOpen' /\ Ended'
  BY <1>2, <1>3 DEF SInv, MasterIsOpen, Ended
<1>7. PassIsTrue'
  <2>1. backlog' # <<>>
    BY <1>1
  <2>2. ASSUME NEW fd \in read_fds, fd # listener PROVE Ready(fd)'
    <3>1. fd \in Descriptor /\ conn[fd] \in Client /\ conn[fd] # c
      BY <1>2, <2>2 DEF SInv, PassIsTrue, MasterIsOpen, Typed, Held
    <3> QED
      BY <1>2, <1>3, <2>2, <3>1 DEF SInv, PassIsTrue, Ready, Gone
  <2> QED
    BY <1>3, <2>1, <2>2 DEF SInv, PassIsTrue
<1>8. EndOnlyWithServer'
  BY <1>2, <1>3 DEF SInv, EndOnlyWithServer
<1> QED
  BY <1>4, <1>5, <1>6, <1>7, <1>8 DEF SInv

(* The server's process ends, and every connection with it.                *)
LEMMA ExitSInv ==
  ASSUME SInv, Exit, UNCHANGED pc, request' \in [Client -> File \cup {NoFile}]
  PROVE  SInv'
<1>1. /\ up' = FALSE /\ backlog' = <<>> /\ backlog' \in Seq(Client) /\ DOMAIN backlog' = {}
      /\ conn' = [fd \in Descriptor |-> NoClient]
      /\ newsockfd' = newsockfd /\ fdmax' = fdmax
  BY DEF Exit
<1>2. Typed'
  BY <1>1 DEF SInv, Typed
<1>3. OnePlace'
  <2>1. \A c \in Client : ~Held(c)'
    BY <1>1, NoneAssumption DEF Held
  <2> QED
    BY <1>1, <2>1 DEF OnePlace
<1>4. MasterIsOpen' /\ PassIsTrue' /\ Ended' /\ EndOnlyWithServer'
  BY DEF SInv, Exit, MasterIsOpen, PassIsTrue, Ended, EndOnlyWithServer
<1> QED
  BY <1>2, <1>3, <1>4 DEF SInv

LEMMA SelectSInv ==
  ASSUME SInv, Select
  PROVE  SInv'
<1>1. /\ UNCHANGED <<up, backlog, conn, newsockfd, master, fdmax, pc, request>>
      /\ read_fds' = {fd \in master : fd <= fdmax /\ Readable(fd)}
  BY DEF Select, clientVars
<1>2. Typed' /\ OnePlace' /\ MasterIsOpen' /\ Ended' /\ EndOnlyWithServer'
  BY <1>1 DEF SInv, Typed, OnePlace, MasterIsOpen, Ended, EndOnlyWithServer, Held, Going
<1>3. PassIsTrue'
  BY <1>1 DEF PassIsTrue, Ready, Readable, Gone
<1> QED
  BY <1>2, <1>3 DEF SInv

LEMMA AcceptSInv ==
  ASSUME SInv, Accept
  PROVE  SInv'
<1> DEFINE c   == Head(backlog)
           new == Min({fd \in Descriptor : conn[fd] = NoClient})
<1>1. /\ up /\ listener \in read_fds /\ backlog # <<>>
      /\ newsockfd' = new /\ conn' = [conn EXCEPT ![new] = c]
      /\ backlog' = Tail(backlog) /\ master' = master \cup {new}
      /\ fdmax' = Raised(new) /\ read_fds' = read_fds \ {listener}
      /\ UNCHANGED <<up, pc, request>>
  BY DEF Accept, Serves, SInv, PassIsTrue, clientVars
<1>2. new \in Descriptor /\ conn[new] = NoClient /\ c \in Client
  BY <1>1, FreeDescriptor DEF SInv
<1>3. /\ backlog \in Seq(Client) /\ Len(backlog) \in Nat \ {0}
      /\ DOMAIN backlog = 1..Len(backlog) /\ backlog[1] = c
      /\ backlog' \in Seq(Client) /\ DOMAIN backlog' = 1..(Len(backlog) - 1)
      /\ \A i \in DOMAIN backlog' : backlog'[i] = backlog[i + 1]
  BY <1>1 DEF SInv, Typed
<1> HIDE DEF new, c
<1>4. conn \in [Descriptor -> Client \cup {NoClient}] /\ c # NoClient
  BY <1>2, NoneAssumption DEF SInv, Typed
<1>5. conn'[new] = c /\ \A fd \in Descriptor \ {new} : conn'[fd] = conn[fd]
  BY <1>1, <1>2, <1>4
<1>6. Typed'
  BY <1>1, <1>2, <1>3, <1>4 DEF SInv, Typed, Raised
<1>7. OnePlace'
  <2>1. \A fd \in Descriptor : conn[fd] # c
    BY <1>3 DEF SInv, OnePlace
  <2>2. \A fd, fe \in Descriptor : conn'[fd] = conn'[fe] /\ conn'[fd] # NoClient => fd = fe
    BY <1>4, <1>5, <2>1 DEF SInv, OnePlace
  <2>3. \A i, j \in DOMAIN backlog' : backlog'[i] = backlog'[j] => i = j
    BY <1>3 DEF SInv, OnePlace
  <2>4. \A i \in DOMAIN backlog', fd \in Descriptor : conn'[fd] # backlog'[i]
    BY <1>3, <1>5 DEF SInv, OnePlace
  <2>5. ASSUME NEW o \in Client PROVE Held(o)' <=> Held(o)
    <3>1. CASE o = c
      BY <1>2, <1>3, <1>5, <3>1 DEF Held
    <3>2. CASE o # c
      <4>1. (\E fd \in Descriptor : conn'[fd] = o) <=> (\E fd \in Descriptor : conn[fd] = o)
        BY <1>2, <1>5, <3>2, NoneAssumption
      <4>2. (\E i \in DOMAIN backlog' : backlog'[i] = o) => \E i \in DOMAIN backlog : backlog[i] = o
        BY <1>3
      <4>3. ASSUME NEW i \in DOMAIN backlog, backlog[i] = o
            PROVE  \E j \in DOMAIN backlog' : backlog'[j] = o
        <5>1. i # 1 /\ i - 1 \in DOMAIN backlog' /\ (i - 1) + 1 = i
          BY <1>3, <3>2, <4>3
        <5>2. backlog'[i - 1] = backlog[i]
          BY <1>3, <5>1
        <5> QED
          BY <4>3, <5>1, <5>2
      <4> QED
        BY <4>1, <4>2, <4>3 DEF Held
    <3> QED
      BY <3>1, <3>2
  <2>6. \A o \in Client : (pc'[o] = "idle" => ~Held(o)') /\ (up' /\ Going(o)' => Held(o)')
    BY <1>1, <2>5 DEF SInv, OnePlace, Going
  <2> QED
    BY <2>2, <2>3, <2>4, <2>6 DEF OnePlace
<1>8. MasterIsOpen'
  <2>1. master' = {listener} \cup {fd \in Descriptor : conn'[fd] # NoClient}
    BY <1>1, <1>2, <1>4, <1>5 DEF SInv, MasterIsOpen
  <2>2. \A fd \in master' : fd <= fdmax'
    <3>1. fdmax \in Nat /\ new \in Nat /\ \A fd \in master : fd \in Nat /\ fd <= fdmax
      BY <1>1, <1>2, Descriptors DEF SInv, Typed, MasterIsOpen
    <3> QED
      BY <1>1, <3>1 DEF Raised
  <2> QED
    BY <2>1, <2>2 DEF MasterIsOpen
<1>9. PassIsTrue'
  <2>1. ASSUME NEW fd \in read_fds' PROVE fd # listener /\ fd # new /\ conn'[fd] = conn[fd]
    BY <1>1, <1>2, <1>5, <2>1, Descriptors DEF SInv, PassIsTrue, MasterIsOpen
  <2>2. \A fd \in read_fds' : Ready(fd)'
    BY <1>1, <2>1 DEF SInv, PassIsTrue, Ready, Gone
  <2>3. read_fds' \subseteq master' /\ listener \notin read_fds'
    BY <1>1 DEF SInv, PassIsTrue
  <2> QED
    BY <2>2, <2>3 DEF PassIsTrue
<1>10. Ended' /\ EndOnlyWithServer'
  BY <1>1 DEF SInv, Ended, EndOnlyWithServer
<1> QED
  BY <1>6, <1>7, <1>8, <1>9, <1>10 DEF SInv

(* A descriptor is closed only for a client that has gone.                 *)
LEMMA HangUpSInv ==
  ASSUME SInv, NEW i \in Descriptor, HangUp(i)
  PROVE  SInv'
<1> DEFINE c == conn[i]
<1>1. /\ up /\ i \in read_fds /\ i # listener /\ request[c] = NoFile
      /\ conn' = [conn EXCEPT ![i] = NoClient]
      /\ master' = master \ {i} /\ read_fds' = read_fds \ {i}
      /\ UNCHANGED <<up, backlog, newsockfd, fdmax, pc, request>>
  BY DEF HangUp, Serves, Cleared, clientVars
<1>2. Gone(c) /\ c \in Client
  <2>1. Ready(i) /\ i \in master
    BY <1>1 DEF SInv, PassIsTrue
  <2> QED
    BY <1>1, <2>1 DEF SInv, Ready, MasterIsOpen, Typed
<1>3. conn'[i] = NoClient /\ \A fd \in Descriptor \ {i} : conn'[fd] = conn[fd]
  BY <1>1 DEF SInv, Typed
<1>4. Typed'
  BY <1>1 DEF SInv, Typed
<1>5. OnePlace'
  <2>1. \A fd, fe \in Descriptor : conn'[fd] = conn'[fe] /\ conn'[fd] # NoClient => fd = fe
    BY <1>3 DEF SInv, OnePlace
  <2>2. \A k \in DOMAIN backlog : backlog[k] \in Client
    BY DEF SInv, Typed
  <2>3. \A k \in DOMAIN backlog', fd \in Descriptor : conn'[fd] # backlog'[k]
    BY <1>1, <1>3, <2>2, NoneAssumption DEF SInv, OnePlace
  <2>4. \A o \in Client : Held(o)' => Held(o)
    BY <1>1, <1>3, NoneAssumption DEF Held
  <2>5. \A o \in Client \ {c} : Held(o) => Held(o)'
    BY <1>1, <1>3 DEF Held
  <2>6. \A o \in Client : (pc'[o] = "idle" => ~Held(o)') /\ (up' /\ Going(o)' => Held(o)')
    BY <1>1, <1>2, <2>4, <2>5 DEF SInv, OnePlace, Going, Gone
  <2> QED
    BY <1>1, <2>1, <2>3, <2>6 DEF SInv, OnePlace
<1>6. MasterIsOpen'
  BY <1>1, <1>3 DEF SInv, MasterIsOpen
<1>7. PassIsTrue'
  <2>1. \A fd \in read_fds' \ {listener} : fd \in Descriptor \ {i}
    BY <1>1 DEF SInv, PassIsTrue, MasterIsOpen
  <2>2. \A fd \in read_fds' \ {listener} : Ready(fd)'
    BY <1>1, <1>3, <2>1 DEF SInv, PassIsTrue, Ready, Gone
  <2> QED
    BY <1>1, <2>2 DEF SInv, PassIsTrue
<1>8. Ended' /\ EndOnlyWithServer'
  BY <1>1 DEF SInv, Ended, EndOnlyWithServer
<1> QED
  BY <1>4, <1>5, <1>6, <1>7, <1>8 DEF SInv

LEMMA RequestSInv ==
  ASSUME SInv, NEW i \in Descriptor, Request(i)
  PROVE  SInv'
<1> DEFINE c == conn[i]
<1>1. /\ up /\ i \in read_fds /\ i # listener
      /\ request' = [request EXCEPT ![c] = NoFile] /\ UNCHANGED pc
  BY DEF Request, Serves, clientVars
<1>2. c \in Client /\ request' \in [Client -> File \cup {NoFile}]
  BY <1>1 DEF SInv, PassIsTrue, MasterIsOpen, Typed
<1>3. CASE Exit
  BY <1>1, <1>2, <1>3, ExitSInv
<1>4. CASE /\ read_fds' = read_fds \ {i}
           /\ UNCHANGED <<up, backlog, conn, newsockfd, master, fdmax>>
  <2>1. Typed' /\ OnePlace' /\ MasterIsOpen' /\ Ended' /\ EndOnlyWithServer'
    BY <1>1, <1>2, <1>4
    DEF SInv, Typed, OnePlace, MasterIsOpen, Ended, EndOnlyWithServer, Held, Going
  <2>2. ASSUME NEW fd \in read_fds', fd # listener PROVE Ready(fd)'
    <3>1. fd \in Descriptor \ {i} /\ conn[fd] \in Client /\ conn[fd] # c
      BY <1>1, <1>2, <1>4, <2>2 DEF SInv, PassIsTrue, MasterIsOpen, Typed, OnePlace
    <3>2. request'[conn[fd]] = request[conn[fd]]
      BY <1>1, <3>1 DEF SInv, Typed
    <3> QED
      BY <1>1, <1>4, <2>2, <3>2 DEF SInv, PassIsTrue, Ready, Gone
  <2>3. PassIsTrue'
    BY <1>4, <2>2 DEF SInv, PassIsTrue
  <2> QED
    BY <2>1, <2>3 DEF SInv
<1> QED
  BY <1>3, <1>4 DEF Request

(* The steps that touch bytes only.                                        *)
LEMMA SameSInv ==
  ASSUME SInv, UNCHANGED <<up, backlog, conn, newsockfd, master, fdmax, read_fds, pc, request>>
  PROVE  SInv'
BY DEF SInv, Typed, OnePlace, MasterIsOpen, PassIsTrue, Ended, EndOnlyWithServer,
       Held, Going, Ready, Gone

LEMMA StepNamed == SInv /\ Named /\ [Next]_vars => Named'
<1> SUFFICES ASSUME SInv, Named, [Next]_vars PROVE Named'
  OBVIOUS
<1> USE DEF SInv, Typed, Named
<1>1. ASSUME NEW c \in Client, NEW f \in File, Connect(c, f) PROVE Named'
  BY <1>1 DEF Connect
<1>2. ASSUME NEW c \in Client, Ask(c) PROVE Named'
  BY <1>2 DEF Ask
<1>3. ASSUME NEW c \in Client, ReadHeader(c) PROVE Named'
  BY <1>3 DEF ReadHeader
<1>4. ASSUME NEW c \in Client, Read(c) PROVE Named'
  <2>1. pc[c] = "reading" /\ name' = name /\ \A o \in Client \ {c} : pc'[o] = pc[o]
    BY <1>4 DEF Read
  <2> QED
    BY <2>1
<1>5. ASSUME NEW c \in Client, EndOfFile(c) PROVE Named'
  BY <1>5 DEF EndOfFile
<1>6. ASSUME NEW c \in Client, Kill(c) PROVE Named'
  BY <1>6 DEF Kill
<1>7. CASE UNCHANGED <<pc, name>>
  BY <1>7
<1>8. CASE \/ Select \/ Accept \/ SendChunk \/ BrokenPipe
           \/ \E i \in Descriptor : HangUp(i) \/ ReadFails(i) \/ Request(i)
  BY <1>7, <1>8 DEF Select, Accept, SendChunk, BrokenPipe, HangUp, ReadFails, Request, clientVars
<1>9. CASE UNCHANGED vars
  BY <1>7, <1>9 DEF vars, clientVars
<1> QED
  BY <1>1, <1>2, <1>3, <1>4, <1>5, <1>6, <1>8, <1>9 DEF Next

LEMMA StepSInv == SInv /\ Named /\ [Next]_vars => SInv'
<1> SUFFICES ASSUME SInv, Named, [Next]_vars PROVE SInv'
  OBVIOUS
<1>1. /\ request \in [Client -> File \cup {NoFile}]
      /\ \A c \in Client : up /\ Going(c) => Held(c)
  BY DEF SInv, Typed, OnePlace
<1>2. ASSUME NEW c \in Client, NEW f \in File, Connect(c, f) PROVE SInv'
  BY <1>2, ConnectSInv
<1>3. ASSUME NEW c \in Client, Ask(c) PROVE SInv'
  <2>1. Going(c) /\ UNCHANGED serverVars
    BY <1>3 DEF Ask, Going
  <2>2. CASE /\ pc' = [pc EXCEPT ![c] = "header"]
             /\ request' = IF Held(c) THEN [request EXCEPT ![c] = name[c]] ELSE request
    <3>1. name[c] \in File /\ name[c] # NoFile
      BY <1>3, NoneAssumption DEF Named, Ask
    <3>2. /\ request' \in [Client -> File \cup {NoFile}]
          /\ \A o \in Client : request[o] # NoFile => request'[o] # NoFile
      BY <1>1, <2>2, <3>1
    <3> QED
      BY <2>1, <2>2, <3>2, ClientStep
  <2>3. CASE pc' = [pc EXCEPT ![c] = "crashed"] /\ UNCHANGED request
    BY <1>1, <2>1, <2>3, ClientStep
  <2> QED
    BY <1>3, <2>2, <2>3 DEF Ask
<1>4. ASSUME NEW c \in Client, ReadHeader(c) PROVE SInv'
  BY <1>1, <1>4, ClientStep DEF ReadHeader, Going
<1>5. ASSUME NEW c \in Client, Read(c) PROVE SInv'
  <2>1. pc' = [pc EXCEPT ![c] = "crashed"] \/ pc' = [pc EXCEPT ![c] = "reading"]
    BY <1>5 DEF Read
  <2> QED
    BY <1>1, <1>5, <2>1, ClientStep DEF Read, Going
<1>6. ASSUME NEW c \in Client, EndOfFile(c) PROVE SInv'
  BY <1>1, <1>6, ClientStep DEF EndOfFile, Going
<1>7. ASSUME NEW c \in Client, Kill(c) PROVE SInv'
  BY <1>1, <1>7, ClientStep DEF Kill, Going
<1>8. CASE Select
  BY <1>8, SelectSInv
<1>9. CASE Accept
  BY <1>9, AcceptSInv
<1>10. ASSUME NEW i \in Descriptor, HangUp(i) PROVE SInv'
  BY <1>10, HangUpSInv
<1>11. ASSUME NEW i \in Descriptor, ReadFails(i) PROVE SInv'
  BY <1>1, <1>11, ExitSInv DEF ReadFails, clientVars
<1>12. ASSUME NEW i \in Descriptor, Request(i) PROVE SInv'
  BY <1>12, RequestSInv
<1>13. CASE SendChunk
  BY <1>13, SameSInv DEF SendChunk, clientVars
<1>14. CASE BrokenPipe
  BY <1>1, <1>14, ExitSInv DEF BrokenPipe, clientVars
<1>15. CASE UNCHANGED vars
  BY <1>15, SameSInv DEF vars, serverVars, clientVars
<1> QED
  BY <1>2, <1>3, <1>4, <1>5, <1>6, <1>7, <1>8, <1>9, <1>10, <1>11, <1>12, <1>13,
     <1>14, <1>15 DEF Next
-----------------------------------------------------------------------------
LEMMA SInvAlways == Spec => []SInv
<1>1. Init => Named
  BY DEF Init, Named
<1> QED
  BY <1>1, InitSInv, StepNamed, StepSInv, PTL DEF Spec

(* select is asked about exactly the open sockets, none of them beyond     *)
(* fdmax, through every accept, hang-up and reuse of a descriptor.         *)
THEOREM SetsAreSockets == Spec => []MasterIsOpen
<1>1. SInv => MasterIsOpen
  BY DEF SInv
<1> QED
  BY <1>1, SInvAlways, PTL

(* A client sees the end of a file only from a server that has ended: the  *)
(* loop closes no connection of a client that still reads.                 *)
THEOREM NoDownloadEnds == Spec => []EndOnlyWithServer
<1>1. SInv => EndOnlyWithServer
  BY DEF SInv
<1> QED
  BY <1>1, SInvAlways, PTL
-----------------------------------------------------------------------------
(* The bytes.  A sequence is its first n elements and the rest.            *)
LEMMA Cut ==
  ASSUME NEW S, NEW s \in Seq(S), NEW k \in 0..Len(s)
  PROVE  /\ SubSeq(s, 1, k) \in Seq(S) /\ SubSeq(s, k + 1, Len(s)) \in Seq(S)
         /\ Len(SubSeq(s, 1, k)) = k /\ Len(SubSeq(s, k + 1, Len(s))) = Len(s) - k
         /\ SubSeq(s, 1, k) \o SubSeq(s, k + 1, Len(s)) = s
<1>1. Len(s) \in Nat /\ \A i \in 1..Len(s) : s[i] \in S
  BY LenProperties
<1>2. SubSeq(s, 1, k) \in Seq(S) /\ Len(SubSeq(s, 1, k)) = k
  BY <1>1, SubSeqProperties
<1>3. SubSeq(s, k + 1, Len(s)) \in Seq(S) /\ Len(SubSeq(s, k + 1, Len(s))) = Len(s) - k
  BY <1>1, SubSeqProperties
<1>4. SubSeq(s, 1, k) \o SubSeq(s, k + 1, Len(s)) = SubSeq(s, 1, Len(s))
  <2>1. 1 \in 1..(Len(s) + 1) /\ k \in (1 - 1)..Len(s) /\ Len(s) \in k..Len(s)
    BY <1>1
  <2> QED
    BY <2>1, ConcatAdjacentSubSeq
<1> QED
  BY <1>2, <1>3, <1>4, SubSeqFull

(* The replies to a sequence s of requesters, nm the names they asked for, *)
(* one after the other.                                                    *)
Joined(s, nm) ==
  LET upto[k \in 0..Len(s)] ==
        IF k = 0 THEN <<>> ELSE upto[k - 1] \o Reply(nm[s[k]])
  IN  upto[Len(s)]

Joins(u, m, s, nm) ==
  u = [k \in 0..m |-> IF k = 0 THEN <<>> ELSE u[k - 1] \o Reply(nm[s[k]])]

LEMMA JoinsExists ==
  ASSUME NEW m \in Nat, NEW s, NEW nm
  PROVE  \E u : Joins(u, m, s, nm)
<1> DEFINE Bad == {j \in Nat : ~\E u : Joins(u, j, s, nm)}
<1>1. SUFFICES ASSUME Bad # {} PROVE FALSE
  OBVIOUS
<1>2. PICK j \in Bad : \A i \in Bad : j <= i
  BY <1>1, LeastNat
<1>3. j # 0
  <2> DEFINE u == [k \in 0..0 |-> <<>>]
  <2>1. \A k \in 0..0 : k = 0
    OBVIOUS
  <2>2. Joins(u, 0, s, nm)
    BY <2>1 DEF Joins
  <2> QED
    BY <2>2
<1>4. j - 1 \in Nat /\ ~(j <= j - 1)
  BY <1>3
<1>5. PICK u : Joins(u, j - 1, s, nm)
  BY <1>2, <1>4
<1> DEFINE v == [k \in 0..j |-> IF k = j THEN u[j - 1] \o Reply(nm[s[j]]) ELSE u[k]]
<1>6. \A k \in 0..(j - 1) : u[k] = IF k = 0 THEN <<>> ELSE u[k - 1] \o Reply(nm[s[k]])
  BY <1>5 DEF Joins
<1>7. \A k \in 0..j : v[k] = IF k = 0 THEN <<>> ELSE v[k - 1] \o Reply(nm[s[k]])
  <2> SUFFICES ASSUME NEW k \in 0..j
               PROVE  v[k] = IF k = 0 THEN <<>> ELSE v[k - 1] \o Reply(nm[s[k]])
    OBVIOUS
  <2>1. CASE k = j
    <3>1. k - 1 \in 0..j /\ k - 1 # j /\ k # 0
      BY <1>3, <2>1
    <3> QED
      BY <2>1, <3>1
  <2>2. CASE k # j
    <3>1. k \in 0..(j - 1) /\ (k # 0 => k - 1 \in 0..j /\ k - 1 # j)
      BY <2>2
    <3> QED
      BY <1>6, <2>2, <3>1
  <2> QED
    BY <2>1, <2>2
<1>8. v = [k \in 0..j |-> v[k]]
  OBVIOUS
<1> HIDE DEF v
<1>9. Joins(v, j, s, nm)
  BY <1>7, <1>8 DEF Joins
<1> QED
  BY <1>2, <1>9

(* What is joined first does not depend on what comes after it.            *)
LEMMA JoinsAgree ==
  ASSUME NEW m \in Nat, NEW s, NEW nm, NEW u, Joins(u, m, s, nm),
         NEW l \in Nat, l >= m, NEW t, NEW mm, NEW v, Joins(v, l, t, mm),
         \A k \in 1..m : nm[s[k]] = mm[t[k]]
  PROVE  \A k \in 0..m : u[k] = v[k]
<1> DEFINE Bad == {k \in 0..m : u[k] # v[k]}
<1>1. SUFFICES ASSUME Bad # {} PROVE FALSE
  OBVIOUS
<1>2. PICK k \in Bad : \A i \in Bad : k <= i
  <2>1. Bad \in SUBSET Nat
    OBVIOUS
  <2> QED
    BY <1>1, <2>1, LeastNat
<1>3. k \in 0..m /\ k \in 0..l /\ u[k] # v[k]
  OBVIOUS
<1>4. /\ u[k] = IF k = 0 THEN <<>> ELSE u[k - 1] \o Reply(nm[s[k]])
      /\ v[k] = IF k = 0 THEN <<>> ELSE v[k - 1] \o Reply(mm[t[k]])
  BY <1>3 DEF Joins
<1>5. k # 0
  BY <1>3, <1>4
<1>6. k - 1 \in 0..m /\ ~(k <= k - 1) /\ k \in 1..m
  BY <1>3, <1>5
<1>7. u[k - 1] = v[k - 1]
  BY <1>2, <1>6
<1>8. nm[s[k]] = mm[t[k]]
  BY <1>6
<1> QED
  BY <1>3, <1>4, <1>5, <1>7, <1>8

LEMMA JoinedIs ==
  ASSUME NEW s, Len(s) \in Nat, NEW nm
  PROVE  \E u : Joins(u, Len(s), s, nm) /\ Joined(s, nm) = u[Len(s)]
<1> DEFINE J == CHOOSE u : Joins(u, Len(s), s, nm)
<1>1. Joined(s, nm) = J[Len(s)]
  BY DEF Joined, Joins
<1>2. Joins(J, Len(s), s, nm)
  BY JoinsExists
<1> QED
  BY <1>1, <1>2

LEMMA JoinedEmpty ==
  ASSUME NEW nm
  PROVE  Joined(<<>>, nm) = <<>>
<1>1. Len(<<>>) = 0 /\ 0 \in 0..0
  OBVIOUS
<1>2. PICK u : Joins(u, 0, <<>>, nm) /\ Joined(<<>>, nm) = u[0]
  BY <1>1, JoinedIs
<1> QED
  BY <1>1, <1>2 DEF Joins

LEMMA JoinedAppend ==
  ASSUME NEW s \in Seq(Client), NEW c \in Client, NEW nm
  PROVE  Joined(Append(s, c), nm) = Joined(s, nm) \o Reply(nm[c])
<1>1. PICK m \in Nat : m = Len(s)
  OBVIOUS
<1>2. PICK t : t = Append(s, c)
  OBVIOUS
<1>3. Len(t) = m + 1 /\ t[m + 1] = c /\ \A k \in 1..m : t[k] = s[k]
  BY <1>1, <1>2, AppendProperties
<1>4. PICK u : Joins(u, m, s, nm) /\ Joined(s, nm) = u[m]
  BY <1>1, JoinedIs
<1>5. PICK v : Joins(v, m + 1, t, nm) /\ Joined(t, nm) = v[m + 1]
  BY <1>3, JoinedIs
<1>6. u[m] = v[m]
  <2>1. m + 1 \in Nat /\ m + 1 >= m /\ m \in 0..m /\ \A k \in 1..m : nm[s[k]] = nm[t[k]]
    BY <1>3
  <2>2. \A k \in 0..m : u[k] = v[k]
    BY <1>4, <1>5, <2>1, JoinsAgree
  <2> QED
    BY <2>1, <2>2
<1>7. v[m + 1] = v[m] \o Reply(nm[c])
  <2>1. m + 1 \in 0..(m + 1) /\ m + 1 # 0 /\ (m + 1) - 1 = m
    OBVIOUS
  <2>2. v[m + 1] = v[(m + 1) - 1] \o Reply(nm[t[m + 1]])
    BY <1>5, <2>1 DEF Joins
  <2> QED
    BY <1>3, <2>1, <2>2
<1> QED
  BY <1>2, <1>4, <1>5, <1>6, <1>7

LEMMA JoinedSame ==
  ASSUME NEW s \in Seq(Client), NEW nm, NEW mm, \A k \in DOMAIN s : nm[s[k]] = mm[s[k]]
  PROVE  Joined(s, nm) = Joined(s, mm)
<1>1. PICK m \in Nat : m = Len(s) /\ DOMAIN s = 1..m
  BY LenProperties
<1>2. PICK u : Joins(u, m, s, nm) /\ Joined(s, nm) = u[m]
  BY <1>1, JoinedIs
<1>3. PICK v : Joins(v, m, s, mm) /\ Joined(s, mm) = v[m]
  BY <1>1, JoinedIs
<1>4. \A k \in 0..m : u[k] = v[k]
  BY <1>1, <1>2, <1>3, JoinsAgree
<1> QED
  BY <1>2, <1>3, <1>4

LEMMA AllRepliesAre ==
  ASSUME NEW c
  PROVE  AllReplies(c) = Joined(replies[c], name) /\ AllReplies(c)' = Joined(replies'[c], name')
BY DEF AllReplies, Joined
-----------------------------------------------------------------------------
Bytes ==
  /\ Len(backlog) <= Backlog
  /\ sending \in Seq(Nat)
  /\ stream \in [Client -> Seq(Nat)] /\ \A c \in Client : Len(stream[c]) <= Window
  /\ got \in [Client -> Seq(Nat)]
  /\ hdr \in [Client -> 0..Buffer]
  /\ order \in Seq(Client)
  /\ replies \in [Client -> Seq(Client)]

(* A reply is written to a connection: accept has returned its descriptor, *)
(* and nothing closes it before the last write.                            *)
SendingTo ==
  /\ newsockfd = listener => \A fd \in Descriptor : conn[fd] = NoClient
  /\ sending # <<>> => up /\ newsockfd \in Descriptor /\ conn[newsockfd] \in Client

(* A request is for the name of its client, which keeps it, and so is the  *)
(* answer.                                                                 *)
Asked ==
  /\ \A c \in Client : request[c] # NoFile => pc[c] # "idle" /\ request[c] = name[c]
  /\ \A c \in Client : \A k \in DOMAIN replies[c] :
       pc[replies[c][k]] # "idle" /\ name[replies[c][k]] \in DOMAIN Content

(* What the reply being written still owes to c.                           *)
Due(c) == IF sending # <<>> /\ conn[newsockfd] = c THEN sending ELSE <<>>

Whole(c) == up /\ ~Gone(c) => got[c] \o stream[c] \o Due(c) = AllReplies(c)

WInv == SInv /\ Named /\ Bytes /\ SendingTo /\ Asked /\ WholeReplies

LEMMA Associative ==
  ASSUME NEW s \in Seq(Nat), NEW t \in Seq(Nat), NEW u \in Seq(Nat)
  PROVE  (s \o t) \o u = s \o (t \o u)
<1> DEFINE cat(a, b) == a \o b
<1>1. \A S : \A a, b, c \in Seq(S) : cat(cat(a, b), c) = cat(a, cat(b, c))
  BY ConcatAssociative, Zenon
<1> HIDE DEF cat
<1>2. cat(cat(s, t), u) = cat(s, cat(t, u))
  BY <1>1
<1> QED
  BY <1>2 DEF cat

LEMMA ReplyType ==
  ASSUME NEW f \in DOMAIN Content
  PROVE  Reply(f) \in Seq(Nat)
<1>1. PICK kept \in Seq(Nat) : kept = Content[f]
  BY ContentAssumption
<1>2. Len(Content[f]) \in Nat
  BY <1>1, LenProperties
<1>3. <<Len(Content[f])>> \in Seq(Nat)
  BY <1>2
<1>4. [k \in 1..(Buffer - 1) |-> 0] \in Seq(Nat)
  <2>1. Buffer - 1 \in Nat
    BY SizeAssumption
  <2> QED
    BY <2>1, IsASeq
<1>5. <<Len(Content[f])>> \o [k \in 1..(Buffer - 1) |-> 0] \in Seq(Nat)
  BY <1>3, <1>4, ConcatProperties
<1>6. Given[f] \in Seq(Nat)
  <2>1. PICK k \in 0..Len(kept) : Given[f] = SubSeq(kept, 1, k)
    BY <1>1, ContentAssumption
  <2>2. Len(kept) \in Nat /\ 1 \in 1..(Len(kept) + 1) /\ k \in Nat
    BY LenProperties
  <2> QED
    BY <2>1, <2>2, SubSeqProperties
<1> QED
  BY <1>5, <1>6, ConcatProperties DEF Reply

LEMMA WholeIs == WholeReplies <=> \A c \in Client : Whole(c)
BY DEF WholeReplies, Whole, Due

LEMMA WholeIsPrime == WholeReplies' <=> \A c \in Client : Whole(c)'
BY DEF WholeReplies, Whole, Due

(* One write takes a part of what is left, of at most Buffer bytes.        *)
LEMMA Chunk ==
  ASSUME Bytes, sending # <<>>
  PROVE  /\ Min({Buffer, Len(sending)}) \in 1..Len(sending)
         /\ Min({Buffer, Len(sending)}) <= Buffer
<1>1. Len(sending) \in Nat \ {0} /\ Buffer \in Nat \ {0}
  BY EmptySeq, SizeAssumption DEF Bytes
<1>2. PICK S : S = {Buffer, Len(sending)}
  OBVIOUS
<1>3. S \in SUBSET Nat /\ S # {}
  BY <1>1, <1>2
<1>4. PICK x \in S : \A y \in S : x <= y
  BY <1>3, LeastNat
<1>5. Min(S) \in S /\ \A y \in S : Min(S) <= y
  BY <1>4 DEF Min
<1> QED
  BY <1>1, <1>2, <1>5

(* A read of the client: bytes move, and none is lost.                     *)
LEMMA ConsumeBytes ==
  ASSUME Bytes, NEW c \in Client, NEW k \in 1..Buffer, Consume(c, k)
  PROVE  /\ got' \in [Client -> Seq(Nat)] /\ stream' \in [Client -> Seq(Nat)]
         /\ \A o \in Client : Len(stream'[o]) <= Window
         /\ \A o \in Client : got'[o] \o stream'[o] = got[o] \o stream[o]
<1>1. PICK s : s = stream[c]
  OBVIOUS
<1>2. PICK g : g = got[c]
  OBVIOUS
<1>3. s \in Seq(Nat) /\ g \in Seq(Nat) /\ Len(s) <= Window /\ Len(s) \in Nat /\ Window \in Nat
  BY <1>1, <1>2, LenProperties, SizeAssumption DEF Bytes
<1>4. k \in 0..Len(s)
  BY <1>1, <1>3, SizeAssumption DEF Consume
<1>5. PICK a, b \in Seq(Nat) : /\ a = SubSeq(s, 1, k) /\ b = SubSeq(s, k + 1, Len(s))
                              /\ Len(b) = Len(s) - k /\ a \o b = s
  <2>1. /\ SubSeq(s, 1, k) \in Seq(Nat) /\ SubSeq(s, k + 1, Len(s)) \in Seq(Nat)
        /\ Len(SubSeq(s, k + 1, Len(s))) = Len(s) - k
        /\ SubSeq(s, 1, k) \o SubSeq(s, k + 1, Len(s)) = s
    BY <1>3, <1>4, Cut
  <2> QED
    BY <2>1
<1>6. got' = [got EXCEPT ![c] = g \o a] /\ stream' = [stream EXCEPT ![c] = b]
  BY <1>1, <1>2, <1>5 DEF Consume
<1>7. g \o a \in Seq(Nat)
  BY <1>3, <1>5, ConcatProperties
<1>8. (g \o a) \o b = g \o s
  <2>1. (g \o a) \o b = g \o (a \o b)
    BY <1>3, Associative
  <2> QED
    BY <1>5, <2>1
<1>9. Len(b) <= Window
  BY <1>3, <1>4, <1>5
<1>10. /\ got'[c] = g \o a /\ stream'[c] = b
       /\ \A o \in Client \ {c} : got'[o] = got[o] /\ stream'[o] = stream[o]
  BY <1>6 DEF Bytes
<1> QED
  BY <1>1, <1>2, <1>5, <1>6, <1>7, <1>8, <1>9, <1>10 DEF Bytes
-----------------------------------------------------------------------------
LEMMA InitWInv == Init => WInv
<1> SUFFICES ASSUME Init PROVE WInv
  OBVIOUS
<1>1. SInv /\ Named
  BY InitSInv DEF Init, Named
<1>2. <<>> \in Seq(Nat) /\ <<>> \in Seq(Client) /\ Len(<<>>) = 0
  BY EmptySeq
<1>3. Bytes
  <2>1. 0 \in 0..Buffer /\ 0 <= Backlog /\ 0 <= Window
    BY SizeAssumption
  <2> QED
    BY <1>2, <2>1 DEF Init, Bytes
<1>4. SendingTo /\ Asked
  BY DEF Init, SendingTo, Asked
<1>5. ASSUME NEW c \in Client PROVE Whole(c)
  <2>1. got[c] = <<>> /\ stream[c] = <<>> /\ Due(c) = <<>> /\ replies[c] = <<>>
    BY DEF Init, Due
  <2>2. AllReplies(c) = <<>>
    BY <2>1, AllRepliesAre, JoinedEmpty
  <2>3. <<>> \o <<>> = <<>> /\ (<<>> \o <<>>) \o <<>> = <<>>
    BY <1>2, ConcatEmptySeq
  <2> QED
    BY <2>1, <2>2, <2>3 DEF Whole
<1> QED
  BY <1>1, <1>3, <1>4, <1>5, WholeIs DEF WInv

(* What was sent to a client and is still owed to it is kept, and so are   *)
(* the replies it counts for.                                              *)
LEMMA WholeKept ==
  ASSUME WInv, NEW c \in Client, up' => up, Gone(c) => Gone(c)',
         got'[c] \o stream'[c] = got[c] \o stream[c], Due(c)' = Due(c),
         replies'[c] = replies[c],
         \A o \in Client : pc[o] # "idle" => name'[o] = name[o]
  PROVE  Whole(c)'
<1>1. replies[c] \in Seq(Client)
  BY DEF WInv, Bytes
<1>2. \A k \in DOMAIN replies[c] : name[replies[c][k]] = name'[replies[c][k]]
  BY <1>1, LenProperties DEF WInv, Asked
<1>3. AllReplies(c)' = AllReplies(c)
  <2>1. PICK nm, mm, r : nm = name /\ mm = name' /\ r = replies[c]
    OBVIOUS
  <2>2. Joined(r, nm) = Joined(r, mm)
    BY <1>1, <1>2, <2>1, JoinedSame
  <2>3. AllReplies(c) = Joined(r, nm) /\ AllReplies(c)' = Joined(r, mm)
    BY <2>1, AllRepliesAre
  <2> QED
    BY <2>2, <2>3
<1>4. Whole(c)
  BY WholeIs DEF WInv
<1>5. (got'[c] \o stream'[c]) \o Due(c)' = (got[c] \o stream[c]) \o Due(c)
  OBVIOUS
<1> QED
  BY <1>3, <1>4, <1>5 DEF Whole

(* A step of a client that has connected: it reads, or its pc goes on.     *)
LEMMA ClientWInv ==
  ASSUME WInv, SInv', Named', NEW c \in Client, Going(c),
         NEW v \in {"header", "reading", "done", "crashed", "killed"},
         pc' = [pc EXCEPT ![c] = v], UNCHANGED <<serverVars, name, order, replies>>,
         hdr' \in [Client -> 0..Buffer],
         \A o \in Client : request'[o] = request[o] \/ (o = c /\ request'[o] = name[o]),
         \/ UNCHANGED <<got, stream>>
         \/ \E k \in 1..Buffer : Consume(c, k)
  PROVE  WInv'
<1>1. /\ pc'[c] = v /\ \A o \in Client \ {c} : pc'[o] = pc[o]
      /\ pc[c] # "idle"
  BY DEF WInv, SInv, Typed, Going
<1>2. /\ up' = up /\ backlog' = backlog /\ conn' = conn /\ newsockfd' = newsockfd
      /\ sending' = sending /\ name' = name /\ replies' = replies /\ order' = order
  BY DEF serverVars
<1>3. /\ got' \in [Client -> Seq(Nat)] /\ stream' \in [Client -> Seq(Nat)]
      /\ \A o \in Client : Len(stream'[o]) <= Window
      /\ \A o \in Client : got'[o] \o stream'[o] = got[o] \o stream[o]
  <2>1. CASE UNCHANGED <<got, stream>>
    BY <2>1 DEF WInv, Bytes
  <2>2. CASE \E k \in 1..Buffer : Consume(c, k)
    BY <2>2, ConsumeBytes DEF WInv
  <2> QED
    BY <2>1, <2>2
<1>4. Bytes'
  BY <1>2, <1>3 DEF WInv, Bytes
<1>5. SendingTo'
  BY <1>2 DEF WInv, SendingTo
<1>6. Asked'
  <2>1. \A o \in Client : pc[o] # "idle" => pc'[o] # "idle"
    BY <1>1
  <2>2. ASSUME NEW o \in Client, request'[o] # NoFile
        PROVE  pc'[o] # "idle" /\ request'[o] = name'[o]
    <3>1. CASE request'[o] = request[o]
      BY <1>2, <2>1, <2>2, <3>1 DEF WInv, Asked
    <3>2. CASE o = c /\ request'[o] = name[o]
      BY <1>1, <1>2, <2>1, <3>2
    <3> QED
      BY <3>1, <3>2
  <2>3. ASSUME NEW o \in Client, NEW k \in DOMAIN replies[o]
        PROVE  pc'[replies[o][k]] # "idle" /\ name[replies[o][k]] \in DOMAIN Content
    <3>1. replies[o][k] \in Client
      BY LenProperties DEF WInv, Bytes
    <3> QED
      BY <2>1, <3>1 DEF WInv, Asked
  <2> QED
    BY <1>2, <2>2, <2>3 DEF Asked
<1>7. ASSUME NEW o \in Client PROVE Whole(o)'
  <2>1. Gone(o) => Gone(o)'
    BY <1>1 DEF Gone, Going
  <2>2. Due(o)' = Due(o)
    BY <1>2 DEF Due
  <2> QED
    BY <1>2, <1>3, <2>1, <2>2, WholeKept
<1> QED
  BY <1>4, <1>5, <1>6, <1>7, WholeIsPrime DEF WInv

LEMMA ConnectWInv ==
  ASSUME WInv, SInv', Named', NEW c \in Client, NEW f \in File, Connect(c, f)
  PROVE  WInv'
<1>1. /\ UNCHANGED <<up, conn, newsockfd, sending, got, hdr, request, stream, replies>>
      /\ pc[c] = "idle" /\ pc'[c] = "connected" /\ name'[c] = f
      /\ \A o \in Client \ {c} : pc'[o] = pc[o] /\ name'[o] = name[o]
  BY DEF WInv, SInv, Typed, Named, Connect
<1>2. \A o \in Client : pc[o] # "idle" => pc'[o] # "idle" /\ name'[o] = name[o]
  BY <1>1
<1>3. Bytes'
  <2>1. backlog \in Seq(Client) /\ order \in Seq(Client) /\ Backlog \in Nat
    BY SizeAssumption DEF WInv, SInv, Typed, Bytes
  <2>2. Len(backlog') = Len(backlog) + 1 /\ Len(backlog) \in Nat /\ order' \in Seq(Client)
    BY <2>1, AppendProperties, LenProperties DEF Connect
  <2>3. Len(backlog') <= Backlog
    BY <2>1, <2>2 DEF Connect
  <2> QED
    BY <1>1, <2>2, <2>3 DEF WInv, Bytes
<1>4. SendingTo'
  BY <1>1 DEF WInv, SendingTo
<1>5. Asked'
  <2>1. \A o \in Client : request[o] # NoFile => pc'[o] # "idle" /\ request[o] = name'[o]
    BY <1>2 DEF WInv, Asked
  <2>2. ASSUME NEW o \in Client, NEW k \in DOMAIN replies[o]
        PROVE  pc'[replies[o][k]] # "idle" /\ name'[replies[o][k]] \in DOMAIN Content
    <3>1. replies[o][k] \in Client
      BY LenProperties DEF WInv, Bytes
    <3> QED
      BY <1>2, <3>1 DEF WInv, Asked
  <2> QED
    BY <1>1, <2>1, <2>2 DEF Asked
<1>6. ASSUME NEW o \in Client PROVE Whole(o)'
  <2>1. Gone(o) => Gone(o)'
    BY <1>1 DEF Gone
  <2>2. Due(o)' = Due(o)
    BY <1>1 DEF Due
  <2> QED
    BY <1>1, <1>2, <2>1, <2>2, WholeKept
<1> QED
  BY <1>3, <1>4, <1>5, <1>6, WholeIsPrime DEF WInv

(* A step of the server between two replies.                               *)
LEMMA ServerWInv ==
  ASSUME WInv, SInv', Named', sending = <<>>, sending' = <<>>, up' => up,
         UNCHANGED <<clientVars, stream, replies>>,
         Len(backlog') <= Backlog,
         \A o \in Client : request'[o] \in {request[o], NoFile},
         newsockfd' = listener => \A fd \in Descriptor : conn'[fd] = NoClient
  PROVE  WInv'
<1>1. pc' = pc /\ name' = name /\ got' = got /\ hdr' = hdr /\ order' = order
  BY DEF clientVars
<1>2. Bytes'
  BY <1>1 DEF WInv, Bytes
<1>3. SendingTo'
  BY DEF SendingTo
<1>4. Asked'
  BY <1>1 DEF WInv, Asked
<1>5. ASSUME NEW o \in Client PROVE Whole(o)'
  <2>1. Gone(o) => Gone(o)'
    BY <1>1 DEF Gone
  <2>2. Due(o)' = Due(o)
    BY DEF Due
  <2> QED
    BY <1>1, <2>1, <2>2, WholeKept
<1> QED
  BY <1>2, <1>3, <1>4, <1>5, WholeIsPrime DEF WInv

(* The server ends: nothing is owed any more.                              *)
LEMMA ExitWInv ==
  ASSUME WInv, SInv', Named', Exit, UNCHANGED <<clientVars, stream, replies>>,
         \A o \in Client : request'[o] \in {request[o], NoFile}
  PROVE  WInv'
<1>1. pc' = pc /\ name' = name /\ got' = got /\ hdr' = hdr /\ order' = order
  BY DEF clientVars
<1>2. up' = FALSE /\ backlog' = <<>> /\ sending' = <<>> /\ \A fd \in Descriptor : conn'[fd] = NoClient
  BY DEF Exit
<1>3. Bytes'
  <2>1. Len(backlog') <= Backlog /\ sending' \in Seq(Nat)
    BY <1>2, EmptySeq, SizeAssumption
  <2> QED
    BY <1>1, <2>1 DEF WInv, Bytes
<1>4. SendingTo'
  BY <1>2 DEF SendingTo
<1>5. Asked'
  BY <1>1 DEF WInv, Asked
<1>6. \A o \in Client : Whole(o)'
  BY <1>2 DEF Whole
<1> QED
  BY <1>3, <1>4, <1>5, <1>6, WholeIsPrime DEF WInv

(* The reply goes to the connection accepted last, and joins what was sent *)
(* there before.                                                           *)
LEMMA RequestWInv ==
  ASSUME WInv, SInv', Named', NEW i \in Descriptor, Request(i)
  PROVE  WInv'
<1>1. PICK c \in Client : c = conn[i]
  BY DEF Request, Serves, WInv, SInv, PassIsTrue, MasterIsOpen, Typed, Ended
<1>2. /\ up /\ sending = <<>> /\ UNCHANGED <<clientVars, stream>>
      /\ request[c] # NoFile /\ request' = [request EXCEPT ![c] = NoFile]
      /\ i # listener /\ conn[i] # NoClient
  BY <1>1, NoneAssumption DEF Request, Serves
<1>3. \A o \in Client : request'[o] \in {request[o], NoFile}
  BY <1>2 DEF WInv, SInv, Typed
<1>4. Len(backlog) <= Backlog /\ newsockfd # listener
  BY <1>2 DEF WInv, Bytes, SendingTo
<1>5. CASE Exit /\ UNCHANGED replies
  BY <1>2, <1>3, <1>5, ExitWInv
<1>6. CASE UNCHANGED <<sending, replies, up, backlog, conn, newsockfd, master, fdmax>>
  BY <1>2, <1>3, <1>4, <1>6, ServerWInv
<1>7. CASE /\ request[c] \in DOMAIN Content /\ conn[newsockfd] # NoClient
           /\ sending' = Reply(request[c])
           /\ replies' = [replies EXCEPT ![conn[newsockfd]] = Append(@, c)]
           /\ UNCHANGED <<up, backlog, conn, newsockfd, master, fdmax>>
  <2>1. PICK to \in Client : to = conn[newsockfd]
    BY <1>4, <1>7 DEF WInv, SInv, Typed
  <2>2. PICK f : f = request[c] /\ f = name[c] /\ f \in DOMAIN Content /\ pc[c] # "idle"
    BY <1>2, <1>7 DEF WInv, Asked
  <2>3. PICK r \in Seq(Client) : r = replies[to]
    BY DEF WInv, Bytes
  <2>4. PICK t \in Seq(Client) : /\ t = Append(r, c) /\ Len(t) = Len(r) + 1 /\ t[Len(r) + 1] = c
                                /\ \A k \in 1..Len(r) : t[k] = r[k]
    <3>1. /\ Append(r, c) \in Seq(Client) /\ Len(Append(r, c)) = Len(r) + 1
          /\ Append(r, c)[Len(r) + 1] = c
          /\ \A k \in 1..Len(r) : Append(r, c)[k] = r[k]
      BY AppendProperties
    <3> QED
      BY <3>1, Zenon
  <2>5. /\ replies' = [replies EXCEPT ![to] = t] /\ replies' \in [Client -> Seq(Client)]
        /\ replies'[to] = t /\ \A o \in Client \ {to} : replies'[o] = replies[o]
    BY <1>7, <2>1, <2>3, <2>4 DEF WInv, Bytes
  <2>6. sending' = Reply(f) /\ sending' \in Seq(Nat)
    BY <1>7, <2>2, ReplyType
  <2>7. pc' = pc /\ name' = name /\ got' = got /\ hdr' = hdr /\ order' = order
    BY <1>2 DEF clientVars
  <2>8. Bytes'
    BY <1>2, <1>7, <2>5, <2>6, <2>7 DEF WInv, Bytes
  <2>9. SendingTo'
    BY <1>2, <1>4, <1>7, <2>1 DEF WInv, SInv, Typed, SendingTo
  <2>10. Asked'
    <3>1. ASSUME NEW o \in Client, NEW k \in DOMAIN replies'[o]
          PROVE  pc[replies'[o][k]] # "idle" /\ name[replies'[o][k]] \in DOMAIN Content
      <4>1. CASE o # to
        BY <2>5, <4>1 DEF WInv, Asked
      <4>2. CASE o = to
        <5>1. k \in 1..(Len(r) + 1) /\ DOMAIN r = 1..Len(r) /\ Len(r) \in Nat
          BY <2>4, <2>5, <4>2, LenProperties
        <5>2. CASE k = Len(r) + 1
          BY <2>2, <2>4, <2>5, <4>2, <5>2
        <5>3. CASE k # Len(r) + 1
          <6>1. k \in DOMAIN replies[to] /\ t[k] = replies[to][k]
            BY <2>3, <2>4, <5>1, <5>3
          <6> QED
            BY <2>5, <4>2, <6>1 DEF WInv, Asked
        <5> QED
          BY <5>2, <5>3
      <4> QED
        BY <4>1, <4>2
    <3>2. \A o \in Client : request'[o] # NoFile => pc[o] # "idle" /\ request'[o] = name[o]
      BY <1>3 DEF WInv, Asked
    <3> QED
      BY <2>7, <3>1, <3>2 DEF Asked
  <2>11. ASSUME NEW o \in Client, o # to PROVE Whole(o)'
    <3>1. Due(o)' = Due(o)
      BY <1>2, <1>7, <2>1, <2>11 DEF Due
    <3> QED
      BY <1>7, <2>5, <2>7, <2>11, <3>1, <1>2, WholeKept DEF Gone
  <2>12. Whole(to)'
    <3> SUFFICES ASSUME ~Gone(to)'
                 PROVE  got'[to] \o stream'[to] \o Due(to)' = AllReplies(to)'
      BY DEF Whole
    <3>1. ~Gone(to) /\ got'[to] = got[to] /\ stream'[to] = stream[to]
      BY <1>2, <2>7 DEF Gone
    <3>2. PICK nm : nm = name
      OBVIOUS
    <3>3. got[to] \o stream[to] \o <<>> = Joined(r, nm)
      <4>1. Due(to) = <<>>
        BY <1>2 DEF Due
      <4>2. Whole(to)
        BY WholeIs DEF WInv
      <4> QED
        BY <1>2, <2>3, <3>1, <3>2, <4>1, <4>2, AllRepliesAre DEF Whole
    <3>4. got[to] \o stream[to] = Joined(r, nm)
      <4>1. PICK b \in Seq(Nat) : b = got[to] \o stream[to]
        BY ConcatProperties DEF WInv, Bytes
      <4>2. b \o <<>> = b
        BY ConcatEmptySeq
      <4> QED
        BY <3>3, <4>1, <4>2
    <3>5. Due(to)' = Reply(f)
      BY <1>7, <2>1, <2>6 DEF Due
    <3>6. AllReplies(to)' = Joined(t, nm)
      BY <2>5, <2>7, <3>2, AllRepliesAre
    <3>7. Joined(t, nm) = Joined(r, nm) \o Reply(f)
      BY <2>2, <2>4, <3>2, JoinedAppend
    <3> QED
      BY <3>1, <3>4, <3>5, <3>6, <3>7
  <2> QED
    BY <2>8, <2>9, <2>10, <2>11, <2>12, WholeIsPrime DEF WInv
<1>8. \/ Exit /\ UNCHANGED replies
      \/ /\ request[c] \in DOMAIN Content
         /\ IF conn[newsockfd] = NoClient
            THEN UNCHANGED <<sending, replies>>
            ELSE /\ sending' = Reply(request[c])
                 /\ replies' = [replies EXCEPT ![conn[newsockfd]] = Append(@, c)]
         /\ UNCHANGED <<up, backlog, conn, newsockfd, master, fdmax>>
  BY <1>1 DEF Request
<1> QED
  BY <1>5, <1>6, <1>7, <1>8

(* A write moves bytes from the reply to the stream, in their order.       *)
LEMMA SendChunkWInv ==
  ASSUME WInv, SInv', Named', SendChunk
  PROVE  WInv'
<1>1. PICK to \in Client : to = conn[newsockfd] /\ newsockfd \in Descriptor
  BY DEF SendChunk, WInv, SendingTo
<1>2. PICK k \in 1..Len(sending) : k = Min({Buffer, Len(sending)})
  BY Chunk DEF SendChunk, WInv
<1>3. PICK s \in Seq(Nat) : s = sending /\ s # <<>> /\ Len(s) \in Nat
  BY LenProperties DEF SendChunk, WInv, Bytes
<1>4. k \in 0..Len(s)
  BY <1>2, <1>3
<1>5. PICK a, b \in Seq(Nat) : /\ a = SubSeq(s, 1, k) /\ b = SubSeq(s, k + 1, Len(s))
                              /\ Len(a) = k /\ a \o b = s
  <2>1. /\ SubSeq(s, 1, k) \in Seq(Nat) /\ SubSeq(s, k + 1, Len(s)) \in Seq(Nat)
        /\ Len(SubSeq(s, 1, k)) = k /\ SubSeq(s, 1, k) \o SubSeq(s, k + 1, Len(s)) = s
    BY <1>4, Cut
  <2> QED
    BY <2>1
<1>6. /\ Room(to, k) /\ sending' = b
      /\ stream' = IF Gone(to) THEN stream ELSE [stream EXCEPT ![to] = @ \o a]
      /\ UNCHANGED <<up, backlog, conn, newsockfd, clientVars, request, replies>>
  BY <1>1, <1>2, <1>3, <1>5 DEF SendChunk, Rest
<1>7. pc' = pc /\ name' = name /\ got' = got /\ hdr' = hdr /\ order' = order
  BY <1>6 DEF clientVars
<1>8. PICK old, g \in Seq(Nat) : old = stream[to] /\ g = got[to]
  BY DEF WInv, Bytes
<1>9. old \o a \in Seq(Nat) /\ Len(old \o a) = Len(old) + k
  BY <1>5, ConcatProperties
<1>10. /\ stream' \in [Client -> Seq(Nat)]
       /\ \A o \in Client \ {to} : stream'[o] = stream[o]
       /\ Gone(to) => stream'[to] = old
       /\ ~Gone(to) => stream'[to] = old \o a
  BY <1>6, <1>8, <1>9 DEF WInv, Bytes
<1>11. Bytes'
  <2>1. Len(stream'[to]) <= Window
    BY <1>6, <1>8, <1>9, <1>10 DEF Room, WInv, Bytes
  <2>2. \A o \in Client : Len(stream'[o]) <= Window
    BY <1>10, <2>1 DEF WInv, Bytes
  <2> QED
    BY <1>6, <1>7, <1>10, <2>2 DEF WInv, Bytes
<1>12. SendingTo' /\ Asked'
  BY <1>1, <1>3, <1>6, <1>7 DEF WInv, SendingTo, Asked
<1>13. ASSUME NEW o \in Client, o # to PROVE Whole(o)'
  <2>1. Due(o) = <<>> /\ Due(o)' = <<>>
    BY <1>1, <1>6, <1>13 DEF Due
  <2> QED
    BY <1>6, <1>7, <1>10, <1>13, <2>1, WholeKept DEF Gone
<1>14. Whole(to)'
  <2> SUFFICES ASSUME up', ~Gone(to)'
               PROVE  got'[to] \o stream'[to] \o Due(to)' = AllReplies(to)'
    BY DEF Whole
  <2>1. ~Gone(to) /\ up /\ stream'[to] = old \o a /\ got'[to] = g
    BY <1>6, <1>7, <1>8, <1>10 DEF Gone
  <2>2. Due(to)' = b
    BY <1>1, <1>6 DEF Due
  <2>3. (g \o old) \o s = AllReplies(to)
    <3>1. Whole(to) /\ Due(to) = s
      BY <1>1, <1>3, WholeIs DEF WInv, Due
    <3> QED
      BY <1>8, <2>1, <3>1 DEF Whole
  <2>4. (g \o (old \o a)) \o b = (g \o old) \o (a \o b)
    <3>1. g \o old \in Seq(Nat)
      BY ConcatProperties
    <3>2. g \o (old \o a) = (g \o old) \o a
      BY Associative
    <3>3. PICK h \in Seq(Nat) : h = g \o old
      BY <3>1
    <3>4. (h \o a) \o b = h \o (a \o b)
      BY Associative
    <3> QED
      BY <3>2, <3>3, <3>4
  <2>5. AllReplies(to)' = AllReplies(to)
    BY <1>6, <1>7, AllRepliesAre
  <2> QED
    BY <1>5, <2>1, <2>2, <2>3, <2>4, <2>5
<1> QED
  BY <1>11, <1>12, <1>13, <1>14, WholeIsPrime DEF WInv

LEMMA StepWInv == WInv /\ [Next]_vars => WInv'
<1> SUFFICES ASSUME WInv, [Next]_vars PROVE WInv'
  OBVIOUS
<1>1. SInv' /\ Named'
  BY StepSInv, StepNamed DEF WInv
<1>2. hdr \in [Client -> 0..Buffer]
  BY DEF WInv, Bytes
<1>3. ASSUME NEW c \in Client, NEW f \in File, Connect(c, f) PROVE WInv'
  BY <1>1, <1>3, ConnectWInv
<1>4. ASSUME NEW c \in Client, Ask(c) PROVE WInv'
  <2>1. \A o \in Client : request'[o] = request[o] \/ (o = c /\ request'[o] = name[o])
    BY <1>4 DEF Ask, WInv, SInv, Typed
  <2>2. Going(c) /\ UNCHANGED <<serverVars, name, order, replies, got, hdr, stream>>
    BY <1>4 DEF Ask, Going
  <2>3. pc' = [pc EXCEPT ![c] = "header"] \/ pc' = [pc EXCEPT ![c] = "crashed"]
    BY <1>4 DEF Ask
  <2> QED
    BY <1>1, <1>2, <2>1, <2>2, <2>3, ClientWInv
<1>5. ASSUME NEW c \in Client, ReadHeader(c) PROVE WInv'
  <2>1. PICK k \in 1..Buffer : Consume(c, k) /\ hdr' = [hdr EXCEPT ![c] = k]
    BY <1>5 DEF ReadHeader
  <2>2. hdr' \in [Client -> 0..Buffer]
    BY <1>2, <2>1, SizeAssumption
  <2>3. Going(c) /\ UNCHANGED <<serverVars, name, order, replies, request>>
    BY <1>5 DEF ReadHeader, Going
  <2> QED
    BY <1>1, <1>5, <2>1, <2>2, <2>3, ClientWInv DEF ReadHeader
<1>6. ASSUME NEW c \in Client, Read(c) PROVE WInv'
  <2>1. /\ Going(c) /\ UNCHANGED <<serverVars, name, order, replies, request, hdr>>
        /\ \E k \in 1..Buffer : Consume(c, k)
    BY <1>6 DEF Read, Going
  <2>2. pc' = [pc EXCEPT ![c] = "crashed"] \/ pc' = [pc EXCEPT ![c] = "reading"]
    BY <1>6 DEF Read
  <2> QED
    BY <1>1, <1>2, <2>1, <2>2, ClientWInv
<1>7. ASSUME NEW c \in Client, EndOfFile(c) \/ Kill(c) PROVE WInv'
  <2>1. Going(c) /\ UNCHANGED <<serverVars, name, order, replies, request, hdr, got, stream>>
    BY <1>7 DEF EndOfFile, Kill, Going
  <2>2. \E v \in {"done", "crashed", "killed"} : pc' = [pc EXCEPT ![c] = v]
    BY <1>7 DEF EndOfFile, Kill
  <2> QED
    BY <1>1, <1>2, <2>1, <2>2, ClientWInv
<1>8. CASE Select
  BY <1>1, <1>8, ServerWInv DEF Select, WInv, Bytes, SendingTo
<1>9. CASE Accept
  <2>1. newsockfd' # listener
    BY <1>9, FreeDescriptor, Descriptors DEF Accept, Serves, WInv, SInv, PassIsTrue
  <2>2. Len(backlog') <= Backlog
    <3>1. backlog # <<>> /\ backlog \in Seq(Client) /\ backlog' = Tail(backlog)
      BY <1>9 DEF Accept, Serves, WInv, SInv, PassIsTrue, Typed
    <3>2. Len(backlog') = Len(backlog) - 1 /\ Len(backlog) \in Nat
      BY <3>1, HeadTailProperties, LenProperties
    <3> QED
      BY <3>2, SizeAssumption DEF WInv, Bytes
  <2> QED
    BY <1>1, <1>9, <2>1, <2>2, ServerWInv DEF Accept, Serves
<1>10. ASSUME NEW i \in Descriptor, HangUp(i) PROVE WInv'
  <2>1. newsockfd' = listener => \A fd \in Descriptor : conn'[fd] = NoClient
    BY <1>10 DEF HangUp, WInv, SInv, Typed, SendingTo
  <2> QED
    BY <1>1, <1>10, <2>1, ServerWInv DEF HangUp, Serves, WInv, Bytes
<1>11. ASSUME NEW i \in Descriptor, ReadFails(i) PROVE WInv'
  BY <1>1, <1>11, ExitWInv DEF ReadFails
<1>12. ASSUME NEW i \in Descriptor, Request(i) PROVE WInv'
  BY <1>1, <1>12, RequestWInv
<1>13. CASE SendChunk
  BY <1>1, <1>13, SendChunkWInv
<1>14. CASE BrokenPipe
  BY <1>1, <1>14, ExitWInv DEF BrokenPipe
<1>15. CASE UNCHANGED vars
  <2>1. UNCHANGED <<pc, name, request, stream, replies, up, backlog, conn, newsockfd, sending,
                    got, hdr, order>>
    BY <1>15 DEF vars, serverVars, clientVars
  <2>2. Bytes' /\ SendingTo' /\ Asked'
    BY <2>1 DEF WInv, Bytes, SendingTo, Asked
  <2>3. ASSUME NEW c \in Client PROVE Whole(c)'
    <3>1. Due(c)' = Due(c)
      BY <2>1 DEF Due
    <3> QED
      BY <2>1, <3>1, WholeKept DEF Gone
  <2> QED
    BY <1>1, <2>2, <2>3, WholeIsPrime DEF WInv
<1> QED
  BY <1>3, <1>4, <1>5, <1>6, <1>7, <1>8, <1>9, <1>10, <1>11, <1>12, <1>13,
     <1>14, <1>15 DEF Next

LEMMA WInvAlways == Spec => []WInv
BY InitWInv, StepWInv, PTL DEF Spec

(* The server's descriptors stay within those there are, the backlog and   *)
(* every connection within their bounds, through all accepts, requests and *)
(* ends of clients.                                                        *)
THEOREM TypeCorrect == Spec => []TypeOK
<1>1. WInv => TypeOK
  <2> SUFFICES ASSUME WInv PROVE TypeOK
    OBVIOUS
  <2>1. master \subseteq Descriptor \cup {listener} /\ read_fds \subseteq master
    BY DEF WInv, SInv, MasterIsOpen, Ended, PassIsTrue, Typed
  <2> QED
    BY <2>1 DEF WInv, SInv, Typed, Named, Bytes, TypeOK
<1> QED
  BY <1>1, WInvAlways, PTL

(* Whomever a reply is for, what server2.cpp has written to a client that  *)
(* is still there is whole replies, a header and a file for each request   *)
(* answered to it, up to the write that is due: however its writes fall    *)
(* between the reads, connects and ends of the clients, no byte of a reply *)
(* is lost, repeated or mixed with those of another.                       *)
THEOREM RepliesAreWhole == Spec => []WholeReplies
<1>1. WInv => WholeReplies
  BY DEF WInv
<1> QED
  BY <1>1, WInvAlways, PTL
=============================================================================
