------------------------- MODULE FileTransferProofs -------------------------
(***************************************************************************)
(* Theorems about FileTransfer, for any clients, directories and files,    *)
(* any sizes of buffers and connections: what is written into a directory  *)
(* comes from the server's file, at its place, an end of the file from a   *)
(* child that ran to its end comes after the whole file, and the files are *)
(* whole when all has come to rest.                                        *)
(***************************************************************************)
EXTENDS FileTransfer, SequenceTheorems, TLAPS

Typed ==
  /\ backlog \in Seq(Client) /\ newsockfd \in Client \cup {NoClient}
  /\ child \in [Client -> {"none", "reading", "sending", "exited", "killed"}]
  /\ pos \in [Client -> Nat]
  /\ pc \in [Client -> {"idle", "connected", "reading", "killed"}]
  /\ file \in [Client -> File \cup {NoFile}]
  /\ off \in [Client -> Nat]
  /\ request \in [Client -> File \cup {NoFile}]
  /\ stream \in [Client -> Seq(Nat)]
  /\ disk \in [Directory -> [File -> Seq(Nat)]]

(* A connection waits once, and before it has a child; a client that is    *)
(* not downloading has none.                                               *)
Places ==
  /\ \A i, j \in DOMAIN backlog : backlog[i] = backlog[j] => i = j
  /\ \A i \in DOMAIN backlog : child[backlog[i]] = "none"
  /\ \A c \in Client : pc[c] = "idle" => ~Held(c)

(* What has been written to the file and what is on the way to it are, in  *)
(* turn, the beginning of the server's file, as far as the child has read  *)
(* it; before a child has read the request there is nothing.               *)
Download(c) ==
  /\ pc[c] \in {"idle", "connected"} => stream[c] = <<>>
  /\ pc[c] = "connected" => /\ request[c] = NoFile
                            /\ child[c] \in {"none", "reading", "killed"}
  /\ pc[c] \in {"connected", "reading"} => file[c] \in File
  /\ child[c] \in {"none", "reading"} => stream[c] = <<>> /\ (pc[c] = "reading" => off[c] = 0)
  /\ pc[c] = "reading" =>
       /\ off[c] + Len(stream[c]) <= Len(Stored(file[c]))
       /\ \A i \in 1..Len(stream[c]) : stream[c][i] = Stored(file[c])[off[c] + i]
       /\ child[c] \in {"sending", "exited"} => off[c] + Len(stream[c]) = pos[c]
       /\ child[c] = "exited" => pos[c] = Len(Stored(file[c]))
  /\ pc[c] = "idle" /\ child[c] = "exited" => off[c] = Len(Stored(file[c]))

Downloads == \A c \in Client : Download(c)

FInv == Typed /\ Places /\ Downloads /\ OnlySourceBytes
-----------------------------------------------------------------------------
LEMMA StoredBytes ==
  ASSUME NEW f
  PROVE  Stored(f) \in Seq(Nat) /\ Len(Stored(f)) \in Nat
<1>1. PICK stored \in SUBSET File : Content \in [stored -> Seq(Nat)]
  BY ContentAssumption
<1>2. Stored(f) \in Seq(Nat)
  BY <1>1 DEF Stored
<1> QED
  BY <1>2

LEMMA Part ==
  ASSUME NEW s \in Seq(Nat), NEW p \in Nat, NEW t \in Nat, p <= t, t <= Len(s)
  PROVE  /\ SubSeq(s, p + 1, t) \in Seq(Nat)
         /\ Len(SubSeq(s, p + 1, t)) = t - p
         /\ \A i \in 1..(t - p) : SubSeq(s, p + 1, t)[i] = s[p + i]
<1>1. /\ p + 1 \in Int /\ t \in Int /\ t - (p + 1) + 1 = t - p
      /\ \A i \in p + 1..t : s[i] \in Nat
      /\ \A i \in 1..(t - p) : (p + 1) + i - 1 = p + i
      /\ (p + 1 <= t) \/ t - p = 0
  OBVIOUS
<1>2. /\ SubSeq(s, p + 1, t) \in Seq(Nat)
      /\ Len(SubSeq(s, p + 1, t)) = IF p + 1 <= t THEN t - (p + 1) + 1 ELSE 0
      /\ \A i \in 1..t - (p + 1) + 1 : SubSeq(s, p + 1, t)[i] = s[(p + 1) + i - 1]
  BY <1>1, SubSeqProperties
<1> QED
  BY <1>1, <1>2

(* The read of the child's loop: the next bytes of the file, and none only *)
(* at its end.                                                             *)
LEMMA ChunkBytes ==
  ASSUME NEW c \in Client, pos[c] \in Nat, pos[c] <= Len(Stored(file[c]))
  PROVE  /\ Chunk(c) \in Seq(Nat)
         /\ pos[c] + Len(Chunk(c)) <= Len(Stored(file[c]))
         /\ \A i \in 1..Len(Chunk(c)) : Chunk(c)[i] = Stored(file[c])[pos[c] + i]
         /\ Chunk(c) = <<>> => pos[c] = Len(Stored(file[c]))
<1> DEFINE s   == Stored(file[c])
           end == pos[c] + Buffer
           to  == IF end < Len(s) THEN end ELSE Len(s)
<1>1. s \in Seq(Nat) /\ Len(s) \in Nat
  BY StoredBytes
<1>2. Buffer \in Nat /\ Buffer > 0
  BY SizeAssumption
<1> HIDE DEF s
<1>3. /\ to \in Nat /\ pos[c] <= to /\ to <= Len(s)
      /\ to = pos[c] => pos[c] = Len(s)
  BY <1>1, <1>2 DEF s
<1> HIDE DEF to
<1>4. Chunk(c) = SubSeq(s, pos[c] + 1, to)
  BY DEF Chunk, s, to
<1>5. /\ SubSeq(s, pos[c] + 1, to) \in Seq(Nat)
      /\ Len(SubSeq(s, pos[c] + 1, to)) = to - pos[c]
      /\ \A i \in 1..(to - pos[c]) : SubSeq(s, pos[c] + 1, to)[i] = s[pos[c] + i]
  BY <1>1, <1>3, Part
<1>6. /\ Chunk(c) \in Seq(Nat) /\ Len(Chunk(c)) = to - pos[c]
      /\ \A i \in 1..Len(Chunk(c)) : Chunk(c)[i] = s[pos[c] + i]
  BY <1>4, <1>5
<1>7. Chunk(c) = <<>> => to = pos[c]
  BY <1>3, <1>6
<1> QED
  BY <1>1, <1>3, <1>6, <1>7 DEF s

(* A write of the file's own bytes at their place leaves it the file's.    *)
LEMMA WriteAtPlace ==
  ASSUME NEW f, NEW s \in Seq(Nat), NEW o \in Nat, NEW bytes \in Seq(Nat),
         Len(s) <= Len(Stored(f)),
         \A i \in DOMAIN s : s[i] \in {Hole, Stored(f)[i]},
         o + Len(bytes) <= Len(Stored(f)),
         \A i \in 1..Len(bytes) : bytes[i] = Stored(f)[o + i]
  PROVE  /\ WriteAt(s, o, bytes) \in Seq(Nat)
         /\ Len(WriteAt(s, o, bytes)) <= Len(Stored(f))
         /\ \A i \in DOMAIN WriteAt(s, o, bytes) :
              WriteAt(s, o, bytes)[i] \in {Hole, Stored(f)[i]}
<1> DEFINE end == o + Len(bytes)
           m   == IF end > Len(s) THEN end ELSE Len(s)
           at(i) == IF i \in o + 1..end THEN bytes[i - o]
                    ELSE IF i <= Len(s) THEN s[i] ELSE Hole
<1>1. /\ Stored(f) \in Seq(Nat) /\ Len(Stored(f)) \in Nat
      /\ Len(s) \in Nat /\ DOMAIN s = 1..Len(s) /\ Len(bytes) \in Nat /\ Hole \in Nat
  BY StoredBytes DEF Hole
<1>2. m \in Nat /\ m <= Len(Stored(f))
  BY <1>1
<1>3. ASSUME NEW i \in 1..m PROVE at(i) \in {Hole, Stored(f)[i]} /\ at(i) \in Nat
  <2>1. CASE i \in o + 1..end
    <3>1. i - o \in 1..Len(bytes) /\ o + (i - o) = i
      BY <1>1, <2>1
    <3>2. bytes[i - o] = Stored(f)[i] /\ bytes[i - o] \in Nat
      BY <3>1
    <3> QED
      BY <2>1, <3>2
  <2>2. CASE i \notin o + 1..end /\ i <= Len(s)
    <3>1. i \in DOMAIN s
      BY <1>1, <1>2, <2>2
    <3> QED
      BY <2>2, <3>1
  <2>3. CASE i \notin o + 1..end /\ ~(i <= Len(s))
    BY <1>1, <2>3
  <2> QED
    BY <2>1, <2>2, <2>3
<1>4. WriteAt(s, o, bytes) = [i \in 1..m |-> at(i)]
  BY DEF WriteAt
<1> HIDE DEF m, at
<1>5. [i \in 1..m |-> at(i)] \in Seq(Nat) /\ Len([i \in 1..m |-> at(i)]) = m
  BY <1>2, <1>3
<1> QED
  BY <1>2, <1>3, <1>4, <1>5
-----------------------------------------------------------------------------
LEMMA InitFInv == Init => FInv
<1> SUFFICES ASSUME Init PROVE FInv
  OBVIOUS
<1>1. Typed
  BY DEF Init, Typed
<1>2. Places
  BY NoneAssumption DEF Init, Places, Held, Running
<1>3. Downloads
  BY DEF Init, Downloads, Download
<1>4. OnlySourceBytes
  <2>1. ASSUME NEW f PROVE Len(Stored(f)) \in Nat
    BY StoredBytes
  <2> QED
    BY <2>1 DEF Init, OnlySourceBytes
<1> QED
  BY <1>1, <1>2, <1>3, <1>4 DEF FInv

(* A download that a step leaves alone.                                    *)
LEMMA SameDownload ==
  ASSUME NEW c \in Client, Download(c),
         pc'[c] = pc[c], child'[c] = child[c], pos'[c] = pos[c], file'[c] = file[c],
         off'[c] = off[c], request'[c] = request[c], stream'[c] = stream[c]
  PROVE  Download(c)'
BY DEF Download, Stored

(* One file of one directory is written.                                   *)
LEMMA OneFile ==
  ASSUME NEW d \in Directory, NEW f \in File, NEW w \in Seq(Nat), Typed,
         disk' = [disk EXCEPT ![d][f] = w]
  PROVE  /\ disk' \in [Directory -> [File -> Seq(Nat)]]
         /\ \A e \in Directory, g \in File :
              disk'[e][g] = IF e = d /\ g = f THEN w ELSE disk[e][g]
<1> DEFINE files == [disk[d] EXCEPT ![f] = w]
<1>1. disk \in [Directory -> [File -> Seq(Nat)]] /\ disk[d] \in [File -> Seq(Nat)]
  BY DEF Typed
<1>2. /\ files \in [File -> Seq(Nat)]
      /\ \A g \in File : files[g] = IF g = f THEN w ELSE disk[d][g]
  BY <1>1
<1>3. disk' = [disk EXCEPT ![d] = files]
  OBVIOUS
<1> HIDE DEF files
<1>4. \A e \in Directory : disk'[e] = IF e = d THEN files ELSE disk[e]
  BY <1>1, <1>3
<1> QED
  BY <1>1, <1>2, <1>3, <1>4

(* A step that does not touch the files.                                   *)
LEMMA SameDisk ==
  ASSUME OnlySourceBytes, UNCHANGED disk
  PROVE  OnlySourceBytes'
BY DEF OnlySourceBytes, Stored

(* A step that neither makes a connection nor begins or ends a child.      *)
LEMMA SamePlaces ==
  ASSUME Places, UNCHANGED <<backlog, newsockfd, child>>,
         \A c \in Client : pc'[c] = "idle" => pc[c] = "idle"
  PROVE  Places'
BY DEF Places, Held, Running
-----------------------------------------------------------------------------
LEMMA ConnectFInv ==
  ASSUME FInv, NEW c \in Client, NEW f \in File, Connect(c, f)
  PROVE  FInv'
<1> DEFINE n == Len(backlog)
<1>1. /\ backlog \in Seq(Client) /\ n \in Nat /\ DOMAIN backlog = 1..n
      /\ DOMAIN backlog' = 1..(n + 1) /\ backlog' \in Seq(Client)
      /\ backlog'[n + 1] = c /\ \A i \in 1..n : backlog'[i] = backlog[i]
  BY DEF FInv, Typed, Connect
<1> HIDE DEF n
<1>2. /\ pc[c] = "idle" /\ ~Held(c) /\ newsockfd' = newsockfd
      /\ child'[c] = "none" /\ pc'[c] = "connected" /\ file'[c] = f /\ request'[c] = NoFile
      /\ \A o \in Client \ {c} : /\ child'[o] = child[o] /\ pc'[o] = pc[o]
                                 /\ file'[o] = file[o] /\ request'[o] = request[o]
      /\ UNCHANGED <<pos, off, stream, disk>>
  BY DEF FInv, Typed, Places, Connect
<1>3. Typed'
  BY <1>1, <1>2 DEF FInv, Typed, Connect
<1>4. Places'
  <2>1. \A i \in 1..n : backlog[i] # c
    BY <1>1, <1>2 DEF Held
  <2>2. \A i, j \in DOMAIN backlog' : backlog'[i] = backlog'[j] => i = j
    BY <1>1, <2>1 DEF FInv, Places
  <2>3. \A i \in DOMAIN backlog' : child'[backlog'[i]] = "none"
    BY <1>1, <1>2, <2>1 DEF FInv, Places
  <2>4. \A o \in Client \ {c} : Held(o)' => Held(o)
    BY <1>1, <1>2 DEF Held, Running
  <2> QED
    BY <1>2, <2>2, <2>3, <2>4 DEF FInv, Places
<1>5. Downloads'
  <2>1. Download(c)'
    BY <1>2 DEF FInv, Downloads, Download
  <2>2. ASSUME NEW o \in Client \ {c} PROVE Download(o)'
    BY <1>2, SameDownload DEF FInv, Downloads
  <2> QED
    BY <2>1, <2>2 DEF Downloads
<1> QED
  BY <1>2, <1>3, <1>4, <1>5, SameDisk DEF FInv

LEMMA AskFInv ==
  ASSUME FInv, NEW c \in Client, Ask(c)
  PROVE  FInv'
<1> DEFINE dir == DirectoryOf[c]
<1>1. /\ pc[c] = "connected" /\ pc'[c] = "reading" /\ off'[c] = 0 /\ file[c] \in File
      /\ stream[c] = <<>> /\ child[c] \in {"none", "reading", "killed"}
      /\ \A o \in Client \ {c} : /\ pc'[o] = pc[o] /\ off'[o] = off[o]
                                 /\ request'[o] = request[o]
      /\ UNCHANGED <<backlog, newsockfd, child, pos, file, stream>>
  BY DEF FInv, Typed, Downloads, Download, Ask, serverVars
<1>2. disk' = disk \/ disk' = [disk EXCEPT ![dir][file[c]] = <<>>]
  BY DEF Ask, Open
<1>3. dir \in Directory /\ <<>> \in Seq(Nat)
  BY DirectoryAssumption
<1> HIDE DEF dir
<1>4. Typed'
  <2>1. request' \in [Client -> File \cup {NoFile}]
    BY <1>1 DEF FInv, Typed, Ask
  <2>2. disk' \in [Directory -> [File -> Seq(Nat)]]
    BY <1>1, <1>2, <1>3, OneFile DEF FInv, Typed
  <2> QED
    BY <1>1, <2>1, <2>2 DEF FInv, Typed, Ask
<1>5. Places'
  BY <1>1, SamePlaces DEF FInv
<1>6. Downloads'
  <2>1. Len(Stored(file[c])) \in Nat /\ Stored(file[c])' = Stored(file[c])
    BY <1>1, StoredBytes DEF Stored
  <2>2. Download(c)'
    BY <1>1, <2>1 DEF Download
  <2>3. ASSUME NEW o \in Client \ {c} PROVE Download(o)'
    BY <1>1, SameDownload DEF FInv, Downloads
  <2> QED
    BY <2>2, <2>3 DEF Downloads
<1>7. OnlySourceBytes'
  <2> SUFFICES ASSUME NEW d \in Directory, NEW f \in File
               PROVE  /\ Len(disk'[d][f]) <= Len(Stored(f))
                      /\ \A i \in DOMAIN disk'[d][f] : disk'[d][f][i] \in {Hole, Stored(f)[i]}
    BY DEF OnlySourceBytes, Stored
  <2>1. disk'[d][f] = disk[d][f] \/ disk'[d][f] = <<>>
    <3>1. ASSUME disk' = [disk EXCEPT ![dir][file[c]] = <<>>]
          PROVE  \A e \in Directory, g \in File :
                   disk'[e][g] = IF e = dir /\ g = file[c] THEN <<>> ELSE disk[e][g]
      BY <1>1, <1>3, <3>1, OneFile DEF FInv
    <3> QED
      BY <1>2, <3>1
  <2>2. Len(Stored(f)) \in Nat
    BY StoredBytes
  <2> QED
    BY <2>1, <2>2 DEF FInv, OnlySourceBytes
<1> QED
  BY <1>4, <1>5, <1>6, <1>7 DEF FInv

LEMMA ReceiveFInv ==
  ASSUME FInv, NEW c \in Client, Receive(c)
  PROVE  FInv'
<1> DEFINE dir == DirectoryOf[c]
           f   == file[c]
           s   == stream[c]
<1>1. PICK n \in 1..Buffer : Copies(c, n, off[c])
  BY DEF Receive
<1> DEFINE bytes == SubSeq(s, 1, n)
           left  == SubSeq(s, n + 1, Len(s))
<1>2. /\ pc[c] = "reading" /\ f \in File /\ s \in Seq(Nat) /\ Len(s) \in Nat
      /\ n \in Nat /\ n > 0 /\ n <= Len(s) /\ off[c] \in Nat /\ dir \in Directory
      /\ UNCHANGED <<backlog, newsockfd, child, pos, pc, file, request>>
      /\ stream' = [stream EXCEPT ![c] = left] /\ off' = [off EXCEPT ![c] = @ + n]
  <2>1. pc[c] = "reading" /\ UNCHANGED pc
    BY DEF Receive
  <2>2. /\ n <= Len(s) /\ stream' = [stream EXCEPT ![c] = left]
        /\ off' = [off EXCEPT ![c] = @ + n]
        /\ UNCHANGED <<backlog, newsockfd, child, pos, file, request>>
    BY <1>1 DEF Copies, serverVars
  <2>3. f \in File
    BY <2>1 DEF FInv, Downloads, Download
  <2>4. s \in Seq(Nat) /\ Len(s) \in Nat /\ off[c] \in Nat
    BY DEF FInv, Typed
  <2>5. n \in Nat /\ n > 0 /\ dir \in Directory
    BY SizeAssumption, DirectoryAssumption
  <2> HIDE DEF f, s, dir, left
  <2> QED
    BY <2>1, <2>2, <2>3, <2>4, <2>5
<1>3. /\ off[c] + Len(s) <= Len(Stored(f))
      /\ \A i \in 1..Len(s) : s[i] = Stored(f)[off[c] + i]
      /\ Stored(f) \in Seq(Nat) /\ Len(Stored(f)) \in Nat
  BY <1>2, StoredBytes DEF FInv, Downloads, Download
<1>4. /\ bytes \in Seq(Nat) /\ Len(bytes) = n
      /\ \A i \in 1..n : bytes[i] = s[i]
      /\ left \in Seq(Nat) /\ Len(left) = Len(s) - n
      /\ \A i \in 1..(Len(s) - n) : left[i] = s[n + i]
  <2>1. 0 \in Nat /\ 0 <= n /\ 0 + 1 = 1 /\ n - 0 = n /\ \A i \in 1..n : 0 + i = i
    BY <1>2
  <2>2. /\ SubSeq(s, 0 + 1, n) \in Seq(Nat) /\ Len(SubSeq(s, 0 + 1, n)) = n - 0
        /\ \A i \in 1..(n - 0) : SubSeq(s, 0 + 1, n)[i] = s[0 + i]
    BY <1>2, <2>1, Part
  <2>3. /\ left \in Seq(Nat) /\ Len(left) = Len(s) - n
        /\ \A i \in 1..(Len(s) - n) : left[i] = s[n + i]
    BY <1>2, Part
  <2> QED
    BY <2>1, <2>2, <2>3
<1>5. /\ off'[c] = off[c] + n /\ stream'[c] = left
      /\ \A o \in Client \ {c} : off'[o] = off[o] /\ stream'[o] = stream[o]
  BY <1>2 DEF FInv, Typed
<1>6. disk' = disk \/ disk' = [disk EXCEPT ![dir][f] = WriteAt(@, off[c], bytes)]
  BY <1>1 DEF Copies
<1> HIDE DEF dir, bytes, left
<1>7. /\ WriteAt(disk[dir][f], off[c], bytes) \in Seq(Nat)
      /\ Len(WriteAt(disk[dir][f], off[c], bytes)) <= Len(Stored(f))
      /\ \A i \in DOMAIN WriteAt(disk[dir][f], off[c], bytes) :
           WriteAt(disk[dir][f], off[c], bytes)[i] \in {Hole, Stored(f)[i]}
  <2>1. disk[dir][f] \in Seq(Nat)
    BY <1>2 DEF FInv, Typed
  <2>2. /\ Len(disk[dir][f]) <= Len(Stored(f))
        /\ \A i \in DOMAIN disk[dir][f] : disk[dir][f][i] \in {Hole, Stored(f)[i]}
    BY <1>2 DEF FInv, OnlySourceBytes
  <2>3. /\ off[c] + Len(bytes) <= Len(Stored(f))
        /\ \A i \in 1..Len(bytes) : bytes[i] = Stored(f)[off[c] + i]
    <3> HIDE DEF f, s
    <3>1. \A i \in 1..n : i \in 1..Len(s)
      BY <1>2
    <3>2. off[c] + n <= Len(Stored(f))
      BY <1>2, <1>3
    <3> QED
      BY <1>3, <1>4, <3>1, <3>2
  <2> QED
    BY <1>2, <1>4, <2>1, <2>2, <2>3, WriteAtPlace
<1>8. Typed'
  <2>1. disk' \in [Directory -> [File -> Seq(Nat)]]
    BY <1>2, <1>6, <1>7, OneFile DEF FInv, Typed
  <2>2. off' \in [Client -> Nat] /\ stream' \in [Client -> Seq(Nat)]
    <3>1. off \in [Client -> Nat] /\ stream \in [Client -> Seq(Nat)] /\ off[c] + n \in Nat
      BY <1>2 DEF FInv, Typed
    <3>2. off' = [off EXCEPT ![c] = off[c] + n]
      BY <1>2
    <3> HIDE DEF s
    <3> QED
      BY <1>2, <1>4, <3>1, <3>2
  <2> QED
    BY <1>2, <2>1, <2>2 DEF FInv, Typed
<1>9. Places'
  BY <1>2, SamePlaces DEF FInv
<1>10. Downloads'
  <2>1. Download(c)'
    <3>1. /\ off'[c] + Len(stream'[c]) = off[c] + Len(s)
          /\ \A i \in 1..Len(stream'[c]) : stream'[c][i] = Stored(f)[off'[c] + i]
      <4>1. ASSUME NEW i \in 1..(Len(s) - n)
            PROVE  left[i] = Stored(f)[(off[c] + n) + i]
        <5>1. n + i \in 1..Len(s) /\ off[c] + (n + i) = (off[c] + n) + i
          BY <1>2
        <5> QED
          BY <1>3, <1>4, <5>1
      <4>2. (off[c] + n) + (Len(s) - n) = off[c] + Len(s)
        BY <1>2
      <4> HIDE DEF s
      <4> QED
        BY <1>4, <1>5, <4>1, <4>2
    <3>2. child[c] \in {"none", "reading"} => s = <<>>
      BY DEF FInv, Downloads, Download
    <3>3. child[c] \notin {"none", "reading"}
      BY <1>2, <3>2, SizeAssumption
    <3>4. Stored(f)' = Stored(f)
      BY <1>2 DEF Stored
    <3> QED
      BY <1>2, <1>3, <3>1, <3>3, <3>4 DEF FInv, Downloads, Download
  <2>2. ASSUME NEW o \in Client \ {c} PROVE Download(o)'
    BY <1>2, <1>5, SameDownload DEF FInv, Downloads
  <2> QED
    BY <2>1, <2>2 DEF Downloads
<1>11. OnlySourceBytes'
  <2> SUFFICES ASSUME NEW d \in Directory, NEW g \in File
               PROVE  /\ Len(disk'[d][g]) <= Len(Stored(g))
                      /\ \A i \in DOMAIN disk'[d][g] : disk'[d][g][i] \in {Hole, Stored(g)[i]}
    BY DEF OnlySourceBytes, Stored
  <2>1. \/ disk'[d][g] = disk[d][g]
        \/ g = f /\ disk'[d][g] = WriteAt(disk[dir][f], off[c], bytes)
    BY <1>2, <1>6, <1>7, OneFile DEF FInv
  <2> QED
    BY <1>7, <2>1 DEF FInv, OnlySourceBytes
<1> QED
  BY <1>8, <1>9, <1>10, <1>11 DEF FInv

(* The end of a file is seen when the stream is empty and no process of    *)
(* the server holds the connection.                                        *)
LEMMA EndOfFileFInv ==
  ASSUME FInv, NEW c \in Client, EndOfFile(c)
  PROVE  FInv'
<1>1. /\ pc[c] = "reading" /\ stream[c] = <<>> /\ ~Held(c) /\ pc'[c] = "idle"
      /\ \A o \in Client \ {c} : pc'[o] = pc[o]
      /\ UNCHANGED <<backlog, newsockfd, child, pos, file, off, request, stream, disk>>
  BY DEF FInv, Typed, EndOfFile, serverVars
<1>2. Typed'
  BY <1>1 DEF FInv, Typed, EndOfFile
<1>3. Places'
  BY <1>1 DEF FInv, Places, Held, Running
<1>4. Downloads'
  <2>1. Download(c)'
    <3>1. child[c] = "exited" => off[c] = Len(Stored(file[c]))
      BY <1>1 DEF FInv, Typed, Downloads, Download
    <3> QED
      BY <1>1, <3>1 DEF Download, Stored
  <2>2. ASSUME NEW o \in Client \ {c} PROVE Download(o)'
    BY <1>1, SameDownload DEF FInv, Downloads
  <2> QED
    BY <2>1, <2>2 DEF Downloads
<1> QED
  BY <1>1, <1>2, <1>3, <1>4, SameDisk DEF FInv

(* A client is killed, or exits.                                           *)
LEMMA KilledFInv ==
  ASSUME FInv, NEW c \in Client, pc' = [pc EXCEPT ![c] = "killed"],
         UNCHANGED <<backlog, newsockfd, child, pos, file, off, request, stream, disk>>
  PROVE  FInv'
<1>1. pc'[c] = "killed" /\ \A o \in Client \ {c} : pc'[o] = pc[o]
  BY DEF FInv, Typed
<1>2. Typed'
  BY DEF FInv, Typed
<1>3. Places'
  BY <1>1, SamePlaces DEF FInv
<1>4. Downloads'
  <2>1. Download(c)'
    BY <1>1 DEF FInv, Downloads, Download
  <2>2. ASSUME NEW o \in Client \ {c} PROVE Download(o)'
    BY <1>1, SameDownload DEF FInv, Downloads
  <2> QED
    BY <2>1, <2>2 DEF Downloads
<1> QED
  BY <1>2, <1>3, <1>4, SameDisk DEF FInv
-----------------------------------------------------------------------------
(* The child of a connection gets another state: the other downloads, and  *)
(* the backlog, do not notice.                                             *)
LEMMA ChildStep ==
  ASSUME FInv, NEW c \in Client, c \in Running,
         child' \in [Client -> {"none", "reading", "sending", "exited", "killed"}],
         \A o \in Client \ {c} : child'[o] = child[o],
         UNCHANGED <<backlog, newsockfd, pc>>
  PROVE  Places'
<1>1. \A i \in DOMAIN backlog : backlog[i] \in Client \ {c}
  BY DEF FInv, Typed, Places, Running
<1>2. \A o \in Client : Held(o)' => Held(o)
  BY DEF Held, Running
<1> QED
  BY <1>1, <1>2 DEF FInv, Places

LEMMA AcceptFInv ==
  ASSUME FInv, Accept
  PROVE  FInv'
<1>1. PICK c \in Client : c = Head(backlog) /\ backlog # <<>>
  BY DEF FInv, Typed, Accept
<1>2. /\ backlog \in Seq(Client) /\ Len(backlog) \in Nat \ {0}
      /\ DOMAIN backlog = 1..Len(backlog) /\ backlog[1] = c
      /\ backlog' \in Seq(Client) /\ DOMAIN backlog' = 1..(Len(backlog) - 1)
      /\ \A i \in DOMAIN backlog' : backlog'[i] = backlog[i + 1] /\ i + 1 \in DOMAIN backlog
  BY <1>1 DEF FInv, Typed, Accept
<1>3. /\ newsockfd' = c /\ UNCHANGED <<pos, pc, file, off, disk, request, stream>>
      /\ child' = [child EXCEPT ![c] = "reading"] \/ child' = child
  BY <1>1 DEF Accept, clientVars
<1>4. child[c] = "none"
  BY <1>2 DEF FInv, Places
<1>5. /\ child'[c] \in {"none", "reading"}
      /\ \A o \in Client \ {c} : child'[o] = child[o]
      /\ child' \in [Client -> {"none", "reading", "sending", "exited", "killed"}]
  BY <1>2, <1>3, <1>4 DEF FInv, Typed
<1>6. Typed'
  BY <1>2, <1>3, <1>5 DEF FInv, Typed
<1>7. Places'
  <2>1. \A i, j \in DOMAIN backlog' : backlog'[i] = backlog'[j] => i = j
    BY <1>2 DEF FInv, Places
  <2>2. \A i \in DOMAIN backlog' : backlog'[i] \in Client \ {c}
    BY <1>2 DEF FInv, Places
  <2>3. \A i \in DOMAIN backlog' : child'[backlog'[i]] = "none"
    BY <1>2, <1>5, <2>2 DEF FInv, Places
  <2>4. Held(c)
    BY <1>2 DEF Held
  <2>5. \A o \in Client \ {c} : Held(o)' => Held(o)
    BY <1>2, <1>3, <1>5 DEF Held, Running
  <2> QED
    BY <1>3, <2>1, <2>3, <2>4, <2>5 DEF FInv, Places
<1>8. Downloads'
  <2>1. Download(c)'
    BY <1>2, <1>3, <1>4, <1>5 DEF FInv, Downloads, Download, Stored
  <2>2. ASSUME NEW o \in Client \ {c} PROVE Download(o)'
    BY <1>3, <1>5, SameDownload DEF FInv, Downloads
  <2> QED
    BY <2>1, <2>2 DEF Downloads
<1> QED
  BY <1>3, <1>6, <1>7, <1>8, SameDisk DEF FInv

LEMMA CloseFInv ==
  ASSUME FInv, CloseNewsockfd
  PROVE  FInv'
<1>1. /\ newsockfd' = NoClient
      /\ UNCHANGED <<backlog, child, pos, pc, file, off, disk, request, stream>>
  BY DEF CloseNewsockfd, clientVars
<1>2. Typed'
  BY <1>1 DEF FInv, Typed
<1>3. Places'
  BY <1>1, NoneAssumption DEF FInv, Places, Held, Running
<1>4. Downloads'
  BY <1>1, SameDownload DEF FInv, Downloads
<1> QED
  BY <1>1, <1>2, <1>3, <1>4, SameDisk DEF FInv

LEMMA ReadRequestFInv ==
  ASSUME FInv, NEW c \in Client, ReadRequest(c)
  PROVE  FInv'
<1>1. /\ child[c] = "reading" /\ c \in Running
      /\ UNCHANGED <<backlog, newsockfd, pc, file, off, disk, stream>>
  BY DEF ReadRequest, Running, clientVars
<1>2. stream[c] = <<>> /\ (pc[c] = "reading" => off[c] = 0) /\ pc[c] # "idle"
  BY <1>1 DEF FInv, Downloads, Download, Places, Held
<1>3. CASE /\ request[c] # NoFile
           /\ child' = [child EXCEPT ![c] = "sending"]
           /\ request' = [request EXCEPT ![c] = NoFile]
           /\ pos' = [pos EXCEPT ![c] = 0]
  <2>1. /\ child'[c] = "sending" /\ pos'[c] = 0 /\ pc[c] # "connected"
        /\ \A o \in Client \ {c} : /\ child'[o] = child[o] /\ pos'[o] = pos[o]
                                   /\ request'[o] = request[o]
    BY <1>3 DEF FInv, Typed, Downloads, Download
  <2>2. Typed'
    BY <1>1, <1>3 DEF FInv, Typed
  <2>3. Places'
    BY <1>1, <2>1, <2>2, ChildStep DEF Typed
  <2>4. Downloads'
    <3>1. Len(Stored(file[c])) \in Nat /\ Stored(file[c])' = Stored(file[c])
      BY <1>1, StoredBytes DEF Stored
    <3>2. ASSUME pc[c] = "killed" PROVE Download(c)'
      BY <1>1, <1>2, <2>1, <3>2 DEF Download
    <3>3. ASSUME pc[c] = "reading" PROVE Download(c)'
      <4>1. /\ stream'[c] = <<>> /\ off'[c] = 0 /\ pos'[c] = 0 /\ pc'[c] = "reading"
            /\ child'[c] = "sending"
        BY <1>1, <1>2, <2>1, <3>3
      <4>2. file'[c] \in File
        BY <1>1, <3>3 DEF FInv, Downloads, Download
      <4> QED
        BY <3>1, <4>1, <4>2 DEF Download
    <3>4. Download(c)'
      BY <1>2, <2>1, <3>2, <3>3 DEF FInv, Typed
    <3>5. ASSUME NEW o \in Client \ {c} PROVE Download(o)'
      BY <1>1, <2>1, SameDownload DEF FInv, Downloads
    <3> QED
      BY <3>4, <3>5 DEF Downloads
  <2> QED
    BY <1>1, <2>2, <2>3, <2>4, SameDisk DEF FInv
<1>4. CASE /\ pc[c] = "killed" /\ Ends(c, "exited") /\ UNCHANGED <<request, pos>>
  <2>1. child'[c] = "exited" /\ \A o \in Client \ {c} : child'[o] = child[o]
    BY <1>4 DEF FInv, Typed, Ends
  <2>2. Typed'
    BY <1>1, <1>4 DEF FInv, Typed, Ends
  <2>3. Places'
    BY <1>1, <2>1, <2>2, ChildStep DEF Typed
  <2>4. Downloads'
    <3>1. Download(c)'
      BY <1>1, <1>4, <2>1 DEF Download
    <3>2. ASSUME NEW o \in Client \ {c} PROVE Download(o)'
      BY <1>1, <1>4, <2>1, SameDownload DEF FInv, Downloads
    <3> QED
      BY <3>1, <3>2 DEF Downloads
  <2> QED
    BY <1>1, <2>2, <2>3, <2>4, SameDisk DEF FInv
<1> QED
  BY <1>3, <1>4 DEF ReadRequest

(* A child that sends serves a client that reads or has been killed.       *)
LEMMA Sending ==
  ASSUME FInv, NEW c \in Client, child[c] = "sending"
  PROVE  /\ c \in Running /\ pc[c] \in {"reading", "killed"}
         /\ pc[c] = "reading" => /\ pos[c] = off[c] + Len(stream[c])
                                 /\ pos[c] <= Len(Stored(file[c]))
         /\ off[c] \in Nat /\ Len(stream[c]) \in Nat /\ pos[c] \in Nat
<1>1. c \in Running
  BY DEF Running
<1>2. pc[c] # "idle" /\ pc[c] # "connected"
  BY <1>1 DEF FInv, Places, Held, Downloads, Download
<1> QED
  BY <1>1, <1>2 DEF FInv, Typed, Downloads, Download

LEMMA Beyond ==
  ASSUME NEW a \in Nat, NEW b \in Nat, NEW o \in Nat, NEW i \in 1..a + b, ~(i <= a)
  PROVE  i - a \in 1..b /\ (o + a) + (i - a) = o + i
OBVIOUS

LEMMA SendChunkFInv ==
  ASSUME FInv, NEW c \in Client, SendChunk(c)
  PROVE  FInv'
<1> DEFINE k == Chunk(c)
<1>1. /\ child[c] = "sending" /\ pc[c] # "killed"
      /\ stream' = [stream EXCEPT ![c] = @ \o k] /\ pos' = [pos EXCEPT ![c] = @ + Len(k)]
      /\ UNCHANGED <<backlog, newsockfd, child, pc, file, off, disk, request>>
  BY DEF SendChunk, clientVars
<1>2. /\ pc[c] = "reading" /\ pos[c] = off[c] + Len(stream[c])
      /\ pos[c] <= Len(Stored(file[c])) /\ pos[c] \in Nat /\ off[c] \in Nat
      /\ stream[c] \in Seq(Nat) /\ Len(stream[c]) \in Nat
  BY <1>1, Sending DEF FInv, Typed
<1>3. /\ k \in Seq(Nat) /\ Len(k) \in Nat /\ pos[c] + Len(k) <= Len(Stored(file[c]))
      /\ \A i \in 1..Len(k) : k[i] = Stored(file[c])[pos[c] + i]
  <2>1. /\ k \in Seq(Nat) /\ pos[c] + Len(k) <= Len(Stored(file[c]))
        /\ \A i \in 1..Len(k) : k[i] = Stored(file[c])[pos[c] + i]
    BY <1>2, ChunkBytes
  <2> HIDE DEF k
  <2> QED
    BY <2>1, LenProperties
<1> HIDE DEF k
<1>4. /\ stream'[c] = stream[c] \o k /\ pos'[c] = pos[c] + Len(k)
      /\ \A o \in Client \ {c} : stream'[o] = stream[o] /\ pos'[o] = pos[o]
  BY <1>1 DEF FInv, Typed
<1>5. /\ stream[c] \o k \in Seq(Nat) /\ Len(stream[c] \o k) = Len(stream[c]) + Len(k)
      /\ \A i \in 1..Len(stream[c]) + Len(k) :
           (stream[c] \o k)[i] = IF i <= Len(stream[c]) THEN stream[c][i]
                                 ELSE k[i - Len(stream[c])]
  BY <1>2, <1>3
<1>6. Typed'
  <2>1. stream' \in [Client -> Seq(Nat)]
    BY <1>1, <1>5 DEF FInv, Typed
  <2>2. pos' \in [Client -> Nat]
    BY <1>1, <1>2, <1>3 DEF FInv, Typed
  <2> QED
    BY <1>1, <2>1, <2>2 DEF FInv, Typed
<1>7. Places'
  BY <1>1, SamePlaces DEF FInv
<1>8. Downloads'
  <2>1. ASSUME NEW i \in 1..Len(stream[c]) + Len(k)
        PROVE  (stream[c] \o k)[i] = Stored(file[c])[off[c] + i]
    <3>1. CASE i <= Len(stream[c])
      BY <1>2, <1>5, <3>1 DEF FInv, Downloads, Download
    <3>2. CASE ~(i <= Len(stream[c]))
      <4>1. /\ i - Len(stream[c]) \in 1..Len(k)
            /\ pos[c] + (i - Len(stream[c])) = off[c] + i
        <5>1. Len(stream[c]) \in Nat /\ Len(k) \in Nat /\ off[c] \in Nat
          BY <1>2, <1>3
        <5>2. i \in 1..Len(stream[c]) + Len(k)
          OBVIOUS
        <5>3. /\ i - Len(stream[c]) \in 1..Len(k)
              /\ (off[c] + Len(stream[c])) + (i - Len(stream[c])) = off[c] + i
          BY <3>2, <5>1, <5>2, Beyond
        <5> QED
          BY <1>2, <5>3
      <4> QED
        BY <1>3, <1>5, <3>2, <4>1
    <3> QED
      BY <3>1, <3>2
  <2>2. off[c] + Len(stream[c] \o k) = pos[c] + Len(k)
    BY <1>2, <1>3, <1>5
  <2>3. Stored(file[c])' = Stored(file[c])
    BY <1>1 DEF Stored
  <2>4. file[c] \in File
    BY <1>2 DEF FInv, Downloads, Download
  <2>5. Download(c)'
    BY <1>1, <1>2, <1>3, <1>4, <1>5, <2>1, <2>2, <2>3, <2>4 DEF Download
  <2>6. ASSUME NEW o \in Client \ {c} PROVE Download(o)'
    BY <1>1, <1>4, SameDownload DEF FInv, Downloads
  <2> QED
    BY <2>5, <2>6 DEF Downloads
<1> QED
  BY <1>1, <1>6, <1>7, <1>8, SameDisk DEF FInv

LEMMA ExitFInv ==
  ASSUME FInv, NEW c \in Client, Exit(c)
  PROVE  FInv'
<1>1. /\ child[c] = "sending"
      /\ UNCHANGED <<backlog, newsockfd, pos, pc, file, off, disk, request, stream>>
  BY DEF Exit, clientVars
<1>2. PICK how \in {"exited", "killed"} :
        /\ child' = [child EXCEPT ![c] = how]
        /\ how = "exited" => Chunk(c) = <<>>
        /\ how = "killed" => pc[c] = "killed"
  BY DEF Exit, Ends
<1>3. child'[c] = how /\ \A o \in Client \ {c} : child'[o] = child[o]
  BY <1>2 DEF FInv, Typed
<1>4. Typed'
  BY <1>1, <1>2 DEF FInv, Typed
<1>5. Places'
  BY <1>1, <1>3, <1>4, ChildStep, Sending DEF Typed
<1>6. Downloads'
  <2>1. pc[c] = "reading" => how = "exited" /\ pos[c] = Len(Stored(file[c]))
    BY <1>1, <1>2, ChunkBytes, Sending
  <2>2. pc[c] \in {"reading", "killed"}
    BY <1>1, Sending
  <2>3. Download(c)'
    BY <1>1, <1>3, <2>1, <2>2 DEF FInv, Downloads, Download, Stored
  <2>4. ASSUME NEW o \in Client \ {c} PROVE Download(o)'
    BY <1>1, <1>3, SameDownload DEF FInv, Downloads
  <2> QED
    BY <2>3, <2>4 DEF Downloads
<1> QED
  BY <1>1, <1>4, <1>5, <1>6, SameDisk DEF FInv

LEMMA KillServerFInv ==
  ASSUME FInv, KillServer
  PROVE  FInv'
<1>1. /\ backlog' = <<>> /\ newsockfd' = NoClient
      /\ child' = [c \in Client |-> IF c \in Running THEN "killed" ELSE child[c]]
      /\ UNCHANGED <<pos, pc, file, off, disk, request, stream>>
  BY DEF KillServer, clientVars
<1>2. Typed'
  BY <1>1 DEF FInv, Typed
<1>3. Places'
  BY <1>1, NoneAssumption DEF FInv, Places, Held, Running
<1>4. ASSUME NEW c \in Client PROVE Download(c)'
  <2>1. CASE c \in Running
    <3>1. child'[c] = "killed" /\ pc[c] # "idle"
      BY <1>1, <2>1 DEF FInv, Places, Held
    <3> QED
      BY <1>1, <3>1 DEF FInv, Downloads, Download, Stored
  <2>2. CASE c \notin Running
    BY <1>1, <2>2, SameDownload DEF FInv, Downloads
  <2> QED
    BY <2>1, <2>2
<1>5. Downloads'
  BY <1>4 DEF Downloads
<1> QED
  BY <1>1, <1>2, <1>3, <1>5, SameDisk DEF FInv

LEMMA StepFInv == FInv /\ [Next]_vars => FInv'
<1> SUFFICES ASSUME FInv, [Next]_vars PROVE FInv'
  OBVIOUS
<1>1. ASSUME NEW c \in Client, NEW f \in File, Connect(c, f) PROVE FInv'
  BY <1>1, ConnectFInv
<1>2. ASSUME NEW c \in Client, Ask(c) PROVE FInv'
  BY <1>2, AskFInv
<1>3. ASSUME NEW c \in Client, FailToAsk(c) PROVE FInv'
  BY <1>3, KilledFInv DEF FailToAsk, serverVars
<1>4. ASSUME NEW c \in Client, Receive(c) PROVE FInv'
  BY <1>4, ReceiveFInv
<1>5. ASSUME NEW c \in Client, EndOfFile(c) PROVE FInv'
  BY <1>5, EndOfFileFInv
<1>6. ASSUME NEW c \in Client, KillClient(c) PROVE FInv'
  BY <1>6, KilledFInv DEF KillClient, serverVars
<1>7. CASE Accept
  BY <1>7, AcceptFInv
<1>8. CASE CloseNewsockfd
  BY <1>8, CloseFInv
<1>9. ASSUME NEW c \in Client, ReadRequest(c) PROVE FInv'
  BY <1>9, ReadRequestFInv
<1>10. ASSUME NEW c \in Client, SendChunk(c) PROVE FInv'
  BY <1>10, SendChunkFInv
<1>11. ASSUME NEW c \in Client, Exit(c) PROVE FInv'
  BY <1>11, ExitFInv
<1>12. CASE KillServer
  BY <1>12, KillServerFInv
<1>13. CASE UNCHANGED vars
  <2>1. /\ UNCHANGED <<backlog, newsockfd, child, pos, pc, file, off, request, stream, disk>>
    BY <1>13 DEF vars, serverVars, clientVars
  <2>2. Typed' /\ Places'
    BY <2>1, SamePlaces DEF FInv, Typed
  <2>3. Downloads' /\ OnlySourceBytes'
    BY <2>1, SameDownload, SameDisk DEF FInv, Downloads
  <2> QED
    BY <2>2, <2>3 DEF FInv
<1> QED
  BY <1>1, <1>2, <1>3, <1>4, <1>5, <1>6, <1>7, <1>8, <1>9, <1>10, <1>11, <1>12, <1>13 DEF Next
-----------------------------------------------------------------------------
LEMMA FInvAlways == Spec => []FInv
BY InitFInv, StepFInv, PTL DEF Spec

(* Whoever shares a directory, is killed or ends early, and however the    *)
(* reads and writes are cut: what is written comes from the server's file, *)
(* at its place.                                                           *)
THEOREM FilesAreTheServers == Spec => []OnlySourceBytes
<1>1. FInv => OnlySourceBytes
  BY DEF FInv
<1> QED
  BY <1>1, FInvAlways, PTL

(* No byte is lost between a child that runs to its end and the client     *)
(* that sees the end of the file.                                          *)
THEOREM EndIsTheEnd == Spec => []EndMeansAll
<1>1. FInv => EndMeansAll
  BY DEF FInv, EndMeansAll, Downloads, Download
<1> QED
  BY <1>1, FInvAlways, PTL
-----------------------------------------------------------------------------
(* The bounds, and the variables of the client's files.                    *)
Bounds ==
  /\ up \in BOOLEAN /\ zombies \in Nat
  /\ Len(backlog) <= Backlog
  /\ \A c \in Client : Len(stream[c]) <= Window
  /\ fdes \in [Client -> BOOLEAN]
  /\ mode \in [Directory -> [File -> {"absent", "writable", "readonly"}]]
  /\ incomplete \subseteq Directory \X File
  /\ downloads \in 0..MaxDownloads

LEMMA InitBounds == Init => Bounds
BY SizeAssumption, EmptySeq DEF Init, Bounds

(* An open leaves a file that has been opened.                             *)
LEMMA Opening ==
  ASSUME Bounds, NEW c \in Client, file[c] \in File, Open(c)
  PROVE  /\ fdes' \in [Client -> BOOLEAN]
         /\ mode' \in [Directory -> [File -> {"absent", "writable", "readonly"}]]
         /\ \A d \in Directory, f \in File :
              mode'[d][f] = "absent" => mode[d][f] = "absent"
         /\ mode'[DirectoryOf[c]][file[c]] # "absent"
         /\ \A d \in Directory, f \in File :
              <<d, f>> # <<DirectoryOf[c], file[c]>> => mode'[d][f] = mode[d][f]
<1>1. PICK d \in Directory, f \in File : d = DirectoryOf[c] /\ f = file[c]
  BY DirectoryAssumption
<1>2. fdes' = [fdes EXCEPT ![c] = mode[d][f] # "readonly"]
  BY <1>1 DEF Open
<1>3. fdes' \in [Client -> BOOLEAN]
  BY <1>2 DEF Bounds
<1>4. CASE mode[d][f] = "readonly" /\ UNCHANGED mode
  BY <1>1, <1>3, <1>4 DEF Bounds
<1>5. ASSUME NEW m \in {"writable", "readonly"}, mode' = [mode EXCEPT ![d][f] = m]
      PROVE  /\ mode' \in [Directory -> [File -> {"absent", "writable", "readonly"}]]
             /\ \A e \in Directory, g \in File :
                  mode'[e][g] = IF e = d /\ g = f THEN m ELSE mode[e][g]
  <2>1. /\ mode \in [Directory -> [File -> {"absent", "writable", "readonly"}]]
        /\ mode[d] \in [File -> {"absent", "writable", "readonly"}]
    BY DEF Bounds
  <2>2. PICK r : r = [mode[d] EXCEPT ![f] = m]
    OBVIOUS
  <2>3. /\ r \in [File -> {"absent", "writable", "readonly"}]
        /\ \A g \in File : r[g] = IF g = f THEN m ELSE mode[d][g]
    BY <2>1, <2>2
  <2>4. mode' = [mode EXCEPT ![d] = r]
    BY <1>5, <2>2
  <2>5. \A e \in Directory : mode'[e] = IF e = d THEN r ELSE mode[e]
    BY <2>1, <2>4
  <2> QED
    BY <2>1, <2>3, <2>4, <2>5
<1>6. \/ mode[d][f] = "readonly" /\ UNCHANGED mode
      \/ \E m \in {"writable", "readonly"} : mode' = [mode EXCEPT ![d][f] = m]
  BY <1>1 DEF Open
<1>7. ASSUME NEW m \in {"writable", "readonly"}, mode' = [mode EXCEPT ![d][f] = m]
      PROVE  /\ \A e \in Directory, g \in File : mode'[e][g] = "absent" => mode[e][g] = "absent"
             /\ mode'[d][f] # "absent"
             /\ \A e \in Directory, g \in File : <<e, g>> # <<d, f>> => mode'[e][g] = mode[e][g]
  BY <1>5, <1>7
<1> QED
  BY <1>1, <1>3, <1>4, <1>5, <1>6, <1>7

LEMMA StepBounds ==
  ASSUME FInv, Bounds, [Next]_vars
  PROVE  Bounds'
<1>1. /\ backlog \in Seq(Client) /\ Len(backlog) \in Nat /\ Backlog \in Nat
      /\ \A c \in Client : stream[c] \in Seq(Nat) /\ Len(stream[c]) \in Nat
      /\ Window \in Nat /\ MaxDownloads \in Nat
  BY SizeAssumption, LenProperties DEF FInv, Typed
<1>2. ASSUME NEW c \in Client, NEW f \in File, Connect(c, f) PROVE Bounds'
  <2>1. Len(backlog') = Len(backlog) + 1
    BY <1>1, <1>2, AppendProperties DEF Connect
  <2>2. Len(backlog') <= Backlog /\ downloads' \in 0..MaxDownloads
    BY <1>1, <1>2, <2>1 DEF Connect, Bounds
  <2> QED
    BY <1>2, <2>2 DEF Connect, Bounds
<1>3. ASSUME NEW c \in Client, Ask(c) PROVE Bounds'
  <2>1. file[c] \in File /\ Open(c)
    BY <1>3 DEF Ask, FInv, Downloads, Download
  <2> QED
    BY <1>3, <2>1, Opening DEF Ask, Bounds, serverVars
<1>4. ASSUME NEW c \in Client, FailToAsk(c) PROVE Bounds'
  BY <1>4 DEF FailToAsk, Bounds, serverVars
<1>5. ASSUME NEW c \in Client, Receive(c) PROVE Bounds'
  <2>1. PICK k \in 1..Buffer : Copies(c, k, off[c])
    BY <1>5 DEF Receive
  <2>2. PICK s \in Seq(Nat) : s = stream[c] /\ Len(s) \in Nat /\ Len(s) <= Window
    BY <1>1 DEF Bounds
  <2>3. stream' = [stream EXCEPT ![c] = SubSeq(s, k + 1, Len(s))] /\ k <= Len(s) /\ k \in Nat
    BY <2>1, <2>2, SizeAssumption DEF Copies
  <2>4. Len(SubSeq(s, k + 1, Len(s))) = Len(s) - k
    BY <2>2, <2>3, Part
  <2>5. \A o \in Client : Len(stream'[o]) <= Window
    BY <1>1, <2>2, <2>3, <2>4 DEF FInv, Typed, Bounds
  <2> QED
    BY <1>5, <2>1, <2>5 DEF Receive, Copies, Bounds, serverVars
<1>6. ASSUME NEW c \in Client, EndOfFile(c) \/ KillClient(c) PROVE Bounds'
  <2>1. file[c] \in File /\ DirectoryOf[c] \in Directory
    BY <1>6, DirectoryAssumption DEF EndOfFile, KillClient, FInv, Downloads, Download
  <2>2. incomplete' \subseteq Directory \X File
    BY <1>6, <2>1 DEF EndOfFile, KillClient, Fails, Bounds
  <2>3. UNCHANGED <<up, zombies, backlog, stream, fdes, mode, downloads>>
    BY <1>6 DEF EndOfFile, KillClient, serverVars
  <2> QED
    BY <2>2, <2>3 DEF Bounds
<1>7. CASE Accept
  <2>1. Len(backlog') <= Backlog
    BY <1>1, <1>7, HeadTailProperties DEF Accept, Bounds
  <2> QED
    BY <1>7, <2>1 DEF Accept, Bounds, clientVars
<1>8. CASE CloseNewsockfd
  BY <1>8 DEF CloseNewsockfd, Bounds, clientVars
<1>9. ASSUME NEW c \in Client, ReadRequest(c) \/ Exit(c) PROVE Bounds'
  BY <1>9 DEF ReadRequest, Exit, Ends, Bounds, clientVars
<1>10. ASSUME NEW c \in Client, SendChunk(c) PROVE Bounds'
  <2>1. PICK k : k = Chunk(c)
    OBVIOUS
  <2>2. k \in Seq(Nat)
    BY <1>10, <2>1, Sending, ChunkBytes DEF SendChunk
  <2>3. PICK s \in Seq(Nat) : s = stream[c]
    BY <1>1
  <2>4. Len(s \o k) <= Window
    BY <1>10, <2>1, <2>2, <2>3, ConcatProperties DEF SendChunk
  <2>5. stream' = [stream EXCEPT ![c] = s \o k]
    BY <1>10, <2>1, <2>3 DEF SendChunk
  <2>6. \A o \in Client : Len(stream'[o]) <= Window
    BY <2>4, <2>5 DEF FInv, Typed, Bounds
  <2> QED
    BY <1>10, <2>6 DEF SendChunk, Bounds, clientVars
<1>11. CASE KillServer
  <2>1. Len(backlog') <= Backlog
    BY <1>1, <1>11 DEF KillServer
  <2> QED
    BY <1>11, <2>1 DEF KillServer, Bounds, clientVars
<1>12. CASE UNCHANGED vars
  BY <1>12 DEF vars, serverVars, clientVars, Bounds
<1> QED
  BY <1>2, <1>3, <1>4, <1>5, <1>6, <1>7, <1>8, <1>9, <1>10, <1>11, <1>12 DEF Next
-----------------------------------------------------------------------------
(* A place of a directory is there once a client has opened it.            *)
Opened ==
  \A c \in Client :
    pc[c] = "reading" \/ (pc[c] = "idle" /\ child[c] = "exited") =>
      file[c] \in File /\ mode[DirectoryOf[c]][file[c]] # "absent"

(* o has "new <f>" in dir open for writing and has still to write byte i.  *)
Awaits(o, dir, f, i) ==
  /\ pc[o] = "reading" /\ fdes[o] /\ off[o] < i
  /\ DirectoryOf[o] = dir /\ file[o] = f

(* Unless a download has failed there, every byte of the server's file is  *)
(* in "new <f>", or a client that reads has still to write it: one that    *)
(* truncates the file writes all of it again.                              *)
CoveredAt(dir, f, i) ==
  \/ i \in DOMAIN disk[dir][f] /\ disk[dir][f][i] = Stored(f)[i]
  \/ \E o \in Client : Awaits(o, dir, f, i)

Covered ==
  \A dir \in Directory, f \in File :
    mode[dir][f] # "absent" /\ <<dir, f>> \notin incomplete =>
      \A i \in 1..Len(Stored(f)) : CoveredAt(dir, f, i)

LEMMA InitCovered == Init => Opened /\ Covered
BY DirectoryAssumption DEF Init, Opened, Covered

(* A write changes the bytes it brings and no others.                      *)
LEMMA WriteCovers ==
  ASSUME NEW s \in Seq(Nat), NEW o \in Nat, NEW bytes \in Seq(Nat), NEW w, w = WriteAt(s, o, bytes)
  PROVE  /\ \A i \in DOMAIN s : i \in DOMAIN w
         /\ \A i \in DOMAIN s : i \notin o + 1..o + Len(bytes) => w[i] = s[i]
         /\ \A i \in o + 1..o + Len(bytes) : i \in DOMAIN w /\ w[i] = bytes[i - o]
<1> DEFINE end == o + Len(bytes)
           m   == IF end > Len(s) THEN end ELSE Len(s)
<1>1. /\ Len(s) \in Nat /\ DOMAIN s = 1..Len(s) /\ Len(bytes) \in Nat
  BY LenProperties
<1>2. m \in Nat /\ Len(s) <= m /\ end <= m
  BY <1>1
<1>3. w = [i \in 1..m |-> IF i \in o + 1..end THEN bytes[i - o]
                          ELSE IF i <= Len(s) THEN s[i] ELSE Hole]
  BY DEF WriteAt
<1> HIDE DEF m
<1>4. \A i \in 1..m : w[i] = IF i \in o + 1..end THEN bytes[i - o]
                            ELSE IF i <= Len(s) THEN s[i] ELSE Hole
  BY <1>3
<1>5. DOMAIN w = 1..m
  BY <1>3
<1>6. ASSUME NEW i \in DOMAIN s PROVE i \in 1..m /\ i <= Len(s)
  BY <1>1, <1>2
<1>7. ASSUME NEW i \in o + 1..end PROVE i \in 1..m
  BY <1>1, <1>2
<1> QED
  BY <1>4, <1>5, <1>6, <1>7

(* A step that writes to no file: a client that awaited bytes still does,  *)
(* or has nothing more to write, or its download has failed.               *)
LEMMA SameCovered ==
  ASSUME FInv, Covered, UNCHANGED <<disk, mode>>, incomplete \subseteq incomplete',
         \A o \in Client :
           pc[o] = "reading" /\ fdes[o] =>
             \/ UNCHANGED <<pc[o], fdes[o], off[o], file[o]>>
             \/ off[o] = Len(Stored(file[o]))
             \/ <<DirectoryOf[o], file[o]>> \in incomplete'
  PROVE  Covered'
<1> SUFFICES ASSUME NEW dir \in Directory, NEW f \in File,
                    mode[dir][f] # "absent", <<dir, f>> \notin incomplete',
                    NEW i \in 1..Len(Stored(f))
             PROVE  CoveredAt(dir, f, i)'
  BY DEF Covered, Stored
<1>1. Len(Stored(f)) \in Nat
  BY StoredBytes
<1>2. CASE i \in DOMAIN disk[dir][f] /\ disk[dir][f][i] = Stored(f)[i]
  BY <1>2 DEF CoveredAt, Stored
<1>3. ASSUME NEW o \in Client, Awaits(o, dir, f, i) PROVE Awaits(o, dir, f, i)'
  <2>1. off[o] # Len(Stored(file[o])) /\ <<DirectoryOf[o], file[o]>> \notin incomplete'
    BY <1>1, <1>3 DEF Awaits
  <2> QED
    BY <1>3, <2>1 DEF Awaits
<1> QED
  BY <1>2, <1>3 DEF Covered, CoveredAt

(* An open that truncates: its client has to write everything.             *)
LEMMA AskCovered ==
  ASSUME FInv, Bounds, Opened, Covered, NEW c \in Client, Ask(c)
  PROVE  Opened' /\ Covered'
<1>1. PICK d \in Directory, f \in File : d = DirectoryOf[c] /\ f = file[c]
  BY DirectoryAssumption DEF Ask, FInv, Downloads, Download
<1>2. /\ pc[c] = "connected" /\ pc'[c] = "reading" /\ off'[c] = 0 /\ Open(c)
      /\ \A o \in Client \ {c} : pc'[o] = pc[o] /\ off'[o] = off[o]
      /\ UNCHANGED <<child, file, incomplete>>
  BY DEF Ask, FInv, Typed, serverVars
<1>3. /\ \A e \in Directory, g \in File : mode'[e][g] = "absent" => mode[e][g] = "absent"
      /\ mode'[d][f] # "absent"
      /\ \A e \in Directory, g \in File : <<e, g>> # <<d, f>> => mode'[e][g] = mode[e][g]
  BY <1>1, <1>2, Opening
<1>4. Opened'
  <2>1. \A o \in Client : DirectoryOf[o] \in Directory
    BY DirectoryAssumption
  <2> QED
    BY <1>1, <1>2, <1>3, <2>1 DEF Opened
<1>5. fdes' = [fdes EXCEPT ![c] = mode[d][f] # "readonly"]
  BY <1>1, <1>2 DEF Open
<1>6. \A o \in Client \ {c} : fdes'[o] = fdes[o]
  BY <1>5 DEF Bounds
<1>7. CASE mode[d][f] = "readonly" /\ UNCHANGED <<disk, mode>>
  <2>1. \A o \in Client :
          pc[o] = "reading" => UNCHANGED <<pc[o], fdes[o], off[o], file[o]>>
    BY <1>2, <1>6
  <2>2. Covered'
    BY <1>2, <1>7, <2>1, SameCovered
  <2> QED
    BY <1>4, <2>2
<1>8. CASE mode[d][f] # "readonly" /\ disk' = [disk EXCEPT ![d][f] = <<>>]
  <2>1. fdes'[c] = TRUE
    BY <1>5, <1>8 DEF Bounds
  <2>2. \A e \in Directory, g \in File : <<e, g>> # <<d, f>> => disk'[e][g] = disk[e][g]
    BY <1>8, OneFile, EmptySeq DEF FInv
  <2> SUFFICES ASSUME NEW e \in Directory, NEW g \in File,
                      mode'[e][g] # "absent", <<e, g>> \notin incomplete',
                      NEW i \in 1..Len(Stored(g))
               PROVE  CoveredAt(e, g, i)'
    BY <1>4 DEF Covered, Stored
  <2>3. CASE e = d /\ g = f
    <3>1. Len(Stored(g)) \in Nat
      BY StoredBytes
    <3>2. Awaits(c, e, g, i)'
      BY <1>1, <1>2, <2>1, <2>3, <3>1 DEF Awaits
    <3> QED
      BY <3>2 DEF CoveredAt
  <2>4. CASE <<e, g>> # <<d, f>>
    <3>1. CoveredAt(e, g, i)
      BY <1>2, <1>3, <2>4 DEF Covered
    <3>2. CASE i \in DOMAIN disk[e][g] /\ disk[e][g][i] = Stored(g)[i]
      BY <2>2, <2>4, <3>2 DEF CoveredAt, Stored
    <3>3. ASSUME NEW o \in Client, Awaits(o, e, g, i) PROVE Awaits(o, e, g, i)'
      BY <1>2, <1>6, <3>3 DEF Awaits
    <3> QED
      BY <3>1, <3>2, <3>3 DEF CoveredAt
  <2> QED
    BY <2>3, <2>4
<1>9. \/ mode[d][f] = "readonly" /\ UNCHANGED <<disk, mode>>
      \/ mode[d][f] # "readonly" /\ disk' = [disk EXCEPT ![d][f] = <<>>]
  BY <1>1, <1>2 DEF Open
<1> QED
  BY <1>4, <1>7, <1>8, <1>9

(* What a client awaited no longer, after its write, is the file's.        *)
LEMMA ReceiveCovered ==
  ASSUME FInv, Bounds, Opened, Covered, NEW c \in Client, Receive(c)
  PROVE  Opened' /\ Covered'
<1>1. PICK k \in 1..Buffer : Copies(c, k, off[c])
  BY DEF Receive
<1>2. PICK d \in Directory, f \in File : d = DirectoryOf[c] /\ f = file[c] /\ pc[c] = "reading"
  BY DirectoryAssumption DEF Receive, FInv, Downloads, Download
<1>3. UNCHANGED <<pc, child, file, fdes, mode, incomplete>>
  BY <1>1 DEF Receive, Copies, serverVars
<1>4. Opened'
  BY <1>3 DEF Opened
<1>5. PICK o \in Nat : o = off[c]
  BY DEF FInv, Typed
<1>6. /\ off'[c] = o + k /\ \A p \in Client \ {c} : off'[p] = off[p]
  BY <1>1, <1>5 DEF Copies, FInv, Typed
<1>7. CASE ~fdes[c]
  <2>1. disk' = disk
    BY <1>1, <1>7 DEF Copies
  <2> QED
    BY <1>3, <1>4, <1>6, <1>7, <2>1, SameCovered
<1>8. CASE fdes[c]
  <2>1. PICK s \in Seq(Nat) : /\ s = stream[c] /\ Len(s) \in Nat /\ k <= Len(s)
                             /\ \A i \in 1..Len(s) : s[i] = Stored(f)[o + i]
    <3>1. stream[c] \in Seq(Nat) /\ Len(stream[c]) \in Nat
      BY LenProperties DEF FInv, Typed
    <3>2. k <= Len(stream[c])
      BY <1>1 DEF Copies
    <3>3. \A i \in 1..Len(stream[c]) : stream[c][i] = Stored(f)[o + i]
      BY <1>2, <1>5 DEF FInv, Downloads, Download
    <3> QED
      BY <3>1, <3>2, <3>3
  <2>2. k \in Nat
    BY SizeAssumption
  <2>3. PICK b \in Seq(Nat) : /\ b = SubSeq(s, 1, k) /\ Len(b) = k
                             /\ \A i \in 1..k : b[i] = Stored(f)[o + i]
    <3>1. 0 \in Nat /\ 0 <= k /\ 0 + 1 = 1 /\ k - 0 = k /\ \A i \in 1..k : 0 + i = i
      BY <2>2
    <3>2. /\ SubSeq(s, 0 + 1, k) \in Seq(Nat) /\ Len(SubSeq(s, 0 + 1, k)) = k - 0
          /\ \A i \in 1..(k - 0) : SubSeq(s, 0 + 1, k)[i] = s[0 + i]
      BY <2>1, <2>2, <3>1, Part
    <3>3. /\ SubSeq(s, 1, k) \in Seq(Nat) /\ Len(SubSeq(s, 1, k)) = k
          /\ \A i \in 1..k : SubSeq(s, 1, k)[i] = Stored(f)[o + i]
      BY <2>1, <2>2, <3>1, <3>2
    <3> QED
      BY <3>3
  <2>4. PICK old \in Seq(Nat) : old = disk[d][f]
    BY DEF FInv, Typed
  <2>5. PICK w : w = WriteAt(old, o, b)
    OBVIOUS
  <2>6. disk' = [disk EXCEPT ![d][f] = w]
    BY <1>1, <1>2, <1>5, <1>8, <2>1, <2>3, <2>4, <2>5 DEF Copies
  <2>7. w \in Seq(Nat)
    <3>1. /\ Len(old) <= Len(Stored(f))
          /\ \A i \in DOMAIN old : old[i] \in {Hole, Stored(f)[i]}
      BY <2>4 DEF FInv, OnlySourceBytes
    <3>2. o + Len(b) <= Len(Stored(f))
      <4>1. o + Len(s) <= Len(Stored(f)) /\ Len(Stored(f)) \in Nat
        BY <1>2, <1>5, <2>1, StoredBytes DEF FInv, Downloads, Download
      <4> QED
        BY <2>1, <2>2, <2>3, <4>1
    <3>3. \A i \in 1..Len(b) : b[i] = Stored(f)[o + i]
      BY <2>3
    <3>4. WriteAt(old, o, b) \in Seq(Nat)
      BY <3>1, <3>2, <3>3, WriteAtPlace
    <3> QED
      BY <2>5, <3>4
  <2>8. /\ disk'[d][f] = w
        /\ \A e \in Directory, g \in File : <<e, g>> # <<d, f>> => disk'[e][g] = disk[e][g]
    <3>1. disk \in [Directory -> [File -> Seq(Nat)]]
      BY DEF FInv, Typed
    <3>2. PICK files : files = [disk[d] EXCEPT ![f] = w]
      OBVIOUS
    <3>3. disk' = [disk EXCEPT ![d] = files]
      BY <2>6, <3>2
    <3>4. disk'[d] = files /\ \A e \in Directory \ {d} : disk'[e] = disk[e]
      BY <3>1, <3>3
    <3>5. files[f] = w /\ \A g \in File \ {f} : files[g] = disk[d][g]
      BY <3>1, <3>2
    <3>6. ASSUME NEW e \in Directory, NEW g \in File, <<e, g>> # <<d, f>>
          PROVE  disk'[e][g] = disk[e][g]
      BY <3>4, <3>5, <3>6
    <3> QED
      BY <3>4, <3>5, <3>6
  <2>9. /\ \A i \in DOMAIN old : i \in DOMAIN w
        /\ \A i \in DOMAIN old : i \notin o + 1..o + k => w[i] = old[i]
        /\ \A i \in o + 1..o + k : i \in DOMAIN w /\ w[i] = b[i - o]
    <3>1. PICK l : l = Len(b)
      OBVIOUS
    <3>2. /\ \A i \in DOMAIN old : i \in DOMAIN w
          /\ \A i \in DOMAIN old : i \notin o + 1..o + l => w[i] = old[i]
          /\ \A i \in o + 1..o + l : i \in DOMAIN w /\ w[i] = b[i - o]
      BY <2>5, <3>1, WriteCovers
    <3> QED
      BY <2>3, <3>1, <3>2
  <2>10. ASSUME NEW i \in o + 1..o + k PROVE i \in DOMAIN w /\ w[i] = Stored(f)[i]
    <3>1. i - o \in 1..k /\ o + (i - o) = i
      BY <2>2
    <3> QED
      BY <2>3, <2>9, <3>1
  <2> SUFFICES ASSUME NEW e \in Directory, NEW g \in File,
                      mode[e][g] # "absent", <<e, g>> \notin incomplete,
                      NEW i \in 1..Len(Stored(g))
               PROVE  CoveredAt(e, g, i)'
    BY <1>3, <1>4 DEF Covered, Stored
  <2>11. CoveredAt(e, g, i) /\ Len(Stored(g)) \in Nat
    BY StoredBytes DEF Covered
  <2>12. ASSUME NEW p \in Client \ {c}, Awaits(p, e, g, i) PROVE CoveredAt(e, g, i)'
    BY <1>3, <1>6, <2>12 DEF CoveredAt, Awaits
  <2>13. CASE <<e, g>> # <<d, f>>
    <3>1. ~Awaits(c, e, g, i)
      BY <1>2, <2>13 DEF Awaits
    <3>2. CASE i \in DOMAIN disk[e][g] /\ disk[e][g][i] = Stored(g)[i]
      BY <2>8, <2>13, <3>2 DEF CoveredAt, Stored
    <3> QED
      BY <2>11, <2>12, <3>1, <3>2 DEF CoveredAt
  <2>14. CASE e = d /\ g = f
    <3>1. CASE i \in DOMAIN w /\ w[i] = Stored(f)[i]
      BY <2>8, <2>14, <3>1 DEF CoveredAt, Stored
    <3>2. CASE i \in o + 1..o + k
      BY <2>10, <3>1, <3>2
    <3>3. CASE i \notin o + 1..o + k /\ i \in DOMAIN old /\ old[i] = Stored(f)[i]
      BY <2>9, <3>1, <3>3
    <3>4. CASE i \notin o + 1..o + k /\ Awaits(c, e, g, i)
      <4>1. off'[c] < i
        BY <1>5, <1>6, <2>2, <2>11, <3>4 DEF Awaits
      <4>2. Awaits(c, e, g, i)'
        BY <1>3, <3>4, <4>1 DEF Awaits
      <4> QED
        BY <4>2 DEF CoveredAt
    <3> QED
      BY <2>4, <2>11, <2>12, <2>14, <3>2, <3>3, <3>4 DEF CoveredAt
  <2> QED
    BY <2>13, <2>14
<1> QED
  BY <1>7, <1>8

(* The steps of the server: a child ends for no client that is idle.       *)
LEMMA ServerOpened ==
  ASSUME FInv, Opened, Covered, UNCHANGED clientVars,
         \A c \in Client : child'[c] = "exited" => child[c] = "exited" \/ pc[c] # "idle"
  PROVE  Opened' /\ Covered'
<1>1. UNCHANGED <<pc, file, off, fdes, disk, mode, incomplete>>
  BY DEF clientVars
<1>2. Opened'
  BY <1>1 DEF Opened
<1>3. Covered'
  BY <1>1, SameCovered
<1> QED
  BY <1>2, <1>3

LEMMA StepCovered ==
  ASSUME FInv, Bounds, Opened, Covered, [Next]_vars
  PROVE  Opened' /\ Covered'
<1>1. /\ pc \in [Client -> {"idle", "connected", "reading", "killed"}]
      /\ child \in [Client -> {"none", "reading", "sending", "exited", "killed"}]
      /\ file \in [Client -> File \cup {NoFile}]
  BY DEF FInv, Typed
<1>2. ASSUME NEW c \in Client, NEW f \in File, Connect(c, f) PROVE Opened' /\ Covered'
  <2>1. /\ pc[c] = "idle" /\ pc'[c] = "connected"
        /\ \A o \in Client \ {c} : pc'[o] = pc[o] /\ child'[o] = child[o] /\ file'[o] = file[o]
        /\ UNCHANGED <<off, fdes, disk, mode, incomplete>>
    BY <1>1, <1>2 DEF Connect
  <2>2. Opened'
    BY <2>1 DEF Opened
  <2>3. \A o \in Client : pc[o] = "reading" => UNCHANGED <<pc[o], fdes[o], off[o], file[o]>>
    BY <2>1
  <2>4. Covered'
    BY <2>1, <2>3, SameCovered
  <2> QED
    BY <2>2, <2>4
<1>3. ASSUME NEW c \in Client, Ask(c) PROVE Opened' /\ Covered'
  BY <1>3, AskCovered
<1>4. ASSUME NEW c \in Client, Receive(c) PROVE Opened' /\ Covered'
  BY <1>4, ReceiveCovered
<1>5. ASSUME NEW c \in Client, FailToAsk(c) \/ KillClient(c) PROVE Opened' /\ Covered'
  <2>1. /\ pc'[c] = "killed" /\ \A o \in Client \ {c} : pc'[o] = pc[o]
        /\ UNCHANGED <<child, file, off, fdes, disk, mode>>
        /\ incomplete \subseteq incomplete'
        /\ pc[c] = "reading" => <<DirectoryOf[c], file[c]>> \in incomplete'
    BY <1>1, <1>5 DEF FailToAsk, KillClient, Fails, serverVars
  <2>2. Opened'
    BY <2>1 DEF Opened
  <2>3. ASSUME NEW o \in Client, pc[o] = "reading"
        PROVE  \/ UNCHANGED <<pc[o], fdes[o], off[o], file[o]>>
               \/ <<DirectoryOf[o], file[o]>> \in incomplete'
    BY <2>1, <2>3
  <2>4. Covered'
    BY <2>1, <2>3, SameCovered
  <2> QED
    BY <2>2, <2>4
<1>6. ASSUME NEW c \in Client, EndOfFile(c) PROVE Opened' /\ Covered'
  <2>1. /\ pc[c] = "reading" /\ pc'[c] = "idle" /\ stream[c] = <<>>
        /\ \A o \in Client \ {c} : pc'[o] = pc[o]
        /\ UNCHANGED <<child, file, off, fdes, disk, mode>>
        /\ incomplete \subseteq incomplete'
        /\ child[c] # "exited" => <<DirectoryOf[c], file[c]>> \in incomplete'
    BY <1>1, <1>6 DEF EndOfFile, Fails, serverVars
  <2>2. Opened'
    BY <2>1 DEF Opened
  <2>3. child[c] = "exited" => off[c] = Len(Stored(file[c]))
    BY <2>1 DEF FInv, Typed, Downloads, Download
  <2>4. ASSUME NEW o \in Client, pc[o] = "reading"
        PROVE  \/ UNCHANGED <<pc[o], fdes[o], off[o], file[o]>>
               \/ off[o] = Len(Stored(file[o]))
               \/ <<DirectoryOf[o], file[o]>> \in incomplete'
    BY <2>1, <2>3, <2>4
  <2>5. Covered'
    BY <2>1, <2>4, SameCovered
  <2> QED
    BY <2>2, <2>5
<1>7. CASE Accept
  <2>1. child' = child \/ child' = [child EXCEPT ![Head(backlog)] = "reading"]
    BY <1>7 DEF Accept
  <2>2. \A c \in Client : child'[c] = "exited" => child[c] = "exited"
    BY <1>1, <2>1
  <2> QED
    BY <1>7, <2>2, ServerOpened DEF Accept
<1>8. CASE CloseNewsockfd
  BY <1>8, ServerOpened DEF CloseNewsockfd
<1>9. ASSUME NEW c \in Client, ReadRequest(c) PROVE Opened' /\ Covered'
  <2>1. \/ child' = [child EXCEPT ![c] = "sending"]
        \/ child' = [child EXCEPT ![c] = "exited"] /\ pc[c] = "killed"
    BY <1>9 DEF ReadRequest, Ends
  <2>2. \A o \in Client : child'[o] = "exited" => child[o] = "exited" \/ pc[o] # "idle"
    BY <1>1, <2>1
  <2> QED
    BY <1>9, <2>2, ServerOpened DEF ReadRequest
<1>10. ASSUME NEW c \in Client, SendChunk(c) PROVE Opened' /\ Covered'
  BY <1>10, ServerOpened DEF SendChunk
<1>11. ASSUME NEW c \in Client, Exit(c) PROVE Opened' /\ Covered'
  <2>1. pc[c] # "idle"
    BY <1>11, Sending DEF Exit
  <2>2. child' = [child EXCEPT ![c] = "exited"] \/ child' = [child EXCEPT ![c] = "killed"]
    BY <1>11 DEF Exit, Ends
  <2>3. \A o \in Client : child'[o] = "exited" => child[o] = "exited" \/ pc[o] # "idle"
    BY <1>1, <2>1, <2>2
  <2> QED
    BY <1>11, <2>3, ServerOpened DEF Exit
<1>12. CASE KillServer
  BY <1>12, ServerOpened DEF KillServer
<1>13. CASE UNCHANGED vars
  BY <1>13, ServerOpened DEF vars, serverVars
<1> QED
  BY <1>2, <1>3, <1>4, <1>5, <1>6, <1>7, <1>8, <1>9, <1>10, <1>11, <1>12, <1>13 DEF Next

(* Where nobody reads, nothing is awaited: the file is the server's.       *)
LEMMA QuietIsWhole ==
  ASSUME FInv, Bounds, Opened, Covered
  PROVE  WholeWhenQuiet
<1> SUFFICES ASSUME NEW c \in Client, pc[c] = "idle", child[c] = "exited",
                    <<DirectoryOf[c], file[c]>> \notin incomplete,
                    \A o \in Client : pc[o] = "reading" =>
                      <<DirectoryOf[o], file[o]>> # <<DirectoryOf[c], file[c]>>
             PROVE  disk[DirectoryOf[c]][file[c]] = Stored(file[c])
  BY DEF WholeWhenQuiet
<1>1. PICK d \in Directory, f \in File : d = DirectoryOf[c] /\ f = file[c]
  BY DirectoryAssumption DEF Opened
<1>2. PICK s, t \in Seq(Nat) : /\ s = disk[d][f] /\ t = Stored(f)
                              /\ Len(s) \in Nat /\ Len(t) \in Nat
                              /\ DOMAIN s = 1..Len(s) /\ Len(s) <= Len(t)
  <2>1. disk[d][f] \in Seq(Nat) /\ Stored(f) \in Seq(Nat) /\ Len(disk[d][f]) <= Len(Stored(f))
    BY StoredBytes DEF FInv, Typed, OnlySourceBytes
  <2> QED
    BY <2>1, LenProperties
<1>3. ASSUME NEW i \in 1..Len(t) PROVE i \in DOMAIN s /\ s[i] = t[i]
  <2>1. CoveredAt(d, f, i)
    BY <1>1, <1>2 DEF Opened, Covered
  <2>2. ~\E o \in Client : Awaits(o, d, f, i)
    BY <1>1 DEF Awaits
  <2> QED
    BY <1>2, <2>1, <2>2 DEF CoveredAt
<1>4. Len(s) = Len(t)
  <2>1. CASE Len(t) = 0
    BY <1>2, <2>1
  <2>2. CASE Len(t) # 0
    <3>1. Len(t) \in 1..Len(t)
      BY <1>2, <2>2
    <3> QED
      BY <1>2, <1>3, <3>1
  <2> QED
    BY <2>1, <2>2
<1>5. s = t
  BY <1>3, <1>4, SeqEqual
<1> QED
  BY <1>1, <1>2, <1>5
-----------------------------------------------------------------------------
TInv == FInv /\ Bounds /\ Opened /\ Covered

LEMMA TInvAlways == Spec => []TInv
<1>1. Init => TInv
  BY InitFInv, InitBounds, InitCovered DEF TInv
<1>2. TInv /\ [Next]_vars => TInv'
  BY StepFInv, StepBounds, StepCovered DEF TInv
<1> QED
  BY <1>1, <1>2, PTL DEF Spec

(* The state is well typed, and no client reads beyond the end of the file *)
(* it asked for.                                                           *)
THEOREM TypeCorrect == Spec => []TypeOK
<1>1. ASSUME TInv, NEW c \in Client, pc[c] = "reading"
      PROVE  off[c] <= Len(Stored(file[c]))
  <2>1. /\ off[c] \in Nat /\ Len(stream[c]) \in Nat /\ Len(Stored(file[c])) \in Nat
        /\ off[c] + Len(stream[c]) <= Len(Stored(file[c]))
    BY <1>1, StoredBytes DEF TInv, FInv, Typed, Downloads, Download
  <2> QED
    BY <2>1
<1>2. TInv => TypeOK
  BY <1>1 DEF TInv, FInv, Typed, Bounds, TypeOK
<1> QED
  BY <1>2, TInvAlways, PTL

(* Once every download of a file into a directory has ended, and none has  *)
(* failed there, "new <file>" is the server's file, although the clients   *)
(* share it and each open truncates what the others have written.          *)
THEOREM QuietFilesAreWhole == Spec => []WholeWhenQuiet
<1>1. TInv => WholeWhenQuiet
  BY QuietIsWhole DEF TInv
<1> QED
  BY <1>1, TInvAlways, PTL
=============================================================================
