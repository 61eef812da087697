------------------------ MODULE SizedTransferProofs ------------------------
(***************************************************************************)
(* Theorems about SizedTransfer, for any files, sizes, bases and ways to   *)
(* cut the header and the file into reads and writes.                      *)
(*                                                                         *)
(* Seen from the server, the client is that of FileTransfer, which has     *)
(* read the bytes of the header as well: the invariant of                  *)
(* FileTransferProofs holds with the bytes of both for its offset, of a    *)
(* client that keeps nothing.  The second part is about the numbers: what  *)
(* the server writes as digits, atoi reads back.                           *)
(***************************************************************************)
EXTENDS SizedTransfer, SequenceTheorems, WellFoundedInduction, TLAPS

offset == [c \in Client |-> hdr[c] + off[c]]

F == INSTANCE FileTransferProofs
       WITH off  <- offset,
            disk <- [dir \in Directory |-> [f \in File |-> <<>>]],
            fdes <- [c \in Client |-> FALSE],
            mode <- [dir \in Directory |-> [f \in File |-> "readonly"]]

Sizes == hdr \in [Client -> 0..Buffer] /\ off \in [Client -> Nat]

FInv == Sizes /\ F!FInv

LEMMA BufferType == Buffer \in Nat /\ Buffer > 0
BY SizeAssumption

LEMMA SizedInitFInv == SizedInit => FInv
<1> SUFFICES ASSUME SizedInit PROVE FInv
  OBVIOUS
<1>1. Sizes
  BY BufferType DEF SizedInit, Init, Sizes
<1>2. offset = [c \in Client |-> 0]
  BY DEF SizedInit, Init, offset
<1>3. F!Typed
  BY <1>2 DEF SizedInit, Init, F!Typed
<1>4. F!Places
  BY NoneAssumption DEF SizedInit, Init, F!Places, F!Held, F!Running
<1>5. F!Downloads
  BY <1>2 DEF SizedInit, Init, F!Downloads, F!Download
<1>6. F!OnlySourceBytes
  <2>1. ASSUME NEW f PROVE Len(F!Stored(f)) \in Nat
    BY F!StoredBytes, NoneAssumption, ContentAssumption, DirectoryAssumption, SizeAssumption
  <2> QED
    BY <2>1 DEF F!OnlySourceBytes
<1> QED
  BY <1>1, <1>3, <1>4, <1>5, <1>6 DEF FInv, F!FInv

(* How a step changes the bytes taken.                                     *)
LEMMA SameOffset ==
  ASSUME UNCHANGED <<hdr, off>>
  PROVE  UNCHANGED offset
BY DEF offset

LEMMA NextStep ==
  ASSUME FInv, F!Next, Sizes'
  PROVE  FInv'
BY F!StepFInv, NoneAssumption, ContentAssumption, DirectoryAssumption, SizeAssumption
   DEF FInv

LEMMA ServerIsServer ==
  ASSUME FInv, UNCHANGED hdr,
         \/ \E c \in Client, f \in File : Connect(c, f)
         \/ \E c \in Client : FailToAsk(c)
         \/ \E c \in Client : KillClient(c)
         \/ Accept
         \/ CloseNewsockfd
         \/ \E c \in Client : ReadRequest(c)
         \/ \E c \in Client : SendChunk(c)
         \/ \E c \in Client : Exit(c)
         \/ KillServer
  PROVE  F!Next /\ Sizes'
<1>1. ASSUME NEW c \in Client, NEW f \in File, Connect(c, f) PROVE F!Next /\ Sizes'
  <2>1. F!Connect(c, f)
    BY <1>1, SameOffset DEF Connect, F!Connect
  <2> QED
    BY <1>1, <2>1 DEF F!Next, Connect, FInv, Sizes
<1>2. ASSUME NEW c \in Client, FailToAsk(c) PROVE F!Next /\ Sizes'
  <2>1. F!FailToAsk(c)
    BY <1>2, SameOffset
       DEF FailToAsk, F!FailToAsk, F!serverVars, serverVars, Held, F!Held, Running, F!Running
  <2> QED
    BY <1>2, <2>1 DEF F!Next, FailToAsk, FInv, Sizes
<1>3. ASSUME NEW c \in Client, KillClient(c) PROVE F!Next /\ Sizes'
  <2>1. F!KillClient(c)
    BY <1>3, SameOffset DEF KillClient, F!KillClient, F!serverVars, serverVars, Fails, F!Fails
  <2> QED
    BY <1>3, <2>1 DEF F!Next, KillClient, FInv, Sizes
<1>4. ASSUME Accept PROVE F!Next /\ Sizes'
  <2>1. F!Cardinality(F!Running) = Cardinality(Running)
    BY DEF Running, F!Running, Cardinality, F!Cardinality
  <2>2. UNCHANGED offset /\ UNCHANGED <<up, pos, zombies, clientVars, request, stream>>
    BY <1>4, SameOffset DEF Accept, clientVars
  <2>3. F!Accept
    BY <1>4, <2>1, <2>2 DEF Accept, F!Accept, F!clientVars, clientVars
  <2> QED
    BY <1>4, <2>3 DEF F!Next, Accept, clientVars, FInv, Sizes
<1>5. ASSUME CloseNewsockfd PROVE F!Next /\ Sizes'
  <2>1. F!CloseNewsockfd
    BY <1>5, SameOffset DEF CloseNewsockfd, F!CloseNewsockfd, F!clientVars, clientVars
  <2> QED
    BY <1>5, <2>1 DEF F!Next, CloseNewsockfd, clientVars, FInv, Sizes
<1>6. ASSUME NEW c \in Client, ReadRequest(c) PROVE F!Next /\ Sizes'
  <2>1. F!ReadRequest(c)
    BY <1>6, SameOffset DEF ReadRequest, F!ReadRequest, F!clientVars, clientVars, Ends, F!Ends
  <2> QED
    BY <1>6, <2>1 DEF F!Next, ReadRequest, clientVars, FInv, Sizes
<1>7. ASSUME NEW c \in Client, SendChunk(c) PROVE F!Next /\ Sizes'
  <2>1. Chunk(c) = F!Chunk(c)
    BY DEF Chunk, F!Chunk, Stored, F!Stored
  <2>2. F!SendChunk(c)
    BY <1>7, <2>1, SameOffset DEF SendChunk, F!SendChunk, F!clientVars, clientVars
  <2> QED
    BY <1>7, <2>2 DEF F!Next, SendChunk, clientVars, FInv, Sizes
<1>8. ASSUME NEW c \in Client, Exit(c) PROVE F!Next /\ Sizes'
  <2>1. Chunk(c) = F!Chunk(c)
    BY DEF Chunk, F!Chunk, Stored, F!Stored
  <2>2. F!Exit(c)
    BY <1>8, <2>1, SameOffset DEF Exit, F!Exit, F!clientVars, clientVars, Ends, F!Ends
  <2> QED
    BY <1>8, <2>2 DEF F!Next, Exit, clientVars, FInv, Sizes
<1>9. ASSUME KillServer PROVE F!Next /\ Sizes'
  <2>1. F!KillServer
    BY <1>9, SameOffset DEF KillServer, F!KillServer, F!clientVars, clientVars, Running, F!Running
  <2> QED
    BY <1>9, <2>1 DEF F!Next, KillServer, clientVars, FInv, Sizes
<1> QED
  BY <1>1, <1>2, <1>3, <1>4, <1>5, <1>6, <1>7, <1>8, <1>9

(* An empty directory: the client of F opens nothing, and writes nothing.  *)
LEMMA AskIsAsk ==
  ASSUME FInv, NEW c \in Client, SizedAsk(c)
  PROVE  F!Next /\ Sizes'
<1>1. offset' = [offset EXCEPT ![c] = 0]
  <2>1. /\ hdr' = [hdr EXCEPT ![c] = 0] /\ off' = [off EXCEPT ![c] = 0]
        /\ hdr \in [Client -> 0..Buffer] /\ off \in [Client -> Nat]
    BY DEF SizedAsk, Ask, FInv, Sizes
  <2>2. \A o \in Client : hdr'[o] + off'[o] = IF o = c THEN 0 ELSE hdr[o] + off[o]
    BY <2>1
  <2> QED
    BY <2>2 DEF offset
<1>2. DirectoryOf[c] \in Directory /\ file[c] \in File
  BY DirectoryAssumption DEF SizedAsk, Ask, FInv, F!FInv, F!Downloads, F!Download
<1>3. F!Open(c)
  BY <1>2 DEF F!Open
<1>4. F!Held(c) = Held(c)
  BY DEF Held, F!Held, Running, F!Running
<1>5. F!Ask(c)
  BY <1>1, <1>3, <1>4 DEF SizedAsk, Ask, F!Ask, F!serverVars, serverVars
<1>6. Sizes'
  BY BufferType DEF SizedAsk, Ask, FInv, Sizes
<1> QED
  BY <1>5, <1>6 DEF F!Next

(* The read of the header, and any other read, is a read of F.             *)
LEMMA ReadIsReceive ==
  ASSUME FInv, NEW c \in Client, NEW n \in 1..Buffer, n <= Len(stream[c]),
         pc[c] = "reading", offset' = [offset EXCEPT ![c] = @ + n],
         stream' = [stream EXCEPT ![c] = SubSeq(@, n + 1, Len(@))],
         UNCHANGED <<serverVars, pc, file, request, incomplete, downloads>>
  PROVE  F!Next
<1>1. n <= Buffer
  BY BufferType
<1>2. F!Copies(c, n, offset[c])
  BY <1>1 DEF F!Copies, F!serverVars, serverVars
<1>3. F!Receive(c)
  BY <1>2 DEF F!Receive
<1> QED
  BY <1>3 DEF F!Next

LEMMA ReadHeaderIsReceive ==
  ASSUME FInv, NEW c \in Client, ReadHeader(c)
  PROVE  F!Next /\ Sizes'
<1>1. PICK n \in 1..Buffer :
        /\ n <= Len(stream[c])
        /\ stream' = [stream EXCEPT ![c] = SubSeq(@, n + 1, Len(@))]
        /\ hdr' = [hdr EXCEPT ![c] = n]
  BY DEF ReadHeader
<1>2. /\ pc[c] = "reading" /\ hdr[c] = 0
      /\ UNCHANGED <<serverVars, pc, file, off, request, incomplete, downloads>>
  BY DEF ReadHeader, clientVars
<1>3. offset' = [offset EXCEPT ![c] = @ + n]
  <2>1. hdr \in [Client -> 0..Buffer] /\ off \in [Client -> Nat] /\ n \in Nat
    BY BufferType DEF FInv, Sizes
  <2>2. \A o \in Client : hdr'[o] + off'[o] = IF o = c THEN (hdr[o] + off[o]) + n
                                             ELSE hdr[o] + off[o]
    BY <1>1, <1>2, <2>1, BufferType
  <2> QED
    BY <2>2 DEF offset
<1>4. F!Next
  BY <1>1, <1>2, <1>3, ReadIsReceive
<1>5. Sizes'
  BY <1>1, <1>2, BufferType DEF FInv, Sizes
<1> QED
  BY <1>4, <1>5

LEMMA SizedCopies ==
  ASSUME FInv, NEW c \in Client, NEW n \in 1..Buffer, Copies(c, n, off[c]), UNCHANGED hdr
  PROVE  /\ n <= Len(stream[c]) /\ stream' = [stream EXCEPT ![c] = SubSeq(@, n + 1, Len(@))]
         /\ offset' = [offset EXCEPT ![c] = @ + n]
         /\ UNCHANGED <<serverVars, file, request, downloads>>
         /\ Sizes'
<1>1. hdr \in [Client -> 0..Buffer] /\ off \in [Client -> Nat] /\ n \in Nat
  BY BufferType DEF FInv, Sizes
<1>2. off' = [off EXCEPT ![c] = @ + n]
  BY DEF Copies
<1>3. \A o \in Client : hdr'[o] + off'[o] = IF o = c THEN (hdr[o] + off[o]) + n
                                           ELSE hdr[o] + off[o]
  BY <1>1, <1>2, BufferType
<1>4. offset' = [offset EXCEPT ![c] = @ + n]
  BY <1>3 DEF offset
<1>5. Sizes'
  BY <1>1, <1>2 DEF Sizes
<1> QED
  BY <1>4, <1>5 DEF Copies

(* A read whose percentage ends the client.                                *)
LEMMA LastReadFInv ==
  ASSUME FInv, NEW c \in Client, NEW n \in 1..Buffer, Copies(c, n, off[c]), UNCHANGED hdr,
         pc[c] = "reading", pc' = [pc EXCEPT ![c] = "killed"]
  PROVE  FInv'
<1>1. /\ n <= Len(stream[c]) /\ stream' = [stream EXCEPT ![c] = SubSeq(@, n + 1, Len(@))]
      /\ offset' = [offset EXCEPT ![c] = @ + n]
      /\ UNCHANGED <<serverVars, file, request, downloads>>
      /\ Sizes'
  BY SizedCopies
<1>2. n \in Nat /\ n > 0
  BY BufferType
<1>3. stream \in [Client -> Seq(Nat)] /\ offset \in [Client -> Nat]
  BY DEF FInv, F!FInv, F!Typed
<1>4. SubSeq(stream[c], n + 1, Len(stream[c])) \in Seq(Nat)
  BY <1>1, <1>2, <1>3
<1>5. F!Typed'
  <2>1. stream' \in [Client -> Seq(Nat)] /\ offset' \in [Client -> Nat]
    BY <1>1, <1>2, <1>3, <1>4
  <2> QED
    BY <1>1, <2>1 DEF FInv, F!FInv, F!Typed, serverVars
<1>6. F!Places'
  BY <1>1 DEF FInv, F!FInv, F!Typed, F!Places, F!Held, F!Running, serverVars
<1>7. child[c] \notin {"none", "reading"}
  BY <1>1, <1>2 DEF FInv, F!FInv, F!Downloads, F!Download
<1>8. ASSUME NEW o \in Client PROVE F!Download(o)'
  <2>1. CASE o = c
    BY <1>1, <1>7, <2>1 DEF FInv, F!FInv, F!Typed, F!Download, serverVars
  <2>2. CASE o # c
    <3>1. /\ offset'[o] = offset[o] /\ stream'[o] = stream[o] /\ pc'[o] = pc[o]
      BY <1>1, <1>3, <2>2 DEF FInv, F!FInv, F!Typed
    <3> QED
      BY <1>1, <3>1, F!SameDownload, NoneAssumption, ContentAssumption, DirectoryAssumption,
         SizeAssumption DEF FInv, F!FInv, F!Downloads, serverVars
  <2> QED
    BY <2>1, <2>2
<1>9. F!Downloads' /\ F!OnlySourceBytes'
  BY <1>8 DEF F!Downloads, FInv, F!FInv, F!OnlySourceBytes, F!Stored
<1> QED
  BY <1>1, <1>5, <1>6, <1>9 DEF FInv, F!FInv

LEMMA SizedReceiveFInv ==
  ASSUME FInv, NEW c \in Client, SizedReceive(c)
  PROVE  FInv'
<1>1. PICK n \in 1..Buffer : /\ Copies(c, n, off[c])
                             /\ \/ Shows(c, off[c] + n) /\ UNCHANGED <<pc, incomplete>>
                                \/ DividesByZero(c)
  BY DEF SizedReceive
<1>2. pc[c] = "reading" /\ UNCHANGED hdr
  BY DEF SizedReceive
<1>3. CASE DividesByZero(c)
  BY <1>1, <1>2, <1>3, LastReadFInv DEF DividesByZero
<1>4. CASE ~DividesByZero(c)
  <2>1. UNCHANGED <<pc, incomplete>>
    BY <1>1, <1>4
  <2>2. F!Next /\ Sizes'
    BY <1>1, <1>2, <2>1, SizedCopies, ReadIsReceive
  <2> QED
    BY <2>2, NextStep
<1> QED
  BY <1>3, <1>4

LEMMA SizedEndOfFileFInv ==
  ASSUME FInv, NEW c \in Client, SizedEndOfFile(c)
  PROVE  FInv'
<1>1. Sizes' /\ UNCHANGED offset
  BY DEF SizedEndOfFile, EndOfFile, offset, FInv, Sizes
<1>2. F!Held(c) = Held(c)
  BY DEF Held, F!Held, Running, F!Running
<1>3. CASE /\ DividesByZero(c)
           /\ UNCHANGED <<serverVars, file, off, fdes, disk, mode, downloads, request, stream>>
  <2>1. /\ pc' = [pc EXCEPT ![c] = "killed"]
        /\ UNCHANGED <<backlog, newsockfd, child, pos, file, request, stream>>
    BY <1>3 DEF DividesByZero, serverVars
  <2> QED
    BY <1>1, <2>1, F!KilledFInv, NoneAssumption, ContentAssumption, DirectoryAssumption,
       SizeAssumption DEF FInv
<1>4. CASE EndOfFile(c)
  <2>1. F!EndOfFile(c)
    BY <1>1, <1>2, <1>4 DEF EndOfFile, F!EndOfFile, F!serverVars, serverVars, Fails, F!Fails
  <2> QED
    BY <1>1, <2>1, NextStep DEF F!Next
<1> QED
  BY <1>3, <1>4 DEF SizedEndOfFile

LEMMA StepFInv == FInv /\ [SizedNext]_sizedVars => FInv'
<1> SUFFICES ASSUME FInv, [SizedNext]_sizedVars PROVE FInv'
  OBVIOUS
<1>1. ASSUME NEW c \in Client, SizedAsk(c) PROVE FInv'
  BY <1>1, AskIsAsk, NextStep
<1>2. ASSUME NEW c \in Client, ReadHeader(c) PROVE FInv'
  BY <1>2, ReadHeaderIsReceive, NextStep
<1>3. ASSUME NEW c \in Client, SizedReceive(c) PROVE FInv'
  BY <1>3, SizedReceiveFInv
<1>4. ASSUME NEW c \in Client, SizedEndOfFile(c) PROVE FInv'
  BY <1>4, SizedEndOfFileFInv
<1>5. ASSUME UNCHANGED sizedVars PROVE FInv'
  <2>1. UNCHANGED offset /\ Sizes'
    BY <1>5 DEF sizedVars, vars, clientVars, offset, FInv, Sizes
  <2>2. UNCHANGED F!vars
    BY <1>5, <2>1 DEF sizedVars, vars, serverVars, clientVars,
                      F!vars, F!serverVars, F!clientVars
  <2> QED
    BY <2>1, <2>2, F!StepFInv, NoneAssumption, ContentAssumption, DirectoryAssumption,
       SizeAssumption DEF FInv
<1> QED
  BY <1>1, <1>2, <1>3, <1>4, <1>5, ServerIsServer, NextStep
     DEF SizedNext, ServerStep, OtherStep
-----------------------------------------------------------------------------
(* Clients that open their file with a mode always get to write it.        *)
Opened ==
  /\ disk \in [Directory -> [File -> Seq(Nat)]]
  /\ mode \in [Directory -> [File -> {"absent", "writable"}]]
  /\ fdes \in [Client -> BOOLEAN]
  /\ \A c \in Client : pc[c] = "reading" => fdes[c] = TRUE
  /\ percent = [c \in Client |-> percent[c]]

(* What a client has taken is a part of what a child may send, the file it *)
(* has written what follows its header, and a client that has come to the  *)
(* end was told a size, and has shown the percentage of what it wrote.     *)
Follows(c) ==
  /\ file[c] \in File
  /\ hdr[c] + off[c] <= Len(Stored(file[c]))
  /\ hdr[c] = 0 => off[c] = 0
  /\ pc[c] = "idle" => file_size(c) # 0 /\ percent[c] = Percent(off[c], file_size(c))
  /\ Download(c) = SubSeq(Stored(file[c]), hdr[c] + 1, hdr[c] + off[c])

HInv == FInv /\ Opened /\ \A c \in Client : Downloading(c) => Follows(c)

(* Clients that download into a directory each.                            *)
OwnDirectories == \A c, d \in Client : DirectoryOf[c] = DirectoryOf[d] => c = d

LEMMA StoredBytes ==
  ASSUME NEW f
  PROVE  Stored(f) \in Seq(Nat) /\ Len(Stored(f)) \in Nat
<1>1. PICK stored \in SUBSET File : Content \in [stored -> Seq(Nat)]
  BY ContentAssumption
<1>2. Stored(f) \in Seq(Nat)
  BY <1>1 DEF Stored
<1> QED
  BY <1>2

LEMMA InitHInv == SizedInit => HInv
<1> SUFFICES ASSUME SizedInit PROVE HInv
  OBVIOUS
<1>1. Opened
  BY DEF SizedInit, Init, Opened
<1>2. \A c \in Client : ~Downloading(c)
  BY DEF SizedInit, Init, Downloading
<1> QED
  BY <1>1, <1>2, SizedInitFInv DEF HInv

(* A client that a step leaves where it is, with its file.                 *)
LEMMA SameClient ==
  ASSUME HInv, NEW c \in Client, Downloading(c)',
         Downloading(c), pc'[c] = pc[c], file'[c] = file[c], hdr'[c] = hdr[c], off'[c] = off[c],
         percent'[c] = percent[c],
         disk'[DirectoryOf[c]][file[c]] = disk[DirectoryOf[c]][file[c]]
  PROVE  Follows(c)'
<1>1. file_size(c)' = file_size(c)
  BY DEF file_size, Stored, atoi
<1>2. Download(c)' = Download(c)
  BY DEF Download
<1> QED
  BY <1>1, <1>2 DEF HInv, Follows, Stored, Percent, Wrapped

(* The server's steps, and those that end a client, leave all files and    *)
(* all that are still downloading as they are.                             *)
LEMMA QuietHInv ==
  ASSUME HInv, FInv', UNCHANGED <<hdr, percent, off, fdes, disk, mode>>,
         \A c \in Client : Downloading(c)' =>
           Downloading(c) /\ pc'[c] = pc[c] /\ file'[c] = file[c]
  PROVE  HInv'
<1>1. Opened'
  BY DEF HInv, Opened, Downloading
<1>2. ASSUME NEW c \in Client, Downloading(c)'
      PROVE  Follows(c)'
  BY <1>2, SameClient
<1> QED
  BY <1>1, <1>2 DEF HInv

LEMMA ServerHInv ==
  ASSUME HInv, FInv', UNCHANGED <<hdr, percent>>,
         \/ \E c \in Client, f \in File : Connect(c, f)
         \/ \E c \in Client : FailToAsk(c)
         \/ \E c \in Client : KillClient(c)
         \/ Accept
         \/ CloseNewsockfd
         \/ \E c \in Client : ReadRequest(c)
         \/ \E c \in Client : SendChunk(c)
         \/ \E c \in Client : Exit(c)
         \/ KillServer
  PROVE  HInv'
<1>1. ASSUME NEW c \in Client, NEW f \in File, Connect(c, f) PROVE HInv'
  <2>1. /\ pc'[c] = "connected" /\ UNCHANGED <<hdr, percent, off, fdes, disk, mode>>
        /\ \A o \in Client \ {c} : pc'[o] = pc[o] /\ file'[o] = file[o]
    BY <1>1 DEF Connect, HInv, FInv, F!FInv, F!Typed
  <2> QED
    BY <2>1, QuietHInv DEF Downloading
<1>2. ASSUME NEW c \in Client, pc' = [pc EXCEPT ![c] = "killed"],
             UNCHANGED <<hdr, percent, off, fdes, disk, mode, file>>
      PROVE  HInv'
  <2>1. pc'[c] = "killed" /\ \A o \in Client \ {c} : pc'[o] = pc[o] /\ file'[o] = file[o]
    BY <1>2 DEF HInv, FInv, F!FInv, F!Typed
  <2> QED
    BY <1>2, <2>1, QuietHInv DEF Downloading
<1>3. ASSUME NEW c \in Client, FailToAsk(c) \/ KillClient(c) PROVE HInv'
  BY <1>2, <1>3 DEF FailToAsk, KillClient
<1>4. ASSUME UNCHANGED <<clientVars, hdr, percent>> PROVE HInv'
  BY <1>4, QuietHInv DEF clientVars, Downloading
<1>5. ASSUME \/ Accept
             \/ CloseNewsockfd
             \/ \E c \in Client : \/ ReadRequest(c)
                                 \/ SendChunk(c)
                                 \/ Exit(c)
             \/ KillServer
      PROVE  UNCHANGED <<clientVars, hdr, percent>>
  BY <1>5 DEF Accept, CloseNewsockfd, ReadRequest, SendChunk, Exit, KillServer
<1> QED
  BY <1>1, <1>3, <1>4, <1>5

(* What one client's step must say of its own download and of the files.   *)
LEMMA OneHInv ==
  ASSUME HInv, FInv', Opened', OwnDirectories, NEW c \in Client,
         Downloading(c)' => Follows(c)',
         \A o \in Client \ {c} :
           /\ pc'[o] = pc[o] /\ file'[o] = file[o] /\ hdr'[o] = hdr[o] /\ off'[o] = off[o]
           /\ percent'[o] = percent[o],
         \A d \in Directory, f \in File : d # DirectoryOf[c] => disk'[d][f] = disk[d][f]
  PROVE  HInv'
<1>1. ASSUME NEW o \in Client \ {c}, Downloading(o)'
      PROVE  Follows(o)'
  <2>1. /\ Downloading(o) /\ pc'[o] = pc[o] /\ file'[o] = file[o]
        /\ hdr'[o] = hdr[o] /\ off'[o] = off[o] /\ percent'[o] = percent[o]
    BY <1>1 DEF Downloading
  <2>2. file[o] \in File
    BY <2>1 DEF HInv, Follows
  <2>3. DirectoryOf[o] \in Directory /\ DirectoryOf[o] # DirectoryOf[c]
    BY DirectoryAssumption DEF OwnDirectories
  <2>4. disk'[DirectoryOf[o]][file[o]] = disk[DirectoryOf[o]][file[o]]
    BY <2>2, <2>3
  <2> QED
    BY <1>1, <2>1, <2>4, SameClient
<1> QED
  BY <1>1 DEF HInv

LEMMA AskHInv ==
  ASSUME HInv, FInv', OwnDirectories, NEW c \in Client, SizedAsk(c)
  PROVE  HInv'
<1> DEFINE d == DirectoryOf[c]
           f == file[c]
<1>1. d \in Directory /\ f \in File
  BY DirectoryAssumption DEF SizedAsk, Ask, HInv, FInv, F!FInv, F!Downloads, F!Download
<1>2. /\ pc'[c] = "reading" /\ hdr'[c] = 0 /\ off'[c] = 0 /\ file'[c] = f
      /\ \A o \in Client \ {c} :
           /\ pc'[o] = pc[o] /\ file'[o] = file[o] /\ hdr'[o] = hdr[o] /\ off'[o] = off[o]
           /\ percent'[o] = percent[o]
      /\ percent' = [o \in Client |-> percent'[o]]
  <2>1. /\ pc'[c] = "reading" /\ hdr'[c] = 0 /\ off'[c] = 0 /\ file'[c] = f
        /\ \A o \in Client \ {c} :
             /\ pc'[o] = pc[o] /\ file'[o] = file[o] /\ hdr'[o] = hdr[o] /\ off'[o] = off[o]
    BY DEF SizedAsk, Ask, HInv, FInv, F!FInv, F!Typed, Sizes
  <2>2. /\ percent = [o \in Client |-> percent[o]]
        /\ percent' = [percent EXCEPT ![c] = 0]
    BY DEF SizedAsk, HInv, Opened
  <2> QED
    BY <2>1, <2>2
<1>3. /\ disk \in [Directory -> [File -> Seq(Nat)]]
      /\ mode \in [Directory -> [File -> {"absent", "writable"}]]
      /\ fdes \in [Client -> BOOLEAN]
      /\ \A o \in Client : pc[o] = "reading" => fdes[o] = TRUE
  BY DEF HInv, Opened
<1>4. mode[d][f] # "readonly"
  <2>1. mode[d][f] \in {"absent", "writable"}
    <3> HIDE DEF d, f
    <3> QED
      BY <1>1, <1>3
  <2> QED
    BY <2>1
<1>5. /\ fdes' = [fdes EXCEPT ![c] = TRUE]
      /\ disk' = [disk EXCEPT ![d][f] = <<>>]
      /\ mode' = [mode EXCEPT ![d][f] = "writable"]
  <2>1. Open(c)
    BY DEF SizedAsk, Ask
  <2> QED
    BY <1>4, <2>1, ModeAssumption DEF Open
<1> HIDE DEF d, f
<1>6. Opened'
  <2>1. mode' \in [Directory -> [File -> {"absent", "writable"}]]
    BY <1>1, <1>3, <1>5
  <2>2. disk' \in [Directory -> [File -> Seq(Nat)]]
    <3>1. <<>> \in Seq(Nat)
      OBVIOUS
    <3>2. [disk[d] EXCEPT ![f] = <<>>] \in [File -> Seq(Nat)]
      BY <1>1, <1>3, <3>1
    <3>3. disk' = [disk EXCEPT ![d] = [disk[d] EXCEPT ![f] = <<>>]]
      BY <1>5
    <3> QED
      BY <1>1, <1>3, <3>2, <3>3
  <2>3. fdes' \in [Client -> BOOLEAN] /\ \A o \in Client : pc'[o] = "reading" => fdes'[o] = TRUE
    BY <1>2, <1>3, <1>5
  <2> QED
    BY <1>2, <2>1, <2>2, <2>3 DEF Opened
<1>7. disk'[d][f] = <<>>
  BY <1>1, <1>3, <1>5
<1>8. \A e \in Directory, g \in File : e # d => disk'[e][g] = disk[e][g]
  BY <1>1, <1>3, <1>5
<1>9. Len(Stored(f)) \in Nat /\ SubSeq(Stored(f), 1, 0) = <<>>
  BY StoredBytes
<1>10. Follows(c)'
  BY <1>1, <1>2, <1>7, <1>9 DEF Follows, Download, Stored, d
<1> QED
  BY <1>2, <1>6, <1>8, <1>10, OneHInv DEF d

(* The bytes that a client may read are those that follow what it has      *)
(* taken, of the file it asked for.                                        *)
LEMMA OnTheWay ==
  ASSUME HInv, NEW c \in Client, pc[c] = "reading"
  PROVE  /\ file[c] \in File /\ stream[c] \in Seq(Nat) /\ Len(stream[c]) \in Nat
         /\ hdr[c] \in Nat /\ off[c] \in Nat
         /\ (hdr[c] + off[c]) + Len(stream[c]) <= Len(Stored(file[c]))
         /\ \A i \in 1..Len(stream[c]) :
              stream[c][i] = Stored(file[c])[(hdr[c] + off[c]) + i]
<1>1. F!Typed /\ F!Download(c)
  BY DEF HInv, FInv, F!FInv, F!Downloads
<1>2. offset[c] = hdr[c] + off[c] /\ F!Stored(file[c]) = Stored(file[c])
  BY DEF offset, Stored, F!Stored
<1>3. /\ file[c] \in File
      /\ offset[c] + Len(stream[c]) <= Len(Stored(file[c]))
      /\ \A i \in 1..Len(stream[c]) : stream[c][i] = Stored(file[c])[offset[c] + i]
  BY <1>1, <1>2 DEF F!Download
<1>4. stream[c] \in Seq(Nat) /\ Len(stream[c]) \in Nat
  BY <1>1 DEF F!Typed
<1>5. hdr[c] \in Nat /\ off[c] \in Nat
  BY BufferType DEF HInv, FInv, Sizes
<1> QED
  BY <1>2, <1>3, <1>4, <1>5

LEMMA ReadHeaderHInv ==
  ASSUME HInv, FInv', OwnDirectories, NEW c \in Client, ReadHeader(c)
  PROVE  HInv'
<1>1. PICK n \in 1..Buffer : n <= Len(stream[c]) /\ hdr' = [hdr EXCEPT ![c] = n]
  BY DEF ReadHeader
<1>2. /\ pc[c] = "reading" /\ hdr[c] = 0
      /\ UNCHANGED <<pc, file, off, fdes, disk, mode, percent>>
  BY DEF ReadHeader, clientVars
<1>3. n \in Nat /\ n > 0
  BY BufferType
<1>4. hdr'[c] = n /\ \A o \in Client \ {c} : hdr'[o] = hdr[o]
  BY <1>1 DEF HInv, FInv, Sizes
<1>5. Opened'
  BY <1>2 DEF HInv, Opened
<1>6. Downloading(c)
  BY <1>2 DEF Downloading
<1>7. Follows(c)
  BY <1>6 DEF HInv
<1>8. off[c] = 0 /\ file[c] \in File
  BY <1>2, <1>7 DEF Follows
<1>9. 0 + n <= Len(Stored(file[c])) /\ Len(Stored(file[c])) \in Nat
  <2>1. /\ Len(stream[c]) \in Nat /\ Len(Stored(file[c])) \in Nat
        /\ (hdr[c] + off[c]) + Len(stream[c]) <= Len(Stored(file[c]))
    BY <1>2, OnTheWay, StoredBytes
  <2>2. (0 + 0) + Len(stream[c]) <= Len(Stored(file[c]))
    BY <1>2, <1>8, <2>1
  <2> QED
    BY <1>1, <1>3, <2>1, <2>2
<1>10. Download(c) = <<>> /\ SubSeq(Stored(file[c]), n + 1, n) = <<>>
  <2>1. Download(c) = SubSeq(Stored(file[c]), 0 + 1, 0 + 0)
    BY <1>2, <1>7, <1>8 DEF Follows
  <2>2. Stored(file[c]) \in Seq(Nat)
    BY StoredBytes
  <2> QED
    BY <1>3, <2>1, <2>2, SubSeqEmpty
<1>11. Follows(c)'
  BY <1>2, <1>3, <1>4, <1>8, <1>9, <1>10 DEF Follows, Download, Stored
<1> QED
  BY <1>2, <1>4, <1>5, <1>11, OneHInv

(* The n bytes of s that follow the first p of them.                       *)
IsPart(w, s, p, n) == w \in Seq(Nat) /\ Len(w) = n /\ \A i \in 1..n : w[i] = s[p + i]

LEMMA IsSubSeq ==
  ASSUME NEW s \in Seq(Nat), NEW p \in Nat, NEW t \in Nat, p <= t, t <= Len(s),
         NEW n, n = t - p
  PROVE  /\ IsPart(SubSeq(s, p + 1, t), s, p, n)
         /\ \A w : IsPart(w, s, p, n) => w = SubSeq(s, p + 1, t)
<1> DEFINE v == SubSeq(s, p + 1, t)
<1>1. v \in Seq(Nat) /\ Len(v) = t - p /\ \A i \in 1..(t - p) : v[i] = s[p + i]
  BY F!Part, NoneAssumption, ContentAssumption, DirectoryAssumption, SizeAssumption
<1> HIDE DEF v
<1>2. IsPart(v, s, p, n)
  BY <1>1 DEF IsPart
<1>3. ASSUME NEW w, IsPart(w, s, p, n) PROVE w = v
  <2>1. w \in Seq(Nat) /\ Len(w) = Len(v) /\ \A i \in 1..Len(w) : w[i] = v[i]
    BY <1>1, <1>3 DEF IsPart
  <2> QED
    BY <1>1, <2>1, SeqEqual
<1> QED
  BY <1>2, <1>3 DEF v

LEMMA Beginning ==
  ASSUME NEW st, NEW s, NEW p \in Nat, NEW m \in Nat, IsPart(st, s, p, m), NEW n \in Nat, n <= m
  PROVE  IsPart(SubSeq(st, 1, n), s, p, n)
<1> DEFINE v == SubSeq(st, 0 + 1, n)
<1>1. /\ st \in Seq(Nat) /\ Len(st) = m /\ 0 \in Nat /\ 0 <= n /\ n <= Len(st)
      /\ n - 0 = n /\ 0 + 1 = 1
  BY DEF IsPart
<1>2. v \in Seq(Nat) /\ Len(v) = n /\ \A i \in 1..n : v[i] = st[0 + i]
  BY <1>1, F!Part, NoneAssumption, ContentAssumption, DirectoryAssumption, SizeAssumption
<1> HIDE DEF v
<1>3. \A i \in 1..n : i \in 1..m /\ 0 + i = i
  OBVIOUS
<1>4. IsPart(v, s, p, n)
  BY <1>2, <1>3 DEF IsPart
<1> QED
  BY <1>1, <1>4 DEF v

(* A write of the bytes that come next to the end of what is there.        *)
LEMMA WriteAppends ==
  ASSUME NEW s, NEW h \in Nat, NEW o \in Nat, NEW n \in Nat, NEW w, NEW bytes, n > 0,
         NEW k \in Nat, k = h + o, NEW m, m = o + n,
         IsPart(w, s, h, o), IsPart(bytes, s, k, n)
  PROVE  IsPart(WriteAt(w, o, bytes), s, h, m)
<1> DEFINE at(i) == IF i \in o + 1..o + n THEN bytes[i - o]
                    ELSE IF i <= o THEN w[i] ELSE Hole
           v == [i \in 1..o + n |-> at(i)]
<1>1. /\ w \in Seq(Nat) /\ Len(w) = o /\ \A i \in 1..o : w[i] \in Nat /\ w[i] = s[h + i]
      /\ bytes \in Seq(Nat) /\ Len(bytes) = n
      /\ \A i \in 1..n : bytes[i] \in Nat /\ bytes[i] = s[k + i]
  <2> HIDE DEF v, at
  <2>1. /\ w \in Seq(Nat) /\ Len(w) = o /\ bytes \in Seq(Nat) /\ Len(bytes) = n
        /\ \A i \in 1..o : w[i] = s[h + i]
        /\ \A i \in 1..n : bytes[i] = s[k + i]
    BY DEF IsPart
  <2>2. ASSUME NEW i \in 1..o PROVE w[i] \in Nat
    BY <2>1
  <2>3. ASSUME NEW i \in 1..n PROVE bytes[i] \in Nat
    BY <2>1
  <2> QED
    BY <2>1, <2>2, <2>3
<1>2. WriteAt(w, o, bytes) = v
  BY <1>1 DEF WriteAt
<1>3. ASSUME NEW i \in 1..o + n PROVE at(i) \in Nat /\ at(i) = s[h + i]
  <2>1. CASE i <= o
    <3>1. i \in 1..o /\ i \notin o + 1..o + n
      BY <2>1
    <3> QED
      BY <1>1, <2>1, <3>1
  <2>2. CASE ~(i <= o)
    <3>1. i - o \in 1..n /\ k + (i - o) = h + i /\ i \in o + 1..o + n
      BY <2>2
    <3>2. bytes[i - o] \in Nat /\ bytes[i - o] = s[k + (i - o)]
      BY <1>1, <3>1
    <3> QED
      BY <2>2, <3>1, <3>2
  <2> QED
    BY <2>1, <2>2
<1> HIDE DEF at
<1>4. v \in Seq(Nat) /\ Len(v) = o + n /\ \A i \in 1..o + n : v[i] = at(i)
  BY <1>3
<1> HIDE DEF v
<1>5. IsPart(v, s, h, m)
  BY <1>3, <1>4 DEF IsPart
<1> QED
  BY <1>2, <1>5

LEMMA SizedReceiveHInv ==
  ASSUME HInv, FInv', OwnDirectories, NEW c \in Client, SizedReceive(c)
  PROVE  HInv'
<1>1. PICK n \in 1..Buffer : /\ Copies(c, n, off[c])
                             /\ \/ Shows(c, off[c] + n) /\ UNCHANGED <<pc, incomplete>>
                                \/ DividesByZero(c)
  BY DEF SizedReceive
<1>2. /\ pc[c] = "reading" /\ hdr' = hdr /\ file' = file /\ fdes' = fdes /\ mode' = mode
      /\ pc' = pc \/ pc' = [pc EXCEPT ![c] = "killed"]
      /\ n <= Len(stream[c]) /\ off' = [off EXCEPT ![c] = @ + n]
      /\ disk' = IF fdes[c]
                 THEN [disk EXCEPT ![DirectoryOf[c]][file[c]] =
                         WriteAt(@, off[c], SubSeq(stream[c], 1, n))]
                 ELSE disk
      /\ percent' = percent \/ \E p : percent' = [percent EXCEPT ![c] = p]
  BY <1>1 DEF SizedReceive, Copies, Shows, DividesByZero
<1>3. PICK d \in Directory : d = DirectoryOf[c]
  BY DirectoryAssumption
<1>4. PICK f \in File : f = file[c]
  BY <1>2, OnTheWay
<1>5. PICK h \in Nat : h = hdr[c] /\ h > 0
  BY BufferType DEF SizedReceive, HInv, FInv, Sizes
<1>6. PICK o \in Nat : o = off[c]
  BY DEF HInv, FInv, Sizes
<1>7. PICK s \in Seq(Nat) : s = Stored(f)
  BY StoredBytes
<1>8. PICK st \in Seq(Nat) : st = stream[c]
  BY <1>2, OnTheWay
<1>9. n \in Nat /\ n > 0
  BY BufferType
<1>10. PICK l \in Nat : l = Len(st)
  BY <1>8
<1>11. PICK k \in Nat : k = h + o
  OBVIOUS
<1>12. PICK e \in Nat : e = h + (o + n)
  BY <1>9
<1>13. k + l <= Len(s) /\ IsPart(st, s, k, l) /\ n <= l
  BY <1>2, <1>4, <1>5, <1>6, <1>7, <1>8, <1>10, <1>11, OnTheWay DEF IsPart
<1>14. disk[d][f] = SubSeq(s, h + 1, k)
  <2>1. Follows(c)
    BY <1>2 DEF HInv, Downloading
  <2> QED
    BY <1>3, <1>4, <1>5, <1>6, <1>7, <1>11, <2>1 DEF Follows, Download
<1>15. PICK t : t = SubSeq(s, h + 1, e)
  OBVIOUS
<1>16. t \in Seq(Nat) /\ WriteAt(SubSeq(s, h + 1, k), o, SubSeq(st, 1, n)) = t /\ e <= Len(s)
  <2>1. PICK m \in Nat : m = o + n
    BY <1>9
  <2>2. PICK w : w = SubSeq(s, h + 1, k)
    OBVIOUS
  <2>3. Len(s) \in Nat
    BY LenProperties
  <2>4. h <= k /\ k <= Len(s) /\ h <= e /\ e <= Len(s) /\ o = k - h /\ m = e - h
    BY <1>9, <1>10, <1>11, <1>12, <1>13, <2>1, <2>3
  <2>5. IsPart(w, s, h, o)
    BY <2>2, <2>4, IsSubSeq
  <2>6. IsPart(t, s, h, m) /\ \A v : IsPart(v, s, h, m) => v = t
    BY <1>15, <2>4, IsSubSeq
  <2>7. PICK bytes : bytes = SubSeq(st, 1, n)
    OBVIOUS
  <2>8. IsPart(bytes, s, k, n)
    BY <1>9, <1>13, <2>7, Beginning
  <2>9. IsPart(WriteAt(w, o, bytes), s, h, m)
    BY <1>9, <1>11, <2>1, <2>5, <2>8, WriteAppends
  <2> QED
    BY <2>2, <2>4, <2>6, <2>7, <2>9 DEF IsPart
<1>17. /\ disk \in [Directory -> [File -> Seq(Nat)]] /\ fdes[c] = TRUE
       /\ disk[d] \in [File -> Seq(Nat)]
  BY <1>2 DEF HInv, Opened
<1>18. disk' = [disk EXCEPT ![d] = [disk[d] EXCEPT ![f] = t]]
  <2>1. WriteAt(disk[d][f], o, SubSeq(st, 1, n)) = t
    BY <1>14, <1>16
  <2> QED
    BY <1>2, <1>3, <1>4, <1>6, <1>8, <1>17, <2>1
<1>19. [disk[d] EXCEPT ![f] = t] \in [File -> Seq(Nat)]
  BY <1>16, <1>17
<1>20. /\ disk' \in [Directory -> [File -> Seq(Nat)]] /\ disk'[d][f] = t
       /\ \A x \in Directory, g \in File : x # d => disk'[x][g] = disk[x][g]
  BY <1>17, <1>18, <1>19
<1>21. /\ off'[c] = o + n
       /\ \A x \in Client \ {c} : /\ pc'[x] = pc[x] /\ file'[x] = file[x]
                                  /\ hdr'[x] = hdr[x] /\ off'[x] = off[x]
                                  /\ percent'[x] = percent[x]
       /\ percent' = [x \in Client |-> percent'[x]]
  <2>1. /\ percent' = [x \in Client |-> percent'[x]]
        /\ \A x \in Client \ {c} : percent'[x] = percent[x]
    <3>1. percent = [x \in Client |-> percent[x]]
      BY DEF HInv, Opened
    <3> QED
      BY <1>2, <3>1
  <2> QED
    BY <1>2, <1>6, <2>1 DEF HInv, FInv, Sizes, F!FInv, F!Typed
<1>22. pc'[c] \in {"reading", "killed"}
  BY <1>2 DEF HInv, FInv, F!FInv, F!Typed
<1>23. Opened'
  <2>1. \A x \in Client : pc'[x] = "reading" => pc[x] = "reading"
    BY <1>2, <1>21
  <2> QED
    BY <1>2, <1>20, <1>21, <2>1 DEF HInv, Opened
<1>24. Follows(c)'
  <2>1. file'[c] = f /\ hdr'[c] = h /\ Download(c)' = t /\ Stored(file[c])' = s
    BY <1>2, <1>3, <1>4, <1>5, <1>7, <1>20 DEF Download, Stored
  <2>2. h # 0
    BY <1>5
  <2>3. off'[c] = o + n /\ pc'[c] # "idle"
    BY <1>21, <1>22
  <2> QED
    BY <1>12, <1>15, <1>16, <2>1, <2>2, <2>3 DEF Follows
<1> QED
  BY <1>3, <1>20, <1>21, <1>23, <1>24, OneHInv

LEMMA SizedEndOfFileHInv ==
  ASSUME HInv, FInv', OwnDirectories, NEW c \in Client, SizedEndOfFile(c)
  PROVE  HInv'
<1>1. /\ pc[c] = "reading" /\ UNCHANGED <<hdr, off, file, fdes, disk, mode>>
  BY DEF SizedEndOfFile, EndOfFile
<1>2. /\ \/ pc' = [pc EXCEPT ![c] = "killed"] /\ percent' = percent
         \/ /\ pc' = [pc EXCEPT ![c] = "idle"] /\ file_size(c) # 0
            /\ percent' = [percent EXCEPT ![c] = Percent(off[c], file_size(c))]
      /\ percent = [o \in Client |-> percent[o]]
  BY DEF SizedEndOfFile, EndOfFile, DividesByZero, Shows, HInv, Opened
<1>3. /\ pc'[c] \in {"idle", "killed"}
      /\ pc'[c] = "idle" => /\ file_size(c) # 0
                            /\ percent'[c] = Percent(off[c], file_size(c))
      /\ \A o \in Client \ {c} : /\ pc'[o] = pc[o] /\ file'[o] = file[o]
                                 /\ hdr'[o] = hdr[o] /\ off'[o] = off[o]
                                 /\ percent'[o] = percent[o]
      /\ percent' = [o \in Client |-> percent'[o]]
  <2>1. PICK p : p = Percent(off[c], file_size(c))
    OBVIOUS
  <2>2. /\ percent' = percent \/ percent' = [percent EXCEPT ![c] = p]
        /\ pc' = [pc EXCEPT ![c] = "idle"] => percent' = [percent EXCEPT ![c] = p]
    BY <1>2, <2>1 DEF HInv, FInv, F!FInv, F!Typed
  <2>3. /\ percent' = [o \in Client |-> percent'[o]]
        /\ \A o \in Client \ {c} : percent'[o] = percent[o]
    BY <1>2, <2>2
  <2>4. pc'[c] = "idle" => percent'[c] = p
    <3>1. pc'[c] = "idle" => pc' = [pc EXCEPT ![c] = "idle"]
      BY <1>2 DEF HInv, FInv, F!FInv, F!Typed
    <3> QED
      BY <1>2, <2>2, <3>1
  <2> QED
    BY <1>1, <1>2, <2>1, <2>3, <2>4 DEF HInv, FInv, F!FInv, F!Typed
<1>4. Opened'
  BY <1>1, <1>3 DEF HInv, Opened
<1>5. Follows(c)
  BY <1>1 DEF HInv, Downloading
<1>6. /\ file_size(c)' = file_size(c) /\ Download(c)' = Download(c)
      /\ Stored(file[c])' = Stored(file[c])
  BY <1>1 DEF file_size, Stored, atoi, Download
<1>7. Follows(c)'
  BY <1>1, <1>3, <1>5, <1>6 DEF Follows, Percent, Wrapped
<1> QED
  BY <1>1, <1>3, <1>4, <1>7, OneHInv

LEMMA HInvAlways ==
  ASSUME OwnDirectories
  PROVE  SizedSpec => []HInv
<1>1. ASSUME HInv, [SizedNext]_sizedVars PROVE HInv'
  <2>1. FInv'
    BY <1>1, StepFInv DEF HInv
  <2>2. ASSUME NEW c \in Client, SizedAsk(c) PROVE HInv'
    BY <1>1, <2>1, <2>2, AskHInv
  <2>3. ASSUME NEW c \in Client, ReadHeader(c) PROVE HInv'
    BY <1>1, <2>1, <2>3, ReadHeaderHInv
  <2>4. ASSUME NEW c \in Client, SizedReceive(c) PROVE HInv'
    BY <1>1, <2>1, <2>4, SizedReceiveHInv
  <2>5. ASSUME NEW c \in Client, SizedEndOfFile(c) PROVE HInv'
    BY <1>1, <2>1, <2>5, SizedEndOfFileHInv
  <2>6. ASSUME UNCHANGED sizedVars PROVE HInv'
    BY <1>1, <2>1, <2>6, QuietHInv DEF sizedVars, vars, clientVars, Downloading
  <2> QED
    BY <1>1, <2>1, <2>2, <2>3, <2>4, <2>5, <2>6, ServerHInv
       DEF SizedNext, ServerStep, OtherStep
<1> QED
  BY <1>1, InitHInv, PTL DEF SizedSpec

(* Of clients with a directory each: the file a client has written, at any *)
(* time, is what followed the part it took for the header, without a gap,  *)
(* as far as it came, however the writes and reads were cut and whoever    *)
(* was killed.                                                             *)
THEOREM FileFollowsHeader ==
  ASSUME OwnDirectories
  PROVE  SizedSpec => []AfterTheHeader
<1>1. HInv => AfterTheHeader
  BY DEF HInv, Follows, AfterTheHeader
<1> QED
  BY <1>1, HInvAlways, PTL
-----------------------------------------------------------------------------
(* A set of natural numbers that is not empty has a least element.         *)
LEMMA LeastNat ==
  ASSUME NEW S \in SUBSET Nat, S # {}
  PROVE  \E x \in S : \A y \in S : x <= y
<1>1. IsWellFoundedOn({ss \in Nat \X Nat : ss[1] < ss[2]}, Nat)
  BY NatLessThanWellFounded DEF OpToRel
<1>2. PICK x \in S : \A y \in S : <<y, x>> \notin {ss \in Nat \X Nat : ss[1] < ss[2]}
  BY <1>1, WFMin
<1>3. ASSUME NEW y \in S PROVE x <= y
  <2>1. <<y, x>> \in Nat \X Nat /\ <<y, x>>[1] = y /\ <<y, x>>[2] = x
    OBVIOUS
  <2>2. ~(<<y, x>>[1] < <<y, x>>[2])
    BY <1>2, <2>1, Zenon
  <2> QED
    BY <2>1, <2>2
<1> QED
  BY <1>3

(* A recursion over numbers: for those of Base the value is first, for the *)
(* others it is computed by next from that of a smaller number.            *)
CallsSmaller(S, V, Base, first, pre, next) ==
  /\ S \subseteq Nat /\ Base \subseteq S
  /\ first \in [S -> V] /\ pre \in [S -> S] /\ next \in [S \X V -> V]
  /\ \A n \in S \ Base : pre[n] < n

Solution(f, S, V, Base, first, pre, next) ==
  /\ f \in [S -> V]
  /\ \A n \in S : f[n] = IF n \in Base THEN first[n] ELSE next[<<n, f[pre[n]]>>]

(* It has a solution.                                                      *)
LEMMA HasSolution ==
  ASSUME NEW S, NEW V, NEW Base, NEW first, NEW pre, NEW next,
         CallsSmaller(S, V, Base, first, pre, next)
  PROVE  \E f : Solution(f, S, V, Base, first, pre, next)
<1>1. /\ S \in SUBSET Nat /\ Base \in SUBSET S
      /\ first \in [S -> V] /\ pre \in [S -> S] /\ next \in [S \X V -> V]
  BY DEF CallsSmaller
<1> USE <1>1
<1> DEFINE UpTo(n) == {m \in S : m <= n}
           Solves(f, n) ==
             /\ \A m \in UpTo(n) : f[m] \in V
             /\ \A m \in UpTo(n) : m \in Base => f[m] = first[m]
             /\ \A m \in UpTo(n) : m \notin Base => f[m] = next[<<m, f[pre[m]]>>]
           sol == [n \in S |-> CHOOSE f : Solves(f, n)]
<1>2. \A n \in S : n \in Nat /\ pre[n] \in S /\ pre[n] \in Nat /\ (n \notin Base => pre[n] < n)
  BY DEF CallsSmaller
<1>3. ASSUME NEW n \in S, NEW k \in S, NEW f, NEW g, Solves(f, n), Solves(g, k),
             n <= k
      PROVE  f[n] = g[n]
  <2> DEFINE Differ == {m \in UpTo(n) : f[m] # g[m]}
  <2>1. SUFFICES ASSUME Differ # {} PROVE FALSE
    OBVIOUS
  <2>2. PICK m \in Differ : \A x \in Differ : m <= x
    <3>1. Differ \in SUBSET Nat
      OBVIOUS
    <3> HIDE DEF Differ
    <3> QED
      BY <2>1, <3>1, LeastNat
  <2>3. m \in UpTo(n) /\ m \in UpTo(k) /\ f[m] # g[m]
    BY <1>3
  <2>4. m \notin Base
    BY <1>3, <2>3
  <2>5. pre[m] \in UpTo(n) /\ ~(m <= pre[m])
    <3>1. /\ m \in S /\ n \in Nat /\ m \in Nat /\ m <= n
          /\ pre[m] \in S /\ pre[m] \in Nat /\ pre[m] < m
      BY <1>2, <2>3, <2>4
    <3>2. pre[m] <= n /\ ~(m <= pre[m])
      BY <3>1
    <3> QED
      BY <3>1, <3>2
  <2>6. f[pre[m]] = g[pre[m]]
    BY <1>2, <2>2, <2>5
  <2>7. f[m] = next[<<m, f[pre[m]]>>]
    BY <1>3, <2>3, <2>4
  <2>8. g[m] = next[<<m, g[pre[m]]>>]
    BY <1>3, <2>3, <2>4
  <2> HIDE DEF Differ, UpTo, Solves
  <2> QED
    BY <2>3, <2>6, <2>7, <2>8
<1>4. ASSUME NEW n \in S, \A m \in S : m < n => \E f : Solves(f, m)
      PROVE  \E f : Solves(f, n)
  <2> DEFINE h == [m \in S |-> IF m \in Base THEN first[m]
                               ELSE next[<<m, sol[pre[m]][pre[m]]>>]]
  <2>1. ASSUME NEW m \in S, m < n PROVE Solves(sol[m], m)
    <3>1. \E f : Solves(f, m)
      BY <1>4, <2>1
    <3> HIDE DEF Solves
    <3> QED
      BY <3>1
  <2>2. ASSUME NEW m \in S, m < n PROVE h[m] = sol[m][m] /\ sol[m][m] \in V
    <3> DEFINE Fm == sol[m]
    <3>1. Solves(Fm, m)
      BY <2>1, <2>2
    <3>2. m \in UpTo(m)
      OBVIOUS
    <3>3. CASE m \in Base
      <4> HIDE DEF sol
      <4> QED
        BY <3>1, <3>2, <3>3
    <3>4. CASE m \notin Base
      <4>1. pre[m] \in S /\ pre[m] < m /\ pre[m] < n
        BY <1>2, <2>2, <3>4
      <4>2. Solves(sol[pre[m]], pre[m])
        BY <2>1, <4>1
      <4> HIDE DEF sol
      <4>3. sol[pre[m]][pre[m]] = Fm[pre[m]]
        <5>1. PICK p \in S : p = pre[m] /\ p <= m
          BY <1>2, <4>1
        <5>2. PICK g : g = sol[p]
          OBVIOUS
        <5> HIDE DEF Solves, Fm
        <5>3. Solves(g, p)
          BY <4>2, <5>1, <5>2
        <5>4. g[p] = Fm[p]
          BY <1>3, <3>1, <5>1, <5>3
        <5> QED
          BY <5>1, <5>2, <5>4
      <4>4. Fm[m] = next[<<m, Fm[pre[m]]>>] /\ Fm[m] \in V
        BY <3>1, <3>2, <3>4
      <4> QED
        BY <3>4, <4>3, <4>4
    <3> QED
      BY <3>3, <3>4
  <2> HIDE DEF sol
  <2>3. ASSUME NEW m \in UpTo(n)
        PROVE  /\ h[m] \in V /\ (m \in Base => h[m] = first[m])
               /\ m \notin Base => h[m] = next[<<m, h[pre[m]]>>]
    <3>1. CASE m \in Base
      BY <3>1
    <3>2. CASE m \notin Base
      <4>1. pre[m] \in S /\ pre[m] < n
        BY <1>2, <3>2
      <4>2. h[pre[m]] = sol[pre[m]][pre[m]] /\ h[pre[m]] \in V
        BY <2>2, <4>1
      <4>3. h[m] = next[<<m, h[pre[m]]>>]
        BY <3>2, <4>2
      <4>4. <<m, h[pre[m]]>> \in S \X V
        BY <4>2
      <4> HIDE DEF h
      <4> QED
        BY <3>2, <4>3, <4>4
    <3> QED
      BY <3>1, <3>2
  <2> HIDE DEF h
  <2>4. Solves(h, n)
    BY <2>3
  <2> QED
    BY <2>4
<1>5. \A n \in S : \E f : Solves(f, n)
  <2> DEFINE Bad == {n \in S : ~ \E f : Solves(f, n)}
  <2>1. SUFFICES ASSUME Bad # {} PROVE FALSE
    OBVIOUS
  <2>2. PICK n \in Bad : \A x \in Bad : n <= x
    <3>1. Bad \in SUBSET Nat
      OBVIOUS
    <3> HIDE DEF Bad
    <3> QED
      BY <2>1, <3>1, LeastNat
  <2> HIDE DEF Solves
  <2>3. \A m \in S : m < n => \E f : Solves(f, m)
    BY <2>2
  <2> QED
    BY <1>4, <2>2, <2>3
<1>6. ASSUME NEW n \in S PROVE Solves(sol[n], n)
  <2> HIDE DEF Solves
  <2> QED
    BY <1>5
<1> DEFINE f == [n \in S |-> sol[n][n]]
<1> HIDE DEF sol
<1>7. ASSUME NEW n \in S PROVE sol[n][n] \in V
  BY <1>6
<1>8. ASSUME NEW n \in S
      PROVE  f[n] = IF n \in Base THEN first[n] ELSE next[<<n, f[pre[n]]>>]
  <2>1. CASE n \in Base
    BY <1>2, <1>6, <2>1
  <2>2. CASE n \notin Base
    <3>1. pre[n] \in S /\ pre[n] <= n
      BY <1>2, <2>2
    <3>2. sol[pre[n]][pre[n]] = sol[n][pre[n]]
      <4>1. PICK p \in S : p = pre[n] /\ p <= n
        BY <3>1
      <4>2. PICK g : g = sol[p]
        OBVIOUS
      <4>3. PICK h : h = sol[n]
        OBVIOUS
      <4> HIDE DEF Solves
      <4>4. Solves(g, p) /\ Solves(h, n)
        BY <1>6, <4>2, <4>3
      <4>5. g[p] = h[p]
        BY <1>3, <4>1, <4>4
      <4> QED
        BY <4>1, <4>2, <4>3, <4>5
    <3>3. sol[n][n] = next[<<n, sol[n][pre[n]]>>]
      BY <1>2, <1>6, <2>2
    <3> QED
      BY <2>2, <3>1, <3>2, <3>3
  <2> QED
    BY <2>1, <2>2
<1>9. f \in [S -> V]
  BY <1>7
<1> HIDE DEF f
<1>10. Solution(f, S, V, Base, first, pre, next)
  BY <1>8, <1>9 DEF Solution
<1> QED
  BY <1>10

LEMMA TenType == Ten \in Nat /\ Ten > 1
BY SentAssumption

(* The equation of Digits: it calls itself for fewer digits.               *)
LEMMA DigitsStep ==
  \A n \in Nat : Digits[n] = (IF n < Ten THEN <<>> ELSE Digits[n \div Ten]) \o <<48 + (n % Ten)>>
<1> DEFINE last(n) == <<48 + (n % Ten)>>
           Base == 0..(Ten - 1)
           first == [n \in Nat |-> last(n)]
           pre == [n \in Nat |-> n \div Ten]
           next == [p \in Nat \X Seq(Nat) |-> p[2] \o last(p[1])]
           Solves(f) == f = [n \in Nat |-> (IF n < Ten THEN <<>> ELSE f[n \div Ten]) \o last(n)]
<1>1. ASSUME NEW n \in Nat PROVE last(n) \in Seq(Nat)
  <2>1. n % Ten \in Nat /\ 48 + (n % Ten) \in Nat
    BY TenType
  <2> QED
    BY <2>1
<1>2. ASSUME NEW n \in Nat PROVE n \div Ten \in Nat /\ (n >= Ten => n \div Ten < n)
  BY TenType
<1> HIDE DEF last
<1>3. first \in [Nat -> Seq(Nat)] /\ pre \in [Nat -> Nat]
  BY <1>1, <1>2
<1>4. next \in [Nat \X Seq(Nat) -> Seq(Nat)]
  <2>1. ASSUME NEW p \in Nat \X Seq(Nat) PROVE p[2] \o last(p[1]) \in Seq(Nat)
    <3>1. p[1] \in Nat /\ p[2] \in Seq(Nat)
      OBVIOUS
    <3>2. last(p[1]) \in Seq(Nat)
      BY <1>1, <3>1
    <3> QED
      BY <3>1, <3>2, ConcatProperties
  <2> QED
    BY <2>1
<1>5. Base \in SUBSET Nat /\ \A n \in Nat \ Base : pre[n] < n
  <2>1. \A n \in Nat \ Base : n >= Ten /\ n \in Nat
    BY TenType
  <2> QED
    BY <1>2, <2>1, TenType
<1> HIDE DEF first, pre, next, Base
<1>6. PICK f \in [Nat -> Seq(Nat)] :
        \A n \in Nat : f[n] = IF n \in Base THEN first[n] ELSE next[<<n, f[pre[n]]>>]
  <2>1. CallsSmaller(Nat, Seq(Nat), Base, first, pre, next)
    BY <1>3, <1>4, <1>5 DEF CallsSmaller
  <2>2. PICK f : Solution(f, Nat, Seq(Nat), Base, first, pre, next)
    BY <2>1, HasSolution
  <2> QED
    BY <2>2 DEF Solution
<1>7. ASSUME NEW n \in Nat
      PROVE  f[n] = (IF n < Ten THEN <<>> ELSE f[n \div Ten]) \o last(n)
  <2>1. CASE n < Ten
    <3>1. n \in Base
      BY <2>1, TenType DEF Base
    <3>2. f[n] = last(n) /\ last(n) \in Seq(Nat)
      BY <1>1, <1>6, <3>1 DEF first
    <3> QED
      BY <2>1, <3>2, ConcatEmptySeq
  <2>2. CASE ~(n < Ten)
    <3>1. n \notin Base /\ pre[n] = n \div Ten
      BY <2>2, TenType DEF Base, pre
    <3>2. <<n, f[n \div Ten]>> \in Nat \X Seq(Nat)
      BY <1>2, <1>6
    <3>3. next[<<n, f[n \div Ten]>>] = f[n \div Ten] \o last(n)
      BY <3>2 DEF next
    <3> QED
      BY <1>6, <2>2, <3>1, <3>3
  <2> QED
    BY <2>1, <2>2
<1>8. Solves(f)
  <2>1. DOMAIN f = Nat
    BY <1>6
  <2> QED
    BY <1>6, <1>7, <2>1
<1>9. Digits = CHOOSE g : Solves(g)
  BY DEF Digits, last
<1> HIDE DEF Solves
<1>10. Solves(Digits)
  BY <1>8, <1>9
<1> QED
  BY <1>10 DEF Solves, last

(* The values that atoi computes of the first n of some bytes.             *)
Reads(v, bytes, n) ==
  /\ v \in [0..n -> Int] /\ v[0] = 0
  /\ \A i \in 1..n : v[i] = (Ten * v[i - 1]) + (bytes[i] - 48)

(* atoi reads as far as there are digits.                                  *)
LEMMA atoiReads ==
  ASSUME NEW bytes \in Seq(Nat), NEW n \in Nat, n <= Len(bytes),
         \A i \in 1..n : bytes[i] \in Digit, n < Len(bytes) => bytes[n + 1] \notin Digit
  PROVE  \E v : Reads(v, bytes, n) /\ atoi(bytes) = v[n]
<1> DEFINE K == {k \in 0..Len(bytes) : \A i \in 1..k : bytes[i] \in Digit}
           Value(d) == CHOOSE g :
             g = [i \in 0..d |-> IF i = 0 THEN 0 ELSE Ten * g[i - 1] + bytes[i] - 48]
           S == 0..n
           Base == {0}
           first == [i \in S |-> 0]
           pre == [i \in S |-> IF i = 0 THEN 0 ELSE i - 1]
           next == [p \in S \X Int |->
                      IF p[1] = 0 THEN 0 ELSE (Ten * p[2]) + (bytes[p[1]] - 48)]
           Solves(g) ==
             g = [i \in 0..n |-> IF i = 0 THEN 0 ELSE Ten * g[i - 1] + bytes[i] - 48]
<1>1. Max(K) = n
  <2>1. n \in K
    OBVIOUS
  <2>2. ASSUME NEW k \in K PROVE k <= n
    <3>1. SUFFICES ASSUME ~(k <= n) PROVE FALSE
      OBVIOUS
    <3>2. n + 1 \in 1..k /\ n < Len(bytes)
      BY <3>1
    <3> QED
      BY <3>2
  <2>3. \A k \in K : k \in Nat
    OBVIOUS
  <2> HIDE DEF K
  <2>4. \A x \in K : (\A y \in K : x >= y) => x = n
    BY <2>1, <2>2, <2>3
  <2>5. \A y \in K : n >= y
    BY <2>2, <2>3
  <2> QED
    BY <2>1, <2>4, <2>5 DEF Max
<1>2. atoi(bytes) = Value(Max(K))[Max(K)]
  BY DEF atoi
<1>3. \A i \in 1..n : bytes[i] \in Int
  OBVIOUS
<1>4. CallsSmaller(S, Int, Base, first, pre, next)
  <2>1. first \in [S -> Int] /\ pre \in [S -> S] /\ \A i \in S \ Base : pre[i] < i
    OBVIOUS
  <2>2. next \in [S \X Int -> Int]
    <3>1. ASSUME NEW p \in S \X Int
          PROVE  (IF p[1] = 0 THEN 0 ELSE (Ten * p[2]) + (bytes[p[1]] - 48)) \in Int
      <4>1. p[1] \in S /\ p[2] \in Int /\ Ten \in Int
        BY TenType
      <4>2. Ten * p[2] \in Int /\ (p[1] # 0 => bytes[p[1]] \in Int)
        BY <1>3, <4>1
      <4> QED
        BY <4>2
    <3> QED
      BY <3>1
  <2>3. S \subseteq Nat /\ Base \subseteq S
    OBVIOUS
  <2> HIDE DEF S, Base, first, pre, next
  <2> QED
    BY <2>1, <2>2, <2>3 DEF CallsSmaller
<1> HIDE DEF Value, K, first, pre, next, Base
<1>5. PICK f : Solution(f, S, Int, Base, first, pre, next)
  BY <1>4, HasSolution
<1>6. /\ f \in [0..n -> Int]
      /\ \A i \in 0..n : f[i] = IF i \in Base THEN first[i] ELSE next[<<i, f[pre[i]]>>]
  BY <1>5 DEF Solution
<1>7. ASSUME NEW i \in 0..n
      PROVE  f[i] = IF i = 0 THEN 0 ELSE Ten * f[i - 1] + bytes[i] - 48
  <2>1. CASE i = 0
    BY <1>6, <2>1 DEF Base, first
  <2>2. CASE i # 0
    <3>1. i \notin Base /\ pre[i] = i - 1 /\ i - 1 \in 0..n
      BY <2>2 DEF Base, pre
    <3>2. <<i, f[i - 1]>> \in S \X Int
      BY <1>6, <3>1
    <3>3. next[<<i, f[i - 1]>>] = (Ten * f[i - 1]) + (bytes[i] - 48)
      BY <2>2, <3>2 DEF next
    <3>4. f[i] = (Ten * f[i - 1]) + (bytes[i] - 48)
      BY <1>6, <3>1, <3>3
    <3>5. bytes[i] \in Int /\ Ten * f[i - 1] \in Int
      <4>1. bytes[i] \in Int
        BY <1>3, <2>2
      <4>2. f[i - 1] \in Int /\ Ten \in Int
        BY <1>6, <3>1, TenType
      <4> QED
        BY <4>1, <4>2
    <3>6. PICK x \in Int, y \in Int : x = Ten * f[i - 1] /\ y = bytes[i]
      BY <3>5
    <3>7. x + (y - 48) = x + y - 48
      OBVIOUS
    <3> QED
      BY <2>2, <3>4, <3>6, <3>7
  <2> QED
    BY <2>1, <2>2
<1>8. Solves(f)
  <2>1. DOMAIN f = 0..n
    BY <1>6
  <2> QED
    BY <1>6, <1>7, <2>1
<1>9. Value(n) = CHOOSE g : Solves(g)
  BY DEF Value
<1> HIDE DEF Solves
<1>10. Solves(Value(n))
  BY <1>8, <1>9
<1>11. PICK v : v = Value(n)
  OBVIOUS
<1>12. ASSUME NEW i \in 0..n
       PROVE  v[i] = IF i = 0 THEN 0 ELSE Ten * v[i - 1] + bytes[i] - 48
  BY <1>10, <1>11 DEF Solves
<1>13. ASSUME NEW i \in 1..n, v[i - 1] \in Int
       PROVE  v[i] = (Ten * v[i - 1]) + (bytes[i] - 48) /\ v[i] \in Int
  <2>1. bytes[i] \in Int /\ Ten * v[i - 1] \in Int /\ i \in 0..n /\ i # 0
    BY <1>3, <1>13, TenType
  <2>2. v[i] = Ten * v[i - 1] + bytes[i] - 48
    BY <1>12, <2>1
  <2> QED
    BY <2>1, <2>2
<1>14. \A i \in 0..n : v[i] \in Int
  <2> DEFINE Bad == {i \in 0..n : v[i] \notin Int}
  <2>1. SUFFICES ASSUME Bad # {} PROVE FALSE
    OBVIOUS
  <2>2. PICK i \in Bad : \A x \in Bad : i <= x
    <3>1. Bad \in SUBSET Nat
      OBVIOUS
    <3> HIDE DEF Bad
    <3> QED
      BY <2>1, <3>1, LeastNat
  <2>3. i # 0 /\ i \in 1..n
    BY <1>12
  <2>4. i - 1 \in 0..n /\ ~(i <= i - 1)
    BY <2>3
  <2>5. v[i - 1] \in Int
    BY <2>2, <2>4
  <2> QED
    BY <1>13, <2>3, <2>5
<1>15. Reads(v, bytes, n)
  <2>1. v[0] = 0
    BY <1>12
  <2>2. \A i \in 1..n : i - 1 \in 0..n
    OBVIOUS
  <2>3. DOMAIN v = 0..n /\ v = [i \in 0..n |-> v[i]]
    BY <1>10, <1>11 DEF Solves
  <2> QED
    BY <1>13, <1>14, <2>1, <2>2, <2>3 DEF Reads
<1>16. atoi(bytes) = v[n]
  BY <1>1, <1>2, <1>11
<1> QED
  BY <1>15, <1>16

(* The digits of a number are read back as it, and the first of them as no *)
(* more than it.                                                           *)
Spells(s, n) ==
  /\ s \in Seq(Nat)
  /\ \A i \in 1..Len(s) : s[i] \in Digit
  /\ \A k \in 0..Len(s) : \A v :
       Reads(v, s, k) => v[k] <= n /\ (k = Len(s) => v[k] = n)

(* One more digit.                                                         *)
LEMMA MoreDigits ==
  ASSUME NEW t, NEW q \in Nat, Spells(t, q), NEW d \in Nat, NEW n \in Nat,
         (Ten * q) <= n, n < (Ten * q) + Ten, d = 48 + (n - (Ten * q)),
         NEW s, s = t \o <<d>>
  PROVE  Spells(s, n) /\ Len(s) > 0
<1>1. PICK r \in Nat : n = (Ten * q) + r /\ r < Ten /\ d = 48 + r
  <2>1. Ten * q \in Nat
    BY TenType
  <2> QED
    BY <2>1, TenType
<1>2. /\ t \in Seq(Nat) /\ \A i \in 1..Len(t) : t[i] \in Digit
      /\ \A k \in 0..Len(t) : \A v :
           Reads(v, t, k) => v[k] <= q /\ (k = Len(t) => v[k] = q)
  BY DEF Spells
<1>3. Ten \in Nat /\ Ten > 1 /\ d \in Digit
  BY <1>1, TenType DEF Digit
<1>4. PICK l \in Nat : l = Len(t)
  BY LenProperties
<1>5. /\ s \in Seq(Nat) /\ Len(s) = l + 1 /\ s[l + 1] = d
      /\ \A i \in 1..l : s[i] = t[i]
  <2>1. s = Append(t, d)
    BY <1>2, AppendIsConcat
  <2> QED
    BY <1>4, <1>2, <2>1, AppendProperties
<1>6. ASSUME NEW i \in 1..Len(s) PROVE s[i] \in Digit
  <2>1. i \in 1..l \/ i = l + 1
    BY <1>5
  <2> QED
    BY <1>3, <1>4, <1>5, <1>2, <2>1
<1>7. q <= n
  <2>1. Ten * q >= q
    BY <1>3
  <2>2. Ten * q \in Nat
    BY <1>3
  <2> QED
    BY <1>1, <2>1, <2>2
<1>8. ASSUME NEW k \in 0..Len(s), NEW v, Reads(v, s, k)
      PROVE  v[k] <= n /\ (k = Len(s) => v[k] = n)
  <2>1. /\ v \in [0..k -> Int] /\ v[0] = 0
        /\ \A i \in 1..k : v[i] = (Ten * v[i - 1]) + (s[i] - 48)
    BY <1>8 DEF Reads
  <2>2. CASE k <= l
    <3>1. k \in 0..Len(t) /\ k # Len(s) /\ \A i \in 1..k : i \in 1..l
      BY <1>4, <1>5, <2>2
    <3>2. Reads(v, t, k)
      BY <1>5, <2>1, <3>1 DEF Reads
    <3>3. v[k] <= q /\ v[k] \in Int
      BY <1>2, <2>1, <3>1, <3>2
    <3> QED
      BY <1>7, <3>1, <3>3
  <2>3. CASE k = l + 1
    <3> DEFINE w == [i \in 0..l |-> v[i]]
    <3>1. w \in [0..l -> Int] /\ w[0] = 0
      BY <2>1, <2>3
    <3>2. ASSUME NEW i \in 1..l PROVE w[i] = (Ten * w[i - 1]) + (t[i] - 48)
      <4>1. i \in 1..k /\ i \in 0..l /\ i - 1 \in 0..l
        BY <2>3
      <4> QED
        BY <1>5, <2>1, <4>1
    <3>3. w[l] = v[l]
      OBVIOUS
    <3> HIDE DEF w
    <3>4. Reads(w, t, l)
      BY <3>1, <3>2 DEF Reads
    <3>5. v[l] = q
      BY <1>4, <1>2, <3>3, <3>4
    <3>6. k \in 1..k /\ k - 1 = l /\ s[k] = d
      BY <1>5, <2>3
    <3>7. v[k] = (Ten * v[k - 1]) + (s[k] - 48)
      BY <2>1, <3>6
    <3>8. v[k] = (Ten * q) + (d - 48)
      BY <3>5, <3>6, <3>7
    <3>9. v[k] = (Ten * q) + r
      BY <1>1, <3>8
    <3> QED
      BY <1>1, <3>9
  <2> QED
    BY <1>5, <2>2, <2>3
<1>9. Len(s) > 0
  BY <1>5
<1> QED
  BY <1>5, <1>6, <1>8, <1>9 DEF Spells

LEMMA DigitsRead == \A n \in Nat : Spells(Digits[n], n) /\ Len(Digits[n]) > 0
<1> DEFINE ReadBack(n) == Spells(Digits[n], n) /\ Len(Digits[n]) > 0
<1>1. ASSUME NEW n \in Nat, \A m \in Nat : m < n => ReadBack(m)
      PROVE  ReadBack(n)
  <2>1. PICK q \in Nat : q = n \div Ten /\ (n >= Ten => q < n) /\ (n < Ten => q = 0)
    BY TenType
  <2>2. PICK d \in Nat : d = 48 + (n % Ten)
    BY TenType
  <2>3. (Ten * q) <= n /\ n < (Ten * q) + Ten /\ d = 48 + (n - (Ten * q))
    BY <2>1, <2>2, TenType
  <2>4. PICK t : t = IF n < Ten THEN <<>> ELSE Digits[q]
    OBVIOUS
  <2>5. Digits[n] = t \o <<d>>
    BY <2>1, <2>2, <2>4, DigitsStep
  <2>6. Spells(t, q)
    <3>1. CASE n < Ten
      <4>1. t \in Seq(Nat) /\ Len(t) = 0 /\ q = 0
        BY <2>1, <2>4, <3>1
      <4>2. ASSUME NEW k \in 0..Len(t), NEW v, Reads(v, t, k) PROVE v[k] = 0
        BY <4>1, <4>2 DEF Reads
      <4> QED
        BY <4>1, <4>2 DEF Spells
    <3>2. CASE ~(n < Ten)
      BY <1>1, <2>1, <2>4, <3>2, TenType
    <3> QED
      BY <3>1, <3>2
  <2> QED
    BY <2>3, <2>5, <2>6, MoreDigits
<1> DEFINE Bad == {n \in Nat : ~ReadBack(n)}
<1>2. SUFFICES ASSUME Bad # {} PROVE FALSE
  OBVIOUS
<1>3. PICK n \in Bad : \A x \in Bad : n <= x
  <2>1. Bad \in SUBSET Nat
    OBVIOUS
  <2> HIDE DEF Bad
  <2> QED
    BY <1>2, <2>1, LeastNat
<1>4. \A m \in Nat : m < n => ReadBack(m)
  BY <1>3
<1> QED
  BY <1>1, <1>3, <1>4

(* The header of a file and what follows it.                               *)
LEMMA GivenIs ==
  ASSUME NEW f \in DOMAIN Content
  PROVE  /\ Kept[f] \in Seq(Nat) /\ Given[f] \in Seq(Nat)
         /\ Len(Kept[f]) \in Nat /\ Len(Given[f]) \in Nat /\ Len(Given[f]) <= Len(Kept[f])
         /\ \A i \in 1..Len(Given[f]) : Given[f][i] = Kept[f][i]
<1>1. PICK kept \in Seq(Nat) : kept = Kept[f]
  BY SentAssumption
<1>2. PICK k \in 0..Len(kept) : Given[f] = SubSeq(kept, 1, k)
  BY <1>1, SentAssumption
<1>3. PICK given : given = SubSeq(kept, 1, k)
  OBVIOUS
<1>4. Len(kept) \in Nat /\ k \in Nat /\ k <= Len(kept)
  BY LenProperties
<1>5. given \in Seq(Nat) /\ Len(given) = k /\ \A i \in 1..k : given[i] = kept[i]
  <2>1. 1 \in 1..(Len(kept) + 1) /\ k \in 0..Len(kept)
    BY <1>4
  <2> QED
    BY <1>3, <1>4, <2>1
<1> QED
  BY <1>1, <1>2, <1>3, <1>4, <1>5

(* A header with l digits, followed by g bytes that were read.             *)
IsSent(s, digits, l, given, g) ==
  /\ s \in Seq(Nat) /\ Len(s) = Buffer + g
  /\ \A i \in 1..l : s[i] = digits[i]
  /\ s[l + 1] = Newline
  /\ \A i \in 1..g : s[Buffer + i] = given[i]

LEMMA StoredIs ==
  ASSUME NEW f \in DOMAIN Content, NEW n, n = Len(Kept[f]), NEW l, l = Len(Digits[n]),
         NEW g, g = Len(Given[f])
  PROVE  /\ n \in Nat /\ g \in Nat /\ l \in Nat /\ l < Buffer
         /\ IsSent(Stored(f), Digits[n], l, Given[f], g)
<1>1. PICK given \in Seq(Nat) : given = Given[f]
  BY GivenIs
<1>2. n \in Nat /\ g \in Nat
  BY GivenIs
<1>3. PICK D \in Seq(Nat) : D = Digits[n]
  BY <1>2, DigitsRead DEF Spells
<1>4. l \in Nat /\ l < Buffer /\ Buffer \in Nat
  BY <1>3, LenProperties, SentAssumption, SizeAssumption
<1>5. PICK text : text = Append(D, Newline)
  OBVIOUS
<1>6. /\ text \in Seq(Nat) /\ Len(text) = l + 1 /\ text[l + 1] = Newline
      /\ \A i \in 1..l : text[i] = D[i]
  <2>1. Newline \in Nat
    BY DEF Newline
  <2> QED
    BY <1>3, <1>5, <2>1, AppendProperties
<1>7. PICK head : head = [i \in 1..Buffer |-> IF i <= Len(text) THEN text[i] ELSE Nul]
  OBVIOUS
<1>8. head \in Seq(Nat) /\ Len(head) = Buffer
  <2>1. ASSUME NEW i \in 1..Buffer PROVE (IF i <= Len(text) THEN text[i] ELSE Nul) \in Nat
    BY <1>4, <1>6 DEF Nul
  <2> QED
    BY <1>4, <1>7, <2>1
<1>9. head[l + 1] = Newline /\ \A i \in 1..l : head[i] = D[i]
  <2>1. l + 1 \in 1..Buffer /\ \A i \in 1..l : i \in 1..Buffer /\ i <= l + 1
    BY <1>4
  <2> QED
    BY <1>4, <1>6, <1>7, <2>1
<1>10. Stored(f) = head \o given
  <2>1. Header(n) = head
    BY <1>3, <1>5, <1>7 DEF Header
  <2>2. f \in DOMAIN Kept
    BY SentAssumption
  <2> QED
    BY <1>1, <2>1, <2>2, SentAssumption DEF Stored, Sent
<1>11. /\ Stored(f) \in Seq(Nat) /\ Len(Stored(f)) = Buffer + g
       /\ \A i \in 1..Buffer : Stored(f)[i] = head[i]
       /\ \A i \in 1..g : Stored(f)[Buffer + i] = given[i]
  <2>1. PICK s : s = head \o given
    OBVIOUS
  <2>2. /\ s \in Seq(Nat) /\ Len(s) = Len(head) + Len(given)
        /\ \A i \in 1..(Len(head) + Len(given)) :
             s[i] = IF i <= Len(head) THEN head[i] ELSE given[i - Len(head)]
    BY <1>1, <1>8, <2>1, ConcatProperties
  <2>3. \A i \in 1..Buffer : i \in 1..(Buffer + g) /\ i <= Buffer
    BY <1>2, <1>4
  <2>4. ASSUME NEW i \in 1..g PROVE s[Buffer + i] = given[i]
    <3>1. Buffer + i \in 1..(Buffer + g) /\ ~(Buffer + i <= Buffer) /\ (Buffer + i) - Buffer = i
      BY <1>2, <1>4
    <3> QED
      BY <1>1, <1>8, <2>2, <3>1
  <2> QED
    BY <1>1, <1>8, <1>10, <2>1, <2>2, <2>3, <2>4
<1>12. l + 1 \in 1..Buffer /\ \A i \in 1..l : i \in 1..Buffer
  BY <1>4
<1>13. Stored(f)[l + 1] = Newline /\ \A i \in 1..l : Stored(f)[i] = Digits[n][i]
  BY <1>3, <1>9, <1>11, <1>12
<1> QED
  BY <1>1, <1>2, <1>4, <1>11, <1>13 DEF IsSent

(* The number read from digits is not negative.                            *)
LEMMA ReadsNat ==
  ASSUME NEW v, NEW bytes, NEW n \in Nat, Reads(v, bytes, n), \A i \in 1..n : bytes[i] \in Digit
  PROVE  v[n] >= 0
<1> DEFINE Bad == {i \in 0..n : v[i] < 0}
<1>1. SUFFICES ASSUME Bad # {} PROVE FALSE
  BY DEF Reads
<1>2. PICK i \in Bad : \A x \in Bad : i <= x
  <2>1. Bad \in SUBSET Nat
    OBVIOUS
  <2> HIDE DEF Bad
  <2> QED
    BY <1>1, <2>1, LeastNat
<1>3. i \in 1..n /\ v[i] < 0
  BY DEF Reads
<1>4. i - 1 \in 0..n /\ ~(i <= i - 1)
  BY <1>3
<1>5. v[i - 1] \in Int /\ v[i - 1] >= 0
  BY <1>2, <1>4 DEF Reads
<1>6. v[i] = (Ten * v[i - 1]) + (bytes[i] - 48)
  BY <1>3 DEF Reads
<1>7. bytes[i] \in Nat /\ bytes[i] >= 48
  BY <1>3, TenType DEF Digit
<1>8. PICK x \in Int : x = Ten * v[i - 1] /\ x >= 0
  BY <1>5, TenType
<1> QED
  BY <1>3, <1>6, <1>7, <1>8

(* What the client takes for the size of a file: of a part of the header   *)
(* no more than the size, of the whole header the size.                    *)
LEMMA SizeTold ==
  ASSUME NEW f \in DOMAIN Content, NEW h \in 0..Buffer
  PROVE  /\ atoi(SubSeq(Stored(f), 1, h)) <= Len(Kept[f])
         /\ h = Buffer => atoi(SubSeq(Stored(f), 1, h)) = Len(Kept[f])
         /\ h = 0 => atoi(SubSeq(Stored(f), 1, h)) = 0
         /\ atoi(SubSeq(Stored(f), 1, h)) \in Nat
<1>1. PICK n : n = Len(Kept[f])
  OBVIOUS
<1>2. PICK l : l = Len(Digits[n])
  OBVIOUS
<1>3. PICK s : s = Stored(f)
  OBVIOUS
<1>4. /\ n \in Nat /\ l \in Nat /\ l < Buffer
      /\ s \in Seq(Nat) /\ Buffer <= Len(s)
      /\ \A i \in 1..l : s[i] = Digits[n][i]
      /\ s[l + 1] = Newline
  <2>1. PICK g : g = Len(Given[f])
    OBVIOUS
  <2>2. /\ n \in Nat /\ g \in Nat /\ l \in Nat /\ l < Buffer
        /\ IsSent(s, Digits[n], l, Given[f], g)
    BY <1>1, <1>2, <1>3, <2>1, StoredIs
  <2>3. Buffer <= Buffer + g
    BY <2>2, SizeAssumption
  <2> QED
    BY <2>2, <2>3 DEF IsSent
<1>5. Spells(Digits[n], n) /\ l > 0
  BY <1>2, <1>4, DigitsRead
<1>6. Buffer \in Nat /\ h \in Nat /\ h <= Buffer
  BY SizeAssumption
<1>7. PICK b : b = SubSeq(s, 1, h)
  OBVIOUS
<1>8. b \in Seq(Nat) /\ Len(b) = h /\ \A i \in 1..h : b[i] = s[i]
  <2>1. 1 \in 1..(Len(s) + 1) /\ h \in 0..Len(s) /\ h <= Len(s)
    BY <1>4, <1>6
  <2> QED
    BY <1>4, <1>6, <1>7, <2>1
<1>9. PICK m \in Nat : m <= l /\ m <= h /\ (h <= l => m = h) /\ (l < h => m = l)
  <2>1. CASE h <= l
    BY <1>4, <1>6, <2>1
  <2>2. CASE ~(h <= l)
    BY <1>4, <1>6, <2>2
  <2> QED
    BY <2>1, <2>2
<1>10. \A i \in 1..m : b[i] = Digits[n][i] /\ b[i] \in Digit
  <2>1. \A i \in 1..m : i \in 1..h /\ i \in 1..l
    BY <1>4, <1>6, <1>9
  <2> QED
    BY <1>2, <1>4, <1>5, <1>8, <2>1 DEF Spells
<1>11. m < h => b[m + 1] \notin Digit
  <2>1. SUFFICES ASSUME m < h PROVE b[m + 1] \notin Digit
    OBVIOUS
  <2>2. m = l /\ l + 1 \in 1..h
    BY <1>4, <1>6, <1>9, <2>1
  <2>3. b[m + 1] = Newline
    BY <1>4, <1>8, <2>2
  <2>4. Newline \notin Digit
    BY TenType DEF Newline, Digit
  <2> QED
    BY <2>3, <2>4
<1>12. PICK v : Reads(v, b, m) /\ atoi(b) = v[m]
  BY <1>8, <1>9, <1>10, <1>11, atoiReads
<1>13. Reads(v, Digits[n], m)
  BY <1>10, <1>12 DEF Reads
<1>14. m \in 0..l /\ v[m] \in Nat
  <2>1. m \in 0..l /\ v[m] \in Int
    BY <1>4, <1>9, <1>13 DEF Reads
  <2>2. v[m] >= 0
    BY <1>10, <1>12, ReadsNat
  <2> QED
    BY <2>1, <2>2
<1>15. v[m] <= n /\ (m = l => v[m] = n)
  BY <1>2, <1>5, <1>13, <1>14 DEF Spells
<1>16. (h = Buffer => m = l) /\ (h = 0 => m = 0)
  BY <1>4, <1>6, <1>9
<1>17. v[0] = 0
  BY <1>13 DEF Reads
<1> QED
  BY <1>1, <1>3, <1>7, <1>12, <1>14, <1>15, <1>16, <1>17

LEMMA NothingTold == atoi(<<>>) = 0
<1>1. PICK b \in Seq(Nat) : b = <<>>
  <2>1. <<>> \in Seq(Nat)
    OBVIOUS
  <2> QED
    BY <2>1
<1>2. PICK n \in Nat : n = 0
  OBVIOUS
<1>3. /\ n <= Len(b) /\ \A i \in 1..n : b[i] \in Digit
      /\ n < Len(b) => b[n + 1] \notin Digit
  BY <1>1, <1>2
<1>4. PICK v : Reads(v, b, n) /\ atoi(b) = v[n]
  BY <1>3, atoiReads
<1> QED
  BY <1>1, <1>2, <1>4 DEF Reads

HundredType == Hundred \in Nat /\ Hundred > 0 /\ MaxInt \in Nat

LEMMA HundredIs == HundredType
BY SentAssumption DEF HundredType

(* What fits an int stays as it is, and its percentage tells less than the *)
(* whole from the whole and more.                                          *)
LEMMA PercentFits ==
  ASSUME NEW o \in Nat, NEW size \in Nat, size > 0, o * Hundred <= MaxInt
  PROVE  /\ o < size => Percent(o, size) < Hundred
         /\ o = size => Percent(o, size) = Hundred
         /\ o >= size => Percent(o, size) >= Hundred
<1>1. PICK H \in Nat : H = Hundred /\ H > 0
  BY HundredIs DEF HundredType
<1>2. PICK M \in Nat : M = MaxInt
  BY HundredIs DEF HundredType
<1>3. PICK x \in Nat : x = o * H
  OBVIOUS
<1>4. PICK y \in Nat : y = size * H
  OBVIOUS
<1>5. /\ o < size => x < y
      /\ o = size => x = y
      /\ o >= size => x >= y
  BY <1>1, <1>3, <1>4
<1>6. Wrapped(x) = x
  <2>1. x <= M
    BY <1>1, <1>2, <1>3
  <2>2. x % (2 * (M + 1)) = x
    BY <2>1
  <2> QED
    BY <1>2, <2>1, <2>2 DEF Wrapped
<1>7. Percent(o, size) = x \div size
  BY <1>1, <1>3, <1>6 DEF Percent
<1>8. PICK q \in Nat : q = x \div size
  OBVIOUS
<1>9. size * q <= x /\ x < size * (q + 1)
  BY <1>8
<1>10. (x < y => q < H) /\ (x >= y => q >= H) /\ (x = y => q <= H)
  <2>1. ASSUME q >= H PROVE size * q >= y
    BY <1>4, <2>1
  <2>2. ASSUME q < H PROVE size * (q + 1) <= y
    <3>1. q + 1 <= H
      BY <2>2
    <3> QED
      BY <1>4, <3>1
  <2>3. ASSUME q > H PROVE size * q > y
    BY <1>4, <2>3
  <2>4. PICK a \in Nat, b \in Nat : a = size * q /\ b = size * (q + 1)
    OBVIOUS
  <2> QED
    BY <1>9, <2>1, <2>2, <2>3, <2>4
<1> QED
  BY <1>1, <1>5, <1>7, <1>8, <1>10

(* Of a part of the file or all of it, what does not fit an int is shown   *)
(* as less than it is.                                                     *)
LEMMA PercentWraps ==
  ASSUME NEW o \in Nat, NEW size \in Nat, size > 0, o <= size, ~(o * Hundred <= MaxInt)
  PROVE  Percent(o, size) # Hundred
<1>1. PICK H \in Nat : H = Hundred /\ H > 0
  BY HundredIs DEF HundredType
<1>2. PICK M \in Nat : M = MaxInt
  BY HundredIs DEF HundredType
<1>3. PICK x \in Nat : x = o * H
  OBVIOUS
<1>4. PICK y \in Nat : y = size * H
  OBVIOUS
<1>5. x <= y /\ x > M
  BY <1>1, <1>2, <1>3, <1>4
<1>6. PICK r \in Nat : r = 2 * (M + 1)
  OBVIOUS
<1>7. PICK low \in Nat : low = x % r /\ low < r /\ low <= x
  BY <1>6
<1>8. PICK n \in Int : n = Wrapped(x) /\ n < x
  <2>1. Wrapped(x) = IF low <= M THEN low ELSE low - r
    BY <1>2, <1>6, <1>7 DEF Wrapped
  <2>2. (low <= M => low < x) /\ low - r < x
    BY <1>5, <1>6, <1>7
  <2> QED
    BY <2>1, <2>2
<1>9. Percent(o, size) = IF n >= 0 THEN n \div size ELSE -((-n) \div size)
  BY <1>1, <1>3, <1>8 DEF Percent
<1>10. CASE n >= 0
  <2>1. PICK q \in Nat : q = n \div size
    BY <1>10
  <2>2. size * q <= n
    BY <1>10, <2>1
  <2>3. q = H => size * q = y
    BY <1>4
  <2>4. PICK a \in Nat : a = size * q
    OBVIOUS
  <2>5. q # H
    BY <1>5, <1>8, <2>2, <2>3, <2>4
  <2> QED
    BY <1>1, <1>9, <1>10, <2>1, <2>5
<1>11. CASE ~(n >= 0)
  <2>1. -n \in Nat
    BY <1>11
  <2>2. PICK q \in Nat : q = (-n) \div size
    BY <2>1
  <2> QED
    BY <1>1, <1>9, <1>11, <2>2
<1> QED
  BY <1>10, <1>11

LEMMA PercentageIs ==
  ASSUME HInv, NEW c \in Client, pc[c] = "idle", file[c] # NoFile
  PROVE  IF hdr[c] = Buffer
         THEN /\ percent[c] = Hundred <=> /\ Download(c) = Kept[file[c]]
                                         /\ off[c] * Hundred <= MaxInt
              /\ child[c] = "exited" => Download(c) = Given[file[c]]
         ELSE child[c] = "exited" /\ Given[file[c]] = Kept[file[c]] =>
                /\ Download(c) # Kept[file[c]]
                /\ off[c] * Hundred <= MaxInt => percent[c] >= Hundred
<1>1. Follows(c)
  BY DEF HInv, Downloading
<1>2. PICK f \in File : f = file[c]
  BY <1>1 DEF Follows
<1>3. PICK h \in 0..Buffer : h = hdr[c]
  BY DEF HInv, FInv, Sizes
<1>4. PICK o \in Nat : o = off[c]
  BY DEF HInv, FInv, Sizes
<1>5. Buffer \in Nat /\ h \in Nat /\ h <= Buffer
  BY BufferType
<1>6. f \in DOMAIN Content
  <2>1. SUFFICES ASSUME f \notin DOMAIN Content PROVE FALSE
    OBVIOUS
  <2>2. Stored(f) = <<>>
    BY <2>1 DEF Stored
  <2>3. h + o <= 0
    BY <1>1, <1>2, <1>3, <1>4, <2>2 DEF Follows
  <2>4. h = 0
    BY <1>4, <1>5, <2>3
  <2>5. SubSeq(Stored(f), 1, h) = <<>>
    BY <2>2, <2>4
  <2>6. atoi(<<>>) = 0
    BY NothingTold
  <2>7. file_size(c) = 0
    BY <1>2, <1>3, <2>5, <2>6 DEF file_size
  <2> QED
    BY <1>1, <2>7 DEF Follows
<1>7. PICK n : n = Len(Kept[f])
  OBVIOUS
<1>8. PICK s : s = Stored(f)
  OBVIOUS
<1>9. PICK kept : kept = Kept[f]
  OBVIOUS
<1>10. PICK size : size = file_size(c)
  OBVIOUS
<1>11. PICK g : g = Len(Given[f])
  OBVIOUS
<1>12. PICK given : given = Given[f]
  OBVIOUS
<1>13. /\ kept \in Seq(Nat) /\ Len(kept) = n /\ n \in Nat
       /\ given \in Seq(Nat) /\ Len(given) = g /\ g \in Nat /\ g <= n
       /\ \A i \in 1..g : given[i] = kept[i]
       /\ s \in Seq(Nat) /\ Len(s) = Buffer + g
       /\ \A i \in 1..g : s[Buffer + i] = given[i]
  <2>1. PICK l : l = Len(Digits[n])
    OBVIOUS
  <2>2. IsSent(s, Digits[n], l, given, g)
    BY <1>6, <1>7, <1>8, <1>11, <1>12, <2>1, StoredIs
  <2> QED
    BY <1>6, <1>7, <1>9, <1>11, <1>12, <2>2, GivenIs DEF IsSent
<1>14. size = atoi(SubSeq(Stored(f), 1, h))
  BY <1>2, <1>3, <1>10 DEF file_size
<1>15. size \in Nat /\ size <= n /\ (h = Buffer => size = n)
  BY <1>6, <1>7, <1>14, SizeTold
<1>16. size > 0 /\ percent[c] = Percent(o, size)
  BY <1>1, <1>4, <1>10, <1>15 DEF Follows
<1>17. PICK w : w = Download(c)
  OBVIOUS
<1>18. w = SubSeq(s, h + 1, h + o)
  BY <1>1, <1>2, <1>3, <1>4, <1>8, <1>17 DEF Follows
<1>19. h + o <= Len(s)
  BY <1>1, <1>2, <1>3, <1>4, <1>8 DEF Follows
<1>20. child[c] = "exited" => h + o = Buffer + g
  <2>1. child[c] = "exited" => offset[c] = Len(F!Stored(file[c]))
    BY DEF HInv, FInv, F!FInv, F!Downloads, F!Download
  <2>2. offset[c] = h + o /\ F!Stored(file[c]) = s
    BY <1>2, <1>3, <1>4, <1>8 DEF offset, Stored, F!Stored
  <2> QED
    BY <1>13, <2>1, <2>2
<1>21. /\ w \in Seq(Nat) /\ Len(w) = o /\ \A i \in 1..o : w[i] = s[h + i]
  <2>1. PICK t \in Nat : t = h + o
    BY <1>4, <1>5
  <2>2. t <= Len(s)
    BY <1>19, <2>1
  <2>3. h <= t /\ o = t - h
    BY <1>4, <1>5, <2>1
  <2>4. s \in Seq(Nat)
    BY <1>13
  <2>5. IsPart(SubSeq(s, h + 1, t), s, h, o)
    BY <1>5, <2>2, <2>3, <2>4, IsSubSeq
  <2>6. IsPart(w, s, h, o)
    BY <1>18, <2>1, <2>5
  <2> QED
    BY <2>6 DEF IsPart
<1>22. CASE h = Buffer
  <2>1. o <= g /\ \A i \in 1..o : w[i] = given[i]
    <3>1. o <= g
      BY <1>4, <1>5, <1>13, <1>19, <1>22
    <3>2. \A i \in 1..o : i \in 1..g
      BY <1>4, <1>13, <3>1
    <3> QED
      BY <1>13, <1>21, <1>22, <3>1, <3>2
  <2>2. o = g => w = given
    BY <1>13, <1>21, <2>1, SeqEqual
  <2>3. o = n => w = kept
    <3>1. SUFFICES ASSUME o = n PROVE w = kept
      OBVIOUS
    <3>2. g = n
      BY <1>4, <1>13, <2>1, <3>1
    <3>3. Len(w) = Len(kept) /\ \A i \in 1..Len(w) : w[i] = kept[i]
      BY <1>13, <1>21, <2>1, <3>1, <3>2
    <3> QED
      BY <1>13, <1>21, <3>3, SeqEqual
  <2>4. w = kept => o = n
    BY <1>13, <1>21
  <2>5. child[c] = "exited" => w = given
    <3>1. child[c] = "exited" => o = g
      BY <1>4, <1>5, <1>13, <1>20, <1>22
    <3> QED
      BY <2>2, <3>1
  <2>6. size = n /\ o <= n
    BY <1>4, <1>13, <1>22, <1>15, <2>1
  <2>7. o * Hundred <= MaxInt => (Percent(o, size) = Hundred <=> o = n)
    <3>1. SUFFICES ASSUME o * Hundred <= MaxInt PROVE Percent(o, size) = Hundred <=> o = n
      OBVIOUS
    <3>2. /\ o < size => Percent(o, size) < Hundred
          /\ o = size => Percent(o, size) = Hundred
      BY <1>4, <1>15, <1>16, <3>1, PercentFits
    <3>3. o < size \/ o = size
      BY <1>4, <1>13, <2>6
    <3>4. Hundred \in Nat
      BY HundredIs DEF HundredType
    <3>5. o = n <=> o = size
      BY <2>6
    <3>6. o < size => o # size
      BY <1>4, <1>15
    <3>7. Percent(o, size) < Hundred => Percent(o, size) # Hundred
      BY <3>4
    <3> QED
      BY <3>2, <3>3, <3>5, <3>6, <3>7
  <2>8. ~(o * Hundred <= MaxInt) => Percent(o, size) # Hundred
    BY <1>4, <1>15, <1>16, <2>6, PercentWraps
  <2>9. Percent(o, size) = Hundred <=> w = kept /\ o * Hundred <= MaxInt
    BY <2>3, <2>4, <2>7, <2>8
  <2> QED
    BY <1>2, <1>3, <1>4, <1>9, <1>12, <1>17, <1>22, <1>16, <2>5, <2>9
<1>23. CASE h # Buffer
  <2>1. SUFFICES ASSUME child[c] = "exited", given = kept
                 PROVE  w # kept /\ (o * Hundred <= MaxInt => Percent(o, size) >= Hundred)
    BY <1>2, <1>3, <1>4, <1>9, <1>12, <1>17, <1>16, <1>23
  <2>2. o > n
    BY <1>4, <1>5, <1>13, <1>20, <1>23, <2>1
  <2>3. w # kept
    BY <1>4, <1>13, <1>21, <2>2
  <2>4. o >= size
    BY <1>4, <1>13, <1>15, <2>2
  <2> QED
    BY <1>4, <1>15, <1>16, <2>3, <2>4, PercentFits
<1> QED
  BY <1>22, <1>23

(* Of the same clients: where the first read took the whole header, the    *)
(* last percentage shown is 100 exactly when the file is whole and 100     *)
(* times its size fits an int, and a child that ran to its end has sent    *)
(* all it could read; where it took a part of the header, a file sent to   *)
(* its end is not whole, and 100 or more is shown if the product fits.     *)
(* For files, bases and ints of any size: the digits written are read      *)
(* back, and the division is that of integers.                             *)
THEOREM LastPercentage ==
  ASSUME OwnDirectories
  PROVE  SizedSpec => []PercentageTells
<1>1. HInv => PercentageTells
  BY PercentageIs DEF PercentageTells
<1> QED
  BY <1>1, HInvAlways, PTL
=============================================================================
