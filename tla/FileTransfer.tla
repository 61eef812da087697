---------------------------- MODULE FileTransfer ----------------------------
(***************************************************************************)
(* The file server that forks a child for every connection, and the client *)
(* that downloads from it: Peer_Server.cpp and Peer_Client.cpp of          *)
(* assignment 5, which assignment 6 repeats in the TCP server and in       *)
(* download_func of server.cpp.                                            *)
(*                                                                         *)
(* Processes: the server's parent, one child per connection, the clients.  *)
(* A connection is named by the client that made it; it ends for the       *)
(* client when no process of the server holds it any more.  A request      *)
(* fits in one segment and is read whole.                                  *)
(***************************************************************************)
EXTENDS Integers, Sequences, FiniteSets

CONSTANTS Client, File, Directory, NoClient, NoFile,
          Content,       \* the files the server has, and their bytes
          DirectoryOf,   \* where a client runs, and leaves "new <file>"
          Buffer,        \* the bytes of one read or write (256)
          Window,        \* bytes a connection holds before write blocks
          Backlog,       \* listen: connections that wait for accept
          MaxProcesses,  \* children the system lets the server have
          MaxDownloads,  \* bound: downloads, of all clients
          MayKill,       \* clients and the server may be killed
          NoMode         \* the client's open has no mode (Peer_Client.cpp)

Hole == 0                \* what the file system reads where nothing was written

ASSUME NoneAssumption == NoClient \notin Client /\ NoFile \notin File
ASSUME ContentAssumption ==
  \E stored \in SUBSET File : Content \in [stored -> Seq(Nat)]
ASSUME DirectoryAssumption == DirectoryOf \in [Client -> Directory]
ASSUME SizeAssumption ==
  /\ Buffer \in Nat \ {0} /\ Window \in Nat /\ Window >= Buffer
  /\ Backlog \in Nat \ {0} /\ MaxProcesses \in Nat /\ MaxDownloads \in Nat
  /\ MayKill \in BOOLEAN /\ NoMode \in BOOLEAN

VARIABLES
  up,          \* the server runs
  backlog,     \* connections that wait for accept
  newsockfd,   \* the connection the parent has accepted and not yet closed
  child,       \* of each connection
  pos,         \* child's offset in the file it sends
  zombies,     \* children that have ended: the parent never waits for them
  pc,          \* of each client
  file,        \* the file it asks for
  off,         \* its offset in "new <file>"
  request,     \* sent to the server and not yet read
  stream,      \* bytes sent to the client and not yet read
  fdes,        \* its open of "new <file>" succeeded
  disk,        \* disk[dir][f]: what "new f" in dir holds
  mode,        \* mode[dir][f]: its permission, or "absent"
  incomplete,  \* the files a failed download has written to (history)
  downloads    \* downloads begun (bound)

serverVars == <<up, backlog, newsockfd, child, pos, zombies>>
clientVars == <<pc, file, off, fdes, disk, mode, incomplete, downloads>>
vars == <<serverVars, clientVars, request, stream>>

(* A file that is not there (open fails, and so does the first read) is    *)
(* sent like an empty one.                                                 *)
Stored(f) == IF f \in DOMAIN Content THEN Content[f] ELSE <<>>

Running == {c \in Client : child[c] \in {"reading", "sending"}}

TypeOK ==
  /\ up \in BOOLEAN
  /\ backlog \in Seq(Client) /\ Len(backlog) <= Backlog
  /\ newsockfd \in Client \cup {NoClient}
  /\ child \in [Client -> {"none", "reading", "sending", "exited", "killed"}]
  /\ pos \in [Client -> Nat]
  /\ zombies \in Nat
  /\ pc \in [Client -> {"idle", "connected", "reading", "killed"}]
  /\ file \in [Client -> File \cup {NoFile}]
  /\ off \in [Client -> Nat]
  /\ \A c \in Client : pc[c] = "reading" => off[c] <= Len(Stored(file[c]))
  /\ request \in [Client -> File \cup {NoFile}]
  /\ stream \in [Client -> Seq(Nat)] /\ \A c \in Client : Len(stream[c]) <= Window
  /\ fdes \in [Client -> BOOLEAN]
  /\ disk \in [Directory -> [File -> Seq(Nat)]]
  /\ mode \in [Directory -> [File -> {"absent", "writable", "readonly"}]]
  /\ incomplete \subseteq Directory \X File
  /\ downloads \in 0..MaxDownloads

Init ==
  /\ up = TRUE /\ backlog = <<>> /\ newsockfd = NoClient /\ zombies = 0
  /\ child = [c \in Client |-> "none"] /\ pos = [c \in Client |-> 0]
  /\ pc = [c \in Client |-> "idle"] /\ file = [c \in Client |-> NoFile]
  /\ off = [c \in Client |-> 0] /\ request = [c \in Client |-> NoFile]
  /\ stream = [c \in Client |-> <<>>]
  /\ fdes = [c \in Client |-> FALSE]
  /\ disk = [dir \in Directory |-> [f \in File |-> <<>>]]
  /\ mode = [dir \in Directory |-> [f \in File |-> "absent"]]
  /\ incomplete = {} /\ downloads = 0
-----------------------------------------------------------------------------
(* The client.                                                             *)

(* Some process of the server has the connection open.                     *)
Held(c) ==
  \/ \E i \in DOMAIN backlog : backlog[i] = c
  \/ newsockfd = c
  \/ c \in Running

(* connect: returns when the new connection waits for accept.              *)
Connect(c, f) ==
  /\ pc[c] = "idle" /\ downloads < MaxDownloads
  /\ up /\ Len(backlog) < Backlog
  /\ backlog' = Append(backlog, c)
  /\ child' = [child EXCEPT ![c] = "none"]
  /\ pc' = [pc EXCEPT ![c] = "connected"]
  /\ file' = [file EXCEPT ![c] = f]
  /\ downloads' = downloads + 1
  /\ request' = [request EXCEPT ![c] = NoFile]
  /\ UNCHANGED <<up, newsockfd, pos, zombies, off, fdes, disk, mode, incomplete,
                 stream>>

(* open(O_WRONLY | O_CREAT | O_TRUNC), whose result nobody looks at.  Where *)
(* it is called without a mode, the file it creates has any permission.    *)
Open(c) ==
  LET dir == DirectoryOf[c]
      was == mode[dir][file[c]]
  IN  /\ fdes' = [fdes EXCEPT ![c] = was # "readonly"]
      /\ \/ was = "readonly" /\ UNCHANGED <<disk, mode>>
         \/ /\ was # "readonly"
            /\ disk' = [disk EXCEPT ![dir][file[c]] = <<>>]
            /\ \E m \in {"writable"} \cup IF NoMode /\ was = "absent"
                                          THEN {"readonly"} ELSE {} :
                 mode' = [mode EXCEPT ![dir][file[c]] = m]

(* The request is written, "new <file>" opened.                            *)
Ask(c) ==
  /\ pc[c] = "connected"
  /\ pc' = [pc EXCEPT ![c] = "reading"]
  /\ request' = IF Held(c) THEN [request EXCEPT ![c] = file[c]] ELSE request
  /\ Open(c)
  /\ off' = [off EXCEPT ![c] = 0]
  /\ UNCHANGED <<serverVars, file, incomplete, downloads, stream>>

(* connect finds no server, or write a connection already reset: exit(1).  *)
FailToAsk(c) ==
  /\ \/ pc[c] = "idle" /\ ~up
     \/ pc[c] = "connected" /\ ~Held(c)
  /\ pc' = [pc EXCEPT ![c] = "killed"]
  /\ UNCHANGED <<serverVars, file, off, fdes, disk, mode, incomplete, downloads,
                 request, stream>>

(* A file in which bytes are written at offset o.                          *)
WriteAt(s, o, bytes) ==
  LET end == o + Len(bytes)
  IN  [i \in 1..(IF end > Len(s) THEN end ELSE Len(s)) |->
        IF i \in o + 1..end THEN bytes[i - o] ELSE IF i <= Len(s) THEN s[i] ELSE Hole]

(* A read of n bytes, written at offset o of the file (a write to a file   *)
(* that could not be opened fails, and nobody notices).                    *)
Copies(c, n, o) ==
  /\ n <= Len(stream[c]) /\ n <= Buffer
  /\ stream' = [stream EXCEPT ![c] = SubSeq(@, n + 1, Len(@))]
  /\ off' = [off EXCEPT ![c] = @ + n]
  /\ disk' = IF fdes[c]
             THEN [disk EXCEPT ![DirectoryOf[c]][file[c]] =
                     WriteAt(@, o, SubSeq(stream[c], 1, n))]
             ELSE disk
  /\ UNCHANGED <<serverVars, file, fdes, mode, downloads, request>>

(* The file is opened to append; the loop ends at a read that leaves the   *)
(* buffer unfilled.                                                        *)
Wrong_Receive_append(c) ==
  /\ pc[c] = "reading"
  /\ \E n \in 1..Buffer : Copies(c, n, Len(disk[DirectoryOf[c]][file[c]]))
  /\ UNCHANGED <<pc, incomplete>>

Wrong_Receive_short(c) ==
  /\ pc[c] = "reading"
  /\ \E n \in 1..Buffer :
       /\ Copies(c, n, off[c])
       /\ pc' = [pc EXCEPT ![c] = IF n < Buffer THEN "idle" ELSE @]
  /\ UNCHANGED incomplete

(* A read of the loop gets some of the bytes sent, at most a buffer full.  *)
Receive(c) ==
  /\ pc[c] = "reading"
  /\ \E n \in 1..Buffer : Copies(c, n, off[c])
  /\ UNCHANGED <<pc, incomplete>>

(* The download leaves its file as it is; it failed unless a child sent    *)
(* everything.                                                             *)
Fails(c) == incomplete' = incomplete \cup {<<DirectoryOf[c], file[c]>>}

(* The read that returns 0, or -1: the client cannot tell whether the      *)
(* server has sent the whole file.                                         *)
EndOfFile(c) ==
  /\ pc[c] = "reading" /\ stream[c] = <<>> /\ ~Held(c)
  /\ pc' = [pc EXCEPT ![c] = "idle"]
  /\ IF child[c] = "exited" THEN UNCHANGED incomplete ELSE Fails(c)
  /\ UNCHANGED <<serverVars, file, off, fdes, disk, mode, downloads,
                 request, stream>>

KillClient(c) ==
  /\ MayKill /\ pc[c] \in {"connected", "reading"}
  /\ pc' = [pc EXCEPT ![c] = "killed"]
  /\ IF pc[c] = "reading" THEN Fails(c) ELSE UNCHANGED incomplete
  /\ UNCHANGED <<serverVars, file, off, fdes, disk, mode, downloads,
                 request, stream>>
-----------------------------------------------------------------------------
(* The server.                                                             *)

(* accept and fork.  Where fork fails the parent goes on as if it had a    *)
(* child, and the connection has nobody to serve it.                       *)
Accept ==
  /\ up /\ newsockfd = NoClient /\ backlog # <<>>
  /\ newsockfd' = Head(backlog)
  /\ backlog' = Tail(backlog)
  /\ child' = IF Cardinality(Running) + zombies < MaxProcesses
              THEN [child EXCEPT ![Head(backlog)] = "reading"]
              ELSE child
  /\ UNCHANGED <<up, pos, zombies, clientVars, request, stream>>

(* The parent goes back to accept with the connection still open: as many  *)
(* as it has accepted stay held.  One is enough to show.                   *)
Wrong_CloseNewsockfd ==
  /\ up /\ newsockfd # NoClient /\ backlog # <<>>
  /\ newsockfd' = NoClient
  /\ UNCHANGED <<up, backlog, child, pos, zombies, clientVars, request, stream>>

CloseNewsockfd ==
  /\ newsockfd # NoClient
  /\ newsockfd' = NoClient
  /\ UNCHANGED <<up, backlog, child, pos, zombies, clientVars, request, stream>>

Ends(c, how) ==
  /\ child' = [child EXCEPT ![c] = how]
  /\ zombies' = zombies + 1

(* The child's one read of the request; a client that is gone without one  *)
(* makes it read 0 bytes, the empty name, of which no file is sent.        *)
ReadRequest(c) ==
  /\ child[c] = "reading"
  /\ \/ /\ request[c] # NoFile
        /\ child' = [child EXCEPT ![c] = "sending"]
        /\ request' = [request EXCEPT ![c] = NoFile]
        /\ pos' = [pos EXCEPT ![c] = 0]
        /\ UNCHANGED zombies
     \/ /\ request[c] = NoFile /\ pc[c] = "killed"
        /\ Ends(c, "exited")
        /\ UNCHANGED <<request, pos>>
  /\ UNCHANGED <<up, backlog, newsockfd, clientVars, stream>>

(* The whole buffer is written, zeros where the read did not fill it.      *)
Wrong_Chunk(c) ==
  LET bytes == Stored(file[c])
  IN  IF pos[c] < Len(bytes)
      THEN [i \in 1..Buffer |-> IF pos[c] + i <= Len(bytes) THEN bytes[pos[c] + i] ELSE Hole]
      ELSE <<>>

(* What the next read of the file gets.                                    *)
Chunk(c) ==
  LET bytes == Stored(file[c])
      end   == pos[c] + Buffer
  IN  SubSeq(bytes, pos[c] + 1, IF end < Len(bytes) THEN end ELSE Len(bytes))

(* The write does not block; what the connection cannot hold is lost.      *)
Wrong_SendChunk(c) ==
  /\ child[c] = "sending" /\ pc[c] # "killed" /\ Chunk(c) # <<>>
  /\ stream' = IF Len(stream[c]) + Len(Chunk(c)) <= Window
               THEN [stream EXCEPT ![c] = @ \o Chunk(c)]
               ELSE stream
  /\ pos' = [pos EXCEPT ![c] = @ + Len(Chunk(c))]
  /\ UNCHANGED <<up, backlog, newsockfd, child, zombies, clientVars, request>>

(* One turn of the child's loop; the write blocks until there is room.     *)
SendChunk(c) ==
  /\ child[c] = "sending" /\ pc[c] # "killed" /\ Chunk(c) # <<>>
  /\ Len(stream[c]) + Len(Chunk(c)) <= Window
  /\ stream' = [stream EXCEPT ![c] = @ \o Chunk(c)]
  /\ pos' = [pos EXCEPT ![c] = @ + Len(Chunk(c))]
  /\ UNCHANGED <<up, backlog, newsockfd, child, zombies, clientVars, request>>

(* The file is at its end: exit(0); or the client is gone, and writing to  *)
(* it ends the child (SIGPIPE).                                            *)
Exit(c) ==
  /\ child[c] = "sending"
  /\ \/ Chunk(c) = <<>> /\ Ends(c, "exited")
     \/ Chunk(c) # <<>> /\ pc[c] = "killed" /\ Ends(c, "killed")
  /\ UNCHANGED <<up, backlog, newsockfd, pos, clientVars, request, stream>>

(* The server is killed, with its children.                                *)
KillServer ==
  /\ MayKill /\ up
  /\ up' = FALSE
  /\ backlog' = <<>> /\ newsockfd' = NoClient
  /\ child' = [c \in Client |-> IF c \in Running THEN "killed" ELSE child[c]]
  /\ zombies' = 0
  /\ UNCHANGED <<pos, clientVars, request, stream>>

Next ==
  \/ \E c \in Client, f \in File : Connect(c, f)
  \/ \E c \in Client : Ask(c)
  \/ \E c \in Client : FailToAsk(c)
  \/ \E c \in Client : Receive(c)
  \/ \E c \in Client : EndOfFile(c)
  \/ \E c \in Client : KillClient(c)
  \/ Accept
  \/ CloseNewsockfd
  \/ \E c \in Client : ReadRequest(c)
  \/ \E c \in Client : SendChunk(c)
  \/ \E c \in Client : Exit(c)
  \/ KillServer

Spec == Init /\ [][Next]_vars
-----------------------------------------------------------------------------
(* However many downloads of a file a directory has at a time, and however *)
(* they end, what is written there is the server's file at its place or    *)
(* nothing yet: no download writes at another's offset.                    *)
OnlySourceBytes ==
  \A dir \in Directory, f \in File :
    /\ Len(disk[dir][f]) <= Len(Stored(f))
    /\ \A i \in DOMAIN disk[dir][f] : disk[dir][f][i] \in {Hole, Stored(f)[i]}

(* A client that saw the end of the file from a child that ran to its end  *)
(* has read all of it, whatever the reads and writes were cut into.        *)
EndMeansAll ==
  \A c \in Client :
    pc[c] = "idle" /\ child[c] = "exited" => off[c] = Len(Stored(file[c]))

(* When every download of a file into a directory has ended, and none      *)
(* failed, "new <file>" is the server's file, although one of them may     *)
(* have truncated what another had written.                                *)
WholeWhenQuiet ==
  \A c \in Client :
    LET place == <<DirectoryOf[c], file[c]>> IN
    /\ pc[c] = "idle" /\ child[c] = "exited"
    /\ place \notin incomplete
    /\ \A o \in Client : pc[o] = "reading" => <<DirectoryOf[o], file[o]>> # place
    => disk[DirectoryOf[c]][file[c]] = Stored(file[c])
-----------------------------------------------------------------------------
(* Fairness: every process that can take a step takes it.  Nobody is       *)
(* obliged to start a download or to kill a process.                       *)
Fairness ==
  /\ WF_vars(Accept) /\ WF_vars(CloseNewsockfd)
  /\ \A c \in Client :
       /\ WF_vars(Ask(c) \/ FailToAsk(c))
       /\ WF_vars(Receive(c)) /\ WF_vars(EndOfFile(c))
       /\ WF_vars(ReadRequest(c)) /\ WF_vars(SendChunk(c)) /\ WF_vars(Exit(c))

FairSpec == Spec /\ Fairness

(* No client waits for ever: every connection ends, with the file or       *)
(* without, because the parent closes its copy of each (line 85) and every *)
(* child ends.                                                             *)
EveryDownloadEnds ==
  \A c \in Client : pc[c] \in {"connected", "reading"} ~> pc[c] \in {"idle", "killed"}
=============================================================================
