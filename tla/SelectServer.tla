---------------------------- MODULE SelectServer ----------------------------
(***************************************************************************)
(* The second file server of the lab test (server2.cpp), one process that  *)
(* serves all connections from one select loop, and its client (client.cpp *)
(* under cli/).                                                            *)
(*                                                                         *)
(* The server sends a header with the size of the file and then the file;  *)
(* it writes them to newsockfd, the connection it accepted last, whichever *)
(* connection the request came from.  Descriptors are numbers, given out   *)
(* lowest first; that of the listening socket is the lowest.  A pass of    *)
(* the loop serves the descriptors select found readable, in their order.  *)
(* A name fits in one segment and is read whole.                           *)
(***************************************************************************)
EXTENDS Integers, Sequences, FiniteSetsExt

CONSTANTS Client, File, NoClient, NoFile,
          Content,    \* the files that stat finds, and their bytes
          Given,      \* what open and read give of each
          Buffer,     \* the bytes of one read or write (1024), and of a header
          Window,     \* bytes a connection holds before write blocks
          Backlog,    \* listen: connections that wait for accept
          MayKill     \* clients may be killed

ASSUME ClientAssumption == IsFiniteSet(Client)
ASSUME NoneAssumption == NoClient \notin Client /\ NoFile \notin File
ASSUME ContentAssumption ==
  /\ \E stored \in SUBSET File : Content \in [stored -> Seq(Nat)]
  /\ \A f \in DOMAIN Content :
       \E k \in 0..Len(Content[f]) : Given[f] = SubSeq(Content[f], 1, k)
ASSUME SizeAssumption ==
  /\ Buffer \in Nat \ {0} /\ Window \in Nat /\ Window >= Buffer
  /\ Backlog \in Nat \ {0} /\ MayKill \in BOOLEAN

listener == 0
Descriptor == 1..Cardinality(Client)

VARIABLES
  up,         \* the server runs
  backlog,    \* connections that wait for accept
  conn,       \* the connection a descriptor stands for
  newsockfd,  \* the descriptor accept returned last
  master,     \* the descriptors select is asked about
  fdmax,      \* the highest of them so far
  read_fds,   \* those the present pass has still to serve
  sending,    \* the bytes of the reply still to be written
  pc,         \* of each client
  name,       \* the file it asks for
  request,    \* sent to the server and not yet read
  stream,     \* bytes sent to the client and not yet read
  got,        \* bytes it has read
  hdr,        \* how many of them its first read took for the header
  order,      \* the clients in the order of their connections (history)
  replies     \* the clients whose replies were written to a client (history)

serverVars == <<up, backlog, conn, newsockfd, master, fdmax, read_fds, sending>>
clientVars == <<pc, name, got, hdr, order>>
vars == <<serverVars, clientVars, request, stream, replies>>

TypeOK ==
  /\ up \in BOOLEAN
  /\ backlog \in Seq(Client) /\ Len(backlog) <= Backlog
  /\ conn \in [Descriptor -> Client \cup {NoClient}]
  /\ newsockfd \in Descriptor \cup {listener}
  /\ master \subseteq Descriptor \cup {listener}
  /\ read_fds \subseteq master
  /\ fdmax \in Descriptor \cup {listener}
  /\ sending \in Seq(Nat)
  /\ pc \in [Client -> {"idle", "connected", "header", "reading", "done",
                        "crashed", "killed"}]
  /\ name \in [Client -> File \cup {NoFile}]
  /\ request \in [Client -> File \cup {NoFile}]
  /\ stream \in [Client -> Seq(Nat)] /\ \A c \in Client : Len(stream[c]) <= Window
  /\ got \in [Client -> Seq(Nat)]
  /\ hdr \in [Client -> 0..Buffer]
  /\ order \in Seq(Client)
  /\ replies \in [Client -> Seq(Client)]

Init ==
  /\ up = TRUE /\ backlog = <<>> /\ newsockfd = listener
  /\ conn = [fd \in Descriptor |-> NoClient]
  /\ master = {listener} /\ fdmax = listener /\ read_fds = {} /\ sending = <<>>
  /\ pc = [c \in Client |-> "idle"] /\ name = [c \in Client |-> NoFile]
  /\ request = [c \in Client |-> NoFile] /\ stream = [c \in Client |-> <<>>]
  /\ got = [c \in Client |-> <<>>] /\ hdr = [c \in Client |-> 0]
  /\ order = <<>> /\ replies = [c \in Client |-> <<>>]
-----------------------------------------------------------------------------
(* The client.                                                             *)
Held(c) == (\E i \in DOMAIN backlog : backlog[i] = c) \/ (\E fd \in Descriptor : conn[fd] = c)

Connect(c, f) ==
  /\ pc[c] = "idle" /\ up /\ Len(backlog) < Backlog
  /\ pc' = [pc EXCEPT ![c] = "connected"]
  /\ name' = [name EXCEPT ![c] = f]
  /\ backlog' = Append(backlog, c)
  /\ order' = Append(order, c)
  /\ UNCHANGED <<up, conn, newsockfd, master, fdmax, read_fds, sending,
                 got, hdr, request, stream, replies>>

(* The name is written, the file of that name emptied for the answer.  The *)
(* write may fail where the server has ended.                              *)
Ask(c) ==
  /\ pc[c] = "connected"
  /\ \/ /\ pc' = [pc EXCEPT ![c] = "header"]
        /\ request' = IF Held(c) THEN [request EXCEPT ![c] = name[c]] ELSE request
     \/ /\ ~Held(c)
        /\ pc' = [pc EXCEPT ![c] = "crashed"]
        /\ UNCHANGED request
  /\ UNCHANGED <<serverVars, name, got, hdr, order, stream, replies>>

Consume(c, n) ==
  /\ n <= Len(stream[c])
  /\ got' = [got EXCEPT ![c] = @ \o SubSeq(stream[c], 1, n)]
  /\ stream' = [stream EXCEPT ![c] = SubSeq(@, n + 1, Len(@))]

(* One read takes the header, or the part of it that has come.             *)
ReadHeader(c) ==
  /\ pc[c] = "header"
  /\ \E n \in 1..Buffer : Consume(c, n) /\ hdr' = [hdr EXCEPT ![c] = n]
  /\ pc' = [pc EXCEPT ![c] = "reading"]
  /\ UNCHANGED <<serverVars, name, order, request, replies>>

(* The number at the beginning of what was taken for the header, and the   *)
(* percentage: a division by zero ends the client.                         *)
file_size(c) == IF hdr[c] = 0 THEN 0 ELSE got[c][1]

(* The loop ends at a read that leaves the buffer unfilled.                *)
Wrong_Read(c) ==
  /\ pc[c] = "reading"
  /\ \E n \in 1..Buffer :
       /\ Consume(c, n)
       /\ pc' = [pc EXCEPT ![c] = IF file_size(c) = 0 THEN "crashed"
                                 ELSE IF n < Buffer THEN "done" ELSE @]
  /\ UNCHANGED <<serverVars, name, hdr, order, request, replies>>

Read(c) ==
  /\ pc[c] = "reading"
  /\ \E n \in 1..Buffer : Consume(c, n)
  /\ pc' = [pc EXCEPT ![c] = IF file_size(c) = 0 THEN "crashed" ELSE @]
  /\ UNCHANGED <<serverVars, name, hdr, order, request, replies>>

(* A read returns 0, or, of a connection that was reset, -1, and what had  *)
(* not come is lost.  The percentage is left out after -1; where the first *)
(* read got nothing, the size is 0 and the next read returns 0.            *)
EndOfFile(c) ==
  /\ pc[c] \in {"header", "reading"} /\ ~Held(c)
  /\ \/ /\ pc[c] = "header" \/ (stream[c] = <<>> /\ file_size(c) = 0)
        /\ pc' = [pc EXCEPT ![c] = "crashed"]
     \/ /\ pc[c] = "reading"
        /\ pc' = [pc EXCEPT ![c] = "done"]
  /\ UNCHANGED <<serverVars, name, got, hdr, order, request, stream, replies>>

Kill(c) ==
  /\ MayKill /\ pc[c] \in {"connected", "header", "reading"}
  /\ pc' = [pc EXCEPT ![c] = "killed"]
  /\ UNCHANGED <<serverVars, name, got, hdr, order, request, stream, replies>>
-----------------------------------------------------------------------------
(* The server.  The process ends, and every connection with it.            *)
Exit ==
  /\ up' = FALSE /\ backlog' = <<>> /\ sending' = <<>>
  /\ conn' = [fd \in Descriptor |-> NoClient]
  /\ master' = {} /\ read_fds' = {}
  /\ UNCHANGED <<newsockfd, fdmax>>

Gone(c) == pc[c] \in {"done", "crashed", "killed"}

Readable(fd) ==
  IF fd = listener THEN backlog # <<>>
  ELSE request[conn[fd]] # NoFile \/ Gone(conn[fd])

(* select, when something is readable; a timeout starts an empty pass.     *)
Select ==
  /\ up /\ read_fds = {} /\ sending = <<>>
  /\ \E fd \in master : Readable(fd)
  /\ read_fds' = {fd \in master : fd <= fdmax /\ Readable(fd)}
  /\ UNCHANGED <<up, backlog, conn, newsockfd, master, fdmax, sending,
                 clientVars, request, stream, replies>>

(* The pass has come to descriptor i.                                      *)
Serves(i) == up /\ sending = <<>> /\ i \in read_fds /\ \A j \in read_fds : i <= j

(* fdmax stays with the listening socket.                                  *)
Wrong_Raised(fd) == fdmax

Raised(fd) == IF fd > fdmax THEN fd ELSE fdmax

Accept ==
  /\ Serves(listener)
  /\ newsockfd' = Min({fd \in Descriptor : conn[fd] = NoClient})
  /\ conn' = [conn EXCEPT ![newsockfd'] = Head(backlog)]
  /\ backlog' = Tail(backlog)
  /\ master' = master \cup {newsockfd'}
  /\ fdmax' = Raised(newsockfd')
  /\ read_fds' = read_fds \ {listener}
  /\ UNCHANGED <<up, sending, clientVars, request, stream, replies>>

(* The descriptor is closed and stays in the set of select.                *)
Wrong_Cleared(i) == master

(* The set ends below it, as if the highest descriptor had been closed.    *)
Wrong_Cleared_above(i) == {fd \in master : fd < i}

Cleared(i) == master \ {i}

(* The read returns 0: the client has gone.                                *)
HangUp(i) ==
  /\ Serves(i) /\ i # listener
  /\ request[conn[i]] = NoFile
  /\ conn' = [conn EXCEPT ![i] = NoClient]
  /\ master' = Cleared(i)
  /\ read_fds' = read_fds \ {i}
  /\ UNCHANGED <<up, backlog, newsockfd, fdmax, sending, clientVars,
                 request, stream, replies>>

(* The read returns -1: the client went with bytes it had not read, which  *)
(* resets the connection.  The server exits.                               *)
ReadFails(i) ==
  /\ Serves(i) /\ i # listener
  /\ request[conn[i]] = NoFile /\ stream[conn[i]] # <<>>
  /\ Exit
  /\ UNCHANGED <<clientVars, request, stream, replies>>

(* The size, and as much of the file as the reads give: nobody looks       *)
(* whether open or a read has failed.                                      *)
Reply(f) ==
  <<Len(Content[f])>> \o [k \in 1..(Buffer - 1) |-> 0] \o Given[f]

(* A request: stat fails and the server exits, or the reply is begun on    *)
(* newsockfd.  When that has been closed, all its writes fail, unnoticed.  *)
Request(i) ==
  /\ Serves(i) /\ i # listener
  /\ LET c == conn[i] IN
     /\ request[c] # NoFile
     /\ request' = [request EXCEPT ![c] = NoFile]
     /\ \/ /\ request[c] \notin DOMAIN Content
           /\ Exit
           /\ UNCHANGED replies
        \/ /\ request[c] \in DOMAIN Content
           /\ IF conn[newsockfd] = NoClient
              THEN UNCHANGED <<sending, replies>>
              ELSE /\ sending' = Reply(request[c])
                   /\ replies' = [replies EXCEPT ![conn[newsockfd]] = Append(@, c)]
           /\ read_fds' = read_fds \ {i}
           /\ UNCHANGED <<up, backlog, conn, newsockfd, master, fdmax>>
  /\ UNCHANGED <<clientVars, stream>>

Room(to, n) == Gone(to) \/ Len(stream[to]) + n <= Window

(* The loop loses a byte.                                                  *)
Wrong_Rest(n) == SubSeq(sending, n + 2, Len(sending))

Rest(n) == SubSeq(sending, n + 1, Len(sending))

(* One write of the header or of the loop.  It waits for room; what is     *)
(* written to a client that has gone is thrown away.                       *)
SendChunk ==
  /\ up /\ sending # <<>>
  /\ LET n == Min({Buffer, Len(sending)})
         to == conn[newsockfd]
     IN  /\ Room(to, n)
         /\ sending' = Rest(n)
         /\ stream' = IF Gone(to) THEN stream
                      ELSE [stream EXCEPT ![to] = @ \o SubSeq(sending, 1, n)]
  /\ UNCHANGED <<up, backlog, conn, newsockfd, master, fdmax, read_fds,
                 clientVars, request, replies>>

(* ... or, once the client's system has answered with a reset, ends the    *)
(* server: nothing handles SIGPIPE.                                        *)
BrokenPipe ==
  /\ up /\ sending # <<>>
  /\ Gone(conn[newsockfd])
  /\ Exit
  /\ UNCHANGED <<clientVars, request, stream, replies>>

Next ==
  \/ \E c \in Client, f \in File : Connect(c, f)
  \/ \E c \in Client : Ask(c)
  \/ \E c \in Client : ReadHeader(c)
  \/ \E c \in Client : Read(c)
  \/ \E c \in Client : EndOfFile(c)
  \/ \E c \in Client : Kill(c)
  \/ Select
  \/ Accept
  \/ \E i \in Descriptor : HangUp(i)
  \/ \E i \in Descriptor : ReadFails(i)
  \/ \E i \in Descriptor : Request(i)
  \/ SendChunk
  \/ BrokenPipe

Spec == Init /\ [][Next]_vars
-----------------------------------------------------------------------------
(* select is asked about exactly the sockets that are open: a closed one   *)
(* would end the server ("select", EBADF), one it does not know, or beyond *)
(* fdmax, would never be served.                                           *)
MasterIsOpen ==
  up => /\ master = {listener} \cup {fd \in Descriptor : conn[fd] # NoClient}
        /\ \A fd \in master : fd <= fdmax

(* Whomever they are meant for, replies are not mixed: what was sent to a  *)
(* client that is still there is a header and a file, whole and in turn,   *)
(* for each request that was answered to it, up to the write that is due.  *)
AllReplies(c) ==
  LET upto[k \in 0..Len(replies[c])] ==
        IF k = 0 THEN <<>> ELSE upto[k - 1] \o Reply(name[replies[c][k]])
  IN  upto[Len(replies[c])]

WholeReplies ==
  \A c \in Client : up /\ ~Gone(c) =>
    got[c] \o stream[c] \o (IF sending # <<>> /\ conn[newsockfd] = c THEN sending ELSE <<>>)
      = AllReplies(c)

(* The client reads until the connection ends, which the server never ends *)
(* while it runs: no download completes.                                   *)
EndOnlyWithServer == \A c \in Client : pc[c] = "done" => ~up

(* "he will receive the size of the file" (client.cpp, after it has        *)
(* written the name of the file): the only reply a client receives is the  *)
(* one to its own request.                                                 *)
OwnReply == \A c \in Client : replies[c] \in {<<>>, <<c>>}
-----------------------------------------------------------------------------
(* Fairness: the server's loop and the clients that run go on.             *)
Fairness ==
  /\ WF_vars(Select) /\ WF_vars(Accept)
  /\ WF_vars(SendChunk \/ BrokenPipe)
  /\ \A i \in Descriptor : WF_vars(HangUp(i) \/ ReadFails(i)) /\ WF_vars(Request(i))
  /\ \A c \in Client : /\ WF_vars(Ask(c)) /\ WF_vars(ReadHeader(c))
                       /\ WF_vars(Read(c)) /\ WF_vars(EndOfFile(c))

FairSpec == Spec /\ Fairness

(* The client that connected last gets the reply to its request, unless    *)
(* somebody connects after it, the server ends, or the client does.        *)
Last(c) == order # <<>> /\ order[Len(order)] = c

Served(c) ==
  /\ \E k \in DOMAIN replies[c] : replies[c][k] = c
  /\ got[c] = AllReplies(c)

LastIsServed ==
  \A c \in Client :
    pc[c] = "header" /\ Last(c) ~> Served(c) \/ ~Last(c) \/ ~up \/ Gone(c)
=============================================================================
