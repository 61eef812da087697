--------------------------- MODULE SizedTransfer ---------------------------
(***************************************************************************)
(* The forking file server of the lab test (server1.cpp) and its client    *)
(* (client.cpp under cli/).  The server is that of FileTransfer, with a    *)
(* header in front of every file: a buffer that begins with the file's     *)
(* size in decimal.  A file it does not have is answered with nothing.     *)
(* The client takes its first read for the header, whatever that read      *)
(* returned, and shows the percentage of the size it has written.          *)
(***************************************************************************)
EXTENDS FileTransfer, FiniteSetsExt

CONSTANTS Kept,      \* the files that stat finds, and their bytes
          Given,     \* what open and read give of each
          Ten,       \* the base of the size's digits (10)
          Hundred,   \* all of a file, in percent (100)
          MaxInt     \* the greatest int

Newline == 10
Nul     == 0
Digit   == 48..(48 + Ten - 1)

(* sprintf("%d\n") into a buffer of zeros.                                 *)
Digits[n \in Nat] ==
  (IF n < Ten THEN <<>> ELSE Digits[n \div Ten]) \o <<48 + (n % Ten)>>

Header(n) ==
  LET text == Append(Digits[n], Newline)
  IN  [i \in 1..Buffer |-> IF i <= Len(text) THEN text[i] ELSE Nul]

(* atoi: the number at the beginning of the bytes, 0 if there is none.     *)
atoi(bytes) ==
  LET digits == Max({k \in 0..Len(bytes) : \A i \in 1..k : bytes[i] \in Digit})
      value[i \in 0..digits] == IF i = 0 THEN 0 ELSE Ten * value[i - 1] + bytes[i] - 48
  IN  value[digits]

(* What a child sends of a file that stat finds: its size, and as much as  *)
(* the reads give.  Nobody looks whether open or a read has failed.        *)
Sent(f) == Header(Len(Kept[f])) \o Given[f]

ASSUME SentAssumption ==
  /\ Ten \in Nat \ {0, 1} /\ Hundred \in Nat \ {0} /\ MaxInt \in Nat
  /\ Kept \in [DOMAIN Content -> Seq(Nat)]
  /\ \A f \in DOMAIN Kept :
       /\ Len(Kept[f]) <= MaxInt /\ Len(Digits[Len(Kept[f])]) < Buffer
       /\ \E k \in 0..Len(Kept[f]) : Given[f] = SubSeq(Kept[f], 1, k)
       /\ Content[f] = Sent(f)

(* This client's open has a mode.                                          *)
ASSUME ModeAssumption == NoMode = FALSE

VARIABLES
  hdr,      \* of each client: how many bytes it took for the header
  percent   \* the percentage it showed last, 0 before the first

sizedVars == <<vars, hdr, percent>>

SizedInit ==
  /\ Init
  /\ hdr = [c \in Client |-> 0] /\ percent = [c \in Client |-> 0]

(* The server, but for what it sends, is that of FileTransfer.             *)
ServerStep ==
  /\ \/ Accept
     \/ CloseNewsockfd
     \/ \E c \in Client : ReadRequest(c)
     \/ \E c \in Client : SendChunk(c)
     \/ \E c \in Client : Exit(c)
  /\ UNCHANGED <<hdr, percent>>

file_size(c) == atoi(SubSeq(Stored(file[c]), 1, hdr[c]))

(* The size is not known yet.                                              *)
SizedAsk(c) ==
  /\ Ask(c)
  /\ hdr' = [hdr EXCEPT ![c] = 0]
  /\ percent' = [percent EXCEPT ![c] = 0]

(* What was read is written to the file like the rest.                     *)
Wrong_ReadHeader(c) ==
  /\ pc[c] = "reading" /\ hdr[c] = 0
  /\ \E n \in 1..Buffer : Copies(c, n, off[c]) /\ hdr' = [hdr EXCEPT ![c] = n]
  /\ UNCHANGED <<pc, incomplete, percent>>

(* One read takes the header, or the part of it that has come.             *)
ReadHeader(c) ==
  /\ pc[c] = "reading" /\ hdr[c] = 0
  /\ \E n \in 1..Buffer :
       /\ n <= Len(stream[c])
       /\ stream' = [stream EXCEPT ![c] = SubSeq(@, n + 1, Len(@))]
       /\ hdr' = [hdr EXCEPT ![c] = n]
  /\ UNCHANGED <<serverVars, clientVars, request, percent>>

(* total * 100 in an int: what does not fit wraps round.                   *)
Wrapped(n) ==
  LET range == 2 * (MaxInt + 1)
      low   == n % range
  IN  IF low <= MaxInt THEN low ELSE low - range

(* Divided by the size, towards 0, or rounded to the next.                 *)
Wrong_Percent(total, size) == (Wrapped(total * Hundred) + size - 1) \div size

Percent(total, size) ==
  LET n == Wrapped(total * Hundred)
  IN  IF n >= 0 THEN n \div size ELSE -((-n) \div size)

(* Each turn of the loop shows the percentage of what is written; a size   *)
(* of 0 ends the client there.                                             *)
Shows(c, total) ==
  \E size \in {file_size(c)} :
    /\ size # 0
    /\ percent' = [percent EXCEPT ![c] = Percent(total, size)]

DividesByZero(c) ==
  /\ file_size(c) = 0
  /\ pc' = [pc EXCEPT ![c] = "killed"]
  /\ Fails(c)
  /\ UNCHANGED percent

SizedReceive(c) ==
  /\ pc[c] = "reading" /\ hdr[c] > 0
  /\ \E n \in 1..Buffer :
       /\ Copies(c, n, off[c])
       /\ \/ Shows(c, off[c] + n) /\ UNCHANGED <<pc, incomplete>>
          \/ DividesByZero(c)
  /\ UNCHANGED hdr

(* The read that returns 0 has its percentage too, also where nothing came *)
(* at all.                                                                 *)
SizedEndOfFile(c) ==
  /\ pc[c] = "reading" /\ stream[c] = <<>> /\ ~Held(c)
  /\ \/ Shows(c, off[c]) /\ EndOfFile(c)
     \/ /\ DividesByZero(c)
        /\ UNCHANGED <<serverVars, file, off, fdes, disk, mode, downloads, request, stream>>
  /\ UNCHANGED hdr

(* What else FileTransfer has a client or a user do.                       *)
OtherStep ==
  /\ \/ \E c \in Client, f \in File : Connect(c, f)
     \/ \E c \in Client : FailToAsk(c)
     \/ \E c \in Client : KillClient(c)
     \/ KillServer
  /\ UNCHANGED <<hdr, percent>>

SizedNext ==
  \/ \E c \in Client : SizedAsk(c)
  \/ \E c \in Client : ReadHeader(c)
  \/ \E c \in Client : SizedReceive(c)
  \/ \E c \in Client : SizedEndOfFile(c)
  \/ ServerStep
  \/ OtherStep

SizedSpec == SizedInit /\ [][SizedNext]_sizedVars
-----------------------------------------------------------------------------
(* Of clients that have a directory each: the downloaded file is what      *)
(* followed the part taken for the header, without a gap, as far as it     *)
(* came, whatever the server's writes and the client's reads were cut into *)
(* and whoever was killed.                                                 *)
Download(c) == disk[DirectoryOf[c]][file[c]]

Downloading(c) == pc[c] = "reading" \/ (pc[c] = "idle" /\ file[c] # NoFile)

AfterTheHeader ==
  \A c \in Client : Downloading(c) =>
    Download(c) = SubSeq(Stored(file[c]), hdr[c] + 1, hdr[c] + off[c])

(* What the last percentage tells of a download that came to its end.      *)
(* With the whole header read at once, 100 is shown exactly where the file *)
(* is whole and 100 times its size fits an int, even if the server was     *)
(* killed or its reads failed; a child that ran to its end sent all that   *)
(* it could read.  With a header read in part, no such child leaves the    *)
(* file whole, and what is shown is 100 or more: not even 100 tells that   *)
(* the file is good.                                                       *)
PercentageTells ==
  \A c \in Client : pc[c] = "idle" /\ file[c] # NoFile =>
    LET fits == off[c] * Hundred <= MaxInt
        all  == Given[file[c]] = Kept[file[c]]
    IN  IF hdr[c] = Buffer
        THEN /\ percent[c] = Hundred <=> Download(c) = Kept[file[c]] /\ fits
             /\ child[c] = "exited" => Download(c) = Given[file[c]]
        ELSE child[c] = "exited" /\ all =>
               /\ Download(c) # Kept[file[c]]
               /\ fits => percent[c] >= Hundred
-----------------------------------------------------------------------------
(* Fairness of the processes: of the server's parent, its children and the *)
(* clients, each of which goes on as long as it can.                       *)
SizedFairness ==
  /\ WF_vars(Accept \/ CloseNewsockfd)
  /\ \A c \in Client :
       /\ WF_vars(ReadRequest(c) \/ SendChunk(c) \/ Exit(c))
       /\ WF_vars(\/ Ask(c) \/ FailToAsk(c)
                  \/ ReadHeader(c) \/ SizedReceive(c) \/ SizedEndOfFile(c))

SizedFairSpec == SizedSpec /\ SizedFairness
=============================================================================
