------------------------------ MODULE Framing ------------------------------
(***************************************************************************)
(* The frames of the CSMA device of assignment 4: what AddHeader makes of  *)
(* a packet, what Receive makes of the frame (csma-net-device.cc), and the *)
(* length of a backoff (backoff.cc).                                       *)
(*                                                                         *)
(* Of a frame only what is told apart: the length/type field, the bytes    *)
(* between header and trailer, and the type in an LLC/SNAP header.         *)
(***************************************************************************)
EXTENDS Integers

CONSTANTS MinSlots, MaxSlots, Ceiling,   \* SetBackoffParams
          Width                          \* bits of an unsigned integer (32)

ASSUME SlotAssumption ==
  MinSlots \in Nat /\ MaxSlots \in Nat /\ Ceiling \in Nat /\ Width \in Nat

EncapsulationMode == {"DIX", "LLC"}

MinPayload == 46      \* of an Ethernet frame
LlcSnap    == 8       \* the size of an LLC/SNAP header
NoLlc      == 0       \* no such header
MaxLength  == 1500    \* what the length/type field means as a length

Padded(size) == IF size < MinPayload THEN MinPayload ELSE size

(* Operators named Wrong_... are faulty variants of the one that follows,  *)
(* used by the mutation checks only: the length counts the padding.        *)
Wrong_AddHeader(mode, size, protocolNumber) ==
  IF mode = "DIX"
  THEN [lengthType |-> protocolNumber, size |-> Padded(size), llc |-> NoLlc]
  ELSE [lengthType |-> Padded(size + LlcSnap), size |-> Padded(size + LlcSnap),
        llc |-> protocolNumber]

AddHeader(mode, size, protocolNumber) ==
  IF mode = "DIX"
  THEN [lengthType |-> protocolNumber, size |-> Padded(size), llc |-> NoLlc]
  ELSE [lengthType |-> size + LlcSnap, size |-> Padded(size + LlcSnap),
        llc |-> protocolNumber]

(* What Receive passes up: length interpretation takes padding and the     *)
(* LLC/SNAP header off, type interpretation leaves the padding.            *)
Unframed(frame) ==
  IF frame.lengthType <= MaxLength
  THEN [protocol |-> frame.llc, size |-> frame.lengthType - LlcSnap]
  ELSE [protocol |-> frame.lengthType, size |-> frame.size]

(* The assertions of Receive, in the length interpretation.                *)
PaddingFits(frame) ==
  frame.lengthType <= MaxLength =>
    frame.size >= frame.lengthType /\ frame.size - frame.lengthType <= MinPayload
-----------------------------------------------------------------------------
(* GetBackoffTime: the slots it may return after so many retries.  A power *)
(* that does not fit an unsigned integer is converted to any value.  The   *)
(* number drawn from a range lies strictly below its greater end, if the   *)
(* ends differ at all, and is cut to an integer; a range given upside down *)
(* is drawn from all the same.                                             *)
PowerLessOne(k) == IF k < Width THEN {2^k - 1} ELSE 0..(2^Width - 1)

Drawn(a, b) == IF a = b THEN {a} ELSE IF a < b THEN a..(b - 1) ELSE b..(a - 1)

(* The ceiling is forgotten.                                               *)
Wrong_GetBackoffTime(retries) ==
  UNION {Drawn(MinSlots, IF m > MaxSlots THEN MaxSlots ELSE m) :
           m \in PowerLessOne(retries)}

GetBackoffTime(retries) ==
  LET ceiling == IF Ceiling > 0 /\ retries > Ceiling THEN Ceiling ELSE retries
  IN  UNION {Drawn(MinSlots, IF m > MaxSlots THEN MaxSlots ELSE m) :
               m \in PowerLessOne(ceiling)}
=============================================================================
