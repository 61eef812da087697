------------------------------ MODULE CsmaLink ------------------------------
(***************************************************************************)
(* The whole CSMA device of assignment 4: the transmit side (module        *)
(* CsmaNetDevice) with frames and backoffs (module Framing), the channel   *)
(* that carries a frame to every device, and the receive side.             *)
(*                                                                         *)
(* The channel, ns-3's own, schedules Receive of all devices at the end of *)
(* a transmission, before its own PropagationCompleteEvent and for the     *)
(* same time; events of one time run in the order they were scheduled.     *)
(***************************************************************************)
EXTENDS CsmaNetDevice, Framing

CONSTANTS Broadcast, Group,   \* addresses; a device stands for its own
          Destination, Size, Protocol,   \* of each packet
          Mtu,
          MayChange,   \* receive side, encapsulation, callback are switched
          MayLose      \* the receive error model corrupts packets

ASSUME AddressAssumption == Destination \in [Packet -> Device \cup {Broadcast, Group}]

(* The layers above use EtherTypes, which are no lengths, and make packets *)
(* as long as GetMtu lets them, which says the same in both encapsulations *)
(* and counts no header; a length fits the 16 bits of its field.           *)
ASSUME PayloadAssumption ==
  /\ Mtu \in Nat /\ Mtu + LlcSnap < 2^16
  /\ Size \in [Packet -> 0..Mtu]
  /\ Protocol \in [Packet -> {t \in Nat : t > MaxLength}]
ASSUME ChangeAssumption == MayChange \in BOOLEAN /\ MayLose \in BOOLEAN

VARIABLES
  m_encapMode, m_receiveEnable,   \* of each device
  m_promiscRxCallback,            \* ... whether it is set (not null)
  frame,       \* of each packet, as AddHeader left it
  onWire,      \* the packet the channel carries, or carried last
  toReceive,   \* the devices whose Receive is scheduled
  heard        \* what each device has passed up, to m_promiscRxCallback or
               \* m_rxCallback or both (history)

switches == <<m_encapMode, m_receiveEnable, m_promiscRxCallback>>
rxVars == <<switches, frame, onWire, toReceive, heard>>
linkVars == <<vars, rxVars>>

NoFrame == [lengthType |-> 0, size |-> 0, llc |-> NoLlc]

PacketType == {"PACKET_BROADCAST", "PACKET_MULTICAST", "PACKET_HOST", "PACKET_OTHERHOST"}

LinkTypeOK ==
  /\ m_encapMode \in [Device -> EncapsulationMode]
  /\ m_receiveEnable \in [Device -> BOOLEAN]
  /\ m_promiscRxCallback \in [Device -> BOOLEAN]
  /\ frame \in [Packet -> [lengthType: Nat, size: Nat, llc: Nat]]
  /\ onWire \in Packet \cup {NoPacket}
  /\ toReceive \subseteq Device /\ (toReceive # {} => m_state = "PROPAGATING")
  /\ heard \in [Device -> Seq([packet: Packet, protocol: Nat, size: Nat,
                               packetType: PacketType])]

(* Whoever listens to everything may have set its callback before the      *)
(* first packet.  m_rxCallback is always set, by the node.                 *)
LinkInit ==
  /\ Init
  /\ m_promiscRxCallback \in [Device -> BOOLEAN]
  /\ m_encapMode \in [Device -> EncapsulationMode]
  /\ m_receiveEnable = [d \in Device |-> TRUE]
  /\ frame = [p \in Packet |-> NoFrame]
  /\ onWire = NoPacket
  /\ toReceive = {}
  /\ heard = [d \in Device |-> <<>>]
-----------------------------------------------------------------------------
(* A handler of the transmit side; if it starts a transmission, the        *)
(* channel takes the current packet of the device it transmits for.        *)
Carries ==
  onWire' = IF m_state # "TRANSMITTING" /\ m_state' = "TRANSMITTING"
            THEN m_currentPkt'[m_currentSrc'] ELSE onWire

Transmits(A) ==
  /\ A /\ Carries
  /\ UNCHANGED <<switches, frame, toReceive, heard>>

(* The header is added at once, in the mode of the moment, although the    *)
(* packet may wait in the queue.                                           *)
LinkSendFrom(d, p) ==
  /\ SendFrom(d, p) /\ Carries
  /\ frame' = [frame EXCEPT ![p] = AddHeader(m_encapMode[d], Size[p], Protocol[p])]
  /\ UNCHANGED <<switches, toReceive, heard>>

(* The channel is not told that the transmission is over.                  *)
Wrong_LinkTransmitCompleteEvent(d) ==
  /\ Wrong_TransmitCompleteEvent(d)
  /\ toReceive' = Device
  /\ UNCHANGED <<switches, frame, onWire, heard>>

(* TransmitEnd schedules the Receive of every device.                      *)
LinkTransmitCompleteEvent(d) ==
  /\ TransmitCompleteEvent(d)
  /\ toReceive' = Device
  /\ UNCHANGED <<switches, frame, onWire, heard>>

LinkPropagationCompleteEvent ==
  /\ toReceive = {}
  /\ PropagationCompleteEvent
  /\ UNCHANGED rxVars

SetEncapsulationMode(d, mode) ==
  /\ MayChange
  /\ m_encapMode' = [m_encapMode EXCEPT ![d] = mode]
  /\ UNCHANGED <<vars, m_receiveEnable, m_promiscRxCallback, frame, onWire, toReceive, heard>>

SetReceiveEnable(d, receiveEnable) ==
  /\ MayChange
  /\ m_receiveEnable' = [m_receiveEnable EXCEPT ![d] = receiveEnable]
  /\ UNCHANGED <<vars, m_encapMode, m_promiscRxCallback, frame, onWire, toReceive, heard>>

SetPromiscReceiveCallback(d, set) ==
  /\ MayChange
  /\ m_promiscRxCallback' = [m_promiscRxCallback EXCEPT ![d] = set]
  /\ UNCHANGED <<vars, m_encapMode, m_receiveEnable, frame, onWire, toReceive, heard>>

TypeFor(d, p) ==
  CASE Destination[p] = Broadcast -> "PACKET_BROADCAST"
    [] Destination[p] = Group -> "PACKET_MULTICAST"
    [] Destination[p] = d -> "PACKET_HOST"
    [] OTHER -> "PACKET_OTHERHOST"

PassedUp(d, p) ==
  LET up == Unframed(frame[p])
  IN  [packet |-> p, protocol |-> up.protocol, size |-> up.size,
       packetType |-> TypeFor(d, p)]

(* m_rxCallback takes what is for this host, the promiscuous callback,     *)
(* where there is one, everything.                                         *)
Taken(d, p) == TypeFor(d, p) # "PACKET_OTHERHOST" \/ m_promiscRxCallback[d]

Hears(d) ==
  heard' = IF Taken(d, onWire)
           THEN [heard EXCEPT ![d] = Append(@, PassedUp(d, onWire))]
           ELSE heard

(* A device's own packets come back to it; Receive returns where there is  *)
(* no promiscuous callback.                                                *)
Wrong_Receive_own(d) ==
  /\ d \in toReceive
  /\ toReceive' = toReceive \ {d}
  /\ \/ /\ ~m_receiveEnable[d] \/ MayLose
        /\ UNCHANGED heard
     \/ m_receiveEnable[d] /\ Hears(d)
  /\ UNCHANGED <<vars, switches, frame, onWire>>

Wrong_Receive_null(d) ==
  /\ d \in toReceive
  /\ toReceive' = toReceive \ {d}
  /\ IF d = m_currentSrc \/ ~m_promiscRxCallback[d]
     THEN UNCHANGED heard ELSE Hears(d)
  /\ UNCHANGED <<vars, switches, frame, onWire>>

Receive(d) ==
  /\ d \in toReceive
  /\ toReceive' = toReceive \ {d}
  /\ \/ /\ d = m_currentSrc \/ ~m_receiveEnable[d] \/ MayLose
        /\ UNCHANGED heard
     \/ d # m_currentSrc /\ m_receiveEnable[d] /\ Hears(d)
  /\ UNCHANGED <<vars, switches, frame, onWire>>

LinkNext ==
  \/ \E d \in Device, p \in Packet : LinkSendFrom(d, p)
  \/ \E d \in Device, p \in Packet : Transmits(RefuseSend(d, p))
  \/ \E d \in Device, b \in BOOLEAN : Transmits(SetSendEnable(d, b))
  \/ \E d \in Device : Transmits(BackoffEvent(d))
  \/ \E d \in Device : Transmits(TransmitReadyEvent(d))
  \/ \E d \in Device : LinkTransmitCompleteEvent(d)
  \/ LinkPropagationCompleteEvent
  \/ \E d \in Device, mode \in EncapsulationMode : SetEncapsulationMode(d, mode)
  \/ \E d \in Device, b \in BOOLEAN : SetReceiveEnable(d, b)
  \/ \E d \in Device, b \in BOOLEAN : SetPromiscReceiveCallback(d, b)
  \/ \E d \in Device : Receive(d)

LinkSpec == LinkInit /\ [][LinkNext]_linkVars
-----------------------------------------------------------------------------
(* A packet arrives as it was handed over, although modes differ between   *)
(* the devices and change while it waits: same protocol, and the same size *)
(* but for the padding of a frame without a length, which stays.  The one  *)
(* exception is a packet whose length with an LLC/SNAP header is no length *)
(* any more, as GetMtu lets it be (AddHeader's assertion fails for it, if  *)
(* the Mtu is 1500): it arrives with the length for its protocol and the   *)
(* header for the beginning of its payload.  Receive's assertions always   *)
(* hold.                                                                   *)
Intact(h) ==
  /\ h.protocol = Protocol[h.packet]
  /\ h.size \in {Size[h.packet], Padded(Size[h.packet])}

Misread(h) ==
  /\ Size[h.packet] + LlcSnap > MaxLength
  /\ h.protocol = Size[h.packet] + LlcSnap /\ h.size = h.protocol

FramesIntact ==
  /\ \A d \in Device : \A i \in DOMAIN heard[d] :
       Intact(heard[d][i]) \/ Misread(heard[d][i])
  /\ onWire # NoPacket => PaddingFits(frame[onWire])

(* "length interpretation must not exceed device frame size minus          *)
(* overhead" (the assertion of AddHeader, line 349): no frame with an      *)
(* LLC/SNAP header is longer than the Mtu.                                 *)
HeaderFits == \A p \in Packet : frame[p].llc # NoLlc => frame[p].size <= Mtu

(* The wire puts all packets in one order: no device hears one twice, its  *)
(* own, or two of them in another order than another device hears them or  *)
(* their sender accepted them in, whatever is lost, dropped or retried.    *)
Before(s, p, q) ==
  \E i, j \in DOMAIN s : i < j /\ s[i] = p /\ s[j] = q

OneOrder ==
  LET packets == [d \in Device |-> [i \in DOMAIN heard[d] |-> heard[d][i].packet]]
  IN  \A d \in Device : \A j \in DOMAIN packets[d] :
        LET q == packets[d][j] IN
        /\ \A k \in DOMAIN accepted[d] : accepted[d][k] # q
        /\ \A i \in 1..(j - 1) :
             LET p == packets[d][i] IN
             /\ p # q
             /\ \A e \in Device : ~Before(packets[e], q, p) /\ ~Before(accepted[e], q, p)
-----------------------------------------------------------------------------
(* Fairness: the simulator runs every scheduled event.                     *)
LinkFairness ==
  /\ \A d \in Device : /\ WF_vars(BackoffEvent(d))
                       /\ WF_vars(TransmitReadyEvent(d))
                       /\ WF_linkVars(LinkTransmitCompleteEvent(d))
                       /\ WF_linkVars(Receive(d))
  /\ WF_linkVars(LinkPropagationCompleteEvent)

LinkFairSpec == LinkSpec /\ LinkFairness

(* While no receive side is switched off and nothing corrupted, whatever   *)
(* gets on the wire is heard by every other device it is for, and by every *)
(* other one that has a promiscuous callback.                              *)
EverybodyHears ==
  \A d, s \in Device, p \in Packet :
    d # s /\ m_state = "TRANSMITTING" /\ m_currentSrc = s /\ onWire = p /\ Taken(d, p)
      ~> \E i \in DOMAIN heard[d] : heard[d][i].packet = p

(* A device that backs off again with the same packet waits at least one   *)
(* slot, and may wait as long as the last time or longer, but not beyond   *)
(* MaxSlots: its retries cannot all be used up at one instant, or at       *)
(* shorter and shorter distances.                                          *)
BackoffGrows ==
  [][\A d \in Device :
       LET now  == GetBackoffTime(m_numBackoffRetries[d])
           next == GetBackoffTime(m_numBackoffRetries'[d])
       IN  events'[d]["TransmitStart"] > 0 =>
             /\ next \subseteq 1..MaxSlots
             /\ events[d]["TransmitStart"] > 0 /\ m_currentPkt'[d] = m_currentPkt[d]
                  => now \subseteq next]_linkVars
=============================================================================
