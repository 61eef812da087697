--------------------------- MODULE CsmaLinkProofs ---------------------------
(***************************************************************************)
(* Theorems about CsmaLink, for any devices and packets of any sizes and   *)
(* protocols the assumptions allow, with switches used at any time and     *)
(* packets corrupted at will: frames, the order in which they are heard,   *)
(* and the length of backoffs.                                             *)
(***************************************************************************)
EXTENDS CsmaLink, CsmaNetDeviceProofs, FiniteSetTheorems

(* What AddHeader makes of a packet, Receive undoes in both modes, unless  *)
(* the length with an LLC/SNAP header is none any more; its assertions     *)
(* hold either way.                                                        *)
LEMMA FrameRoundTrip ==
  ASSUME NEW p \in Packet, NEW mode \in EncapsulationMode
  PROVE  LET f  == AddHeader(mode, Size[p], Protocol[p])
             up == Unframed(f)
         IN  /\ f \in [lengthType: Nat, size: Nat, llc: Nat]
             /\ PaddingFits(f)
             /\ up.protocol \in Nat /\ up.size \in Nat
             /\ \/ /\ up.protocol = Protocol[p]
                   /\ up.size \in {Size[p], Padded(Size[p])}
                \/ /\ Size[p] + LlcSnap > MaxLength
                   /\ up.protocol = Size[p] + LlcSnap /\ up.size = up.protocol
<1> DEFINE s == Size[p]
           t == Protocol[p]
<1>1. s \in Nat /\ t \in Nat /\ t > 1500
  BY PayloadAssumption DEF MaxLength
<1> HIDE DEF s, t
<1>2. CASE mode = "DIX"
  BY <1>1, <1>2 DEF AddHeader, Unframed, PaddingFits, Padded, MaxLength, MinPayload,
                    LlcSnap, NoLlc, s, t
<1>3. CASE mode = "LLC"
  BY <1>1, <1>3 DEF AddHeader, Unframed, PaddingFits, Padded, MaxLength, MinPayload,
                    LlcSnap, NoLlc, s, t
<1> QED
  BY <1>2, <1>3 DEF EncapsulationMode

LEMMA MiddleIsElement ==
  ASSUME NEW a, NEW f \in Seq(Packet), NEW c \in Packet, NEW q \in Seq(Packet),
         a = (f \o <<c>>) \o q
  PROVE  \E i \in DOMAIN a : a[i] = c
<1>1. /\ <<c>> \in Seq(Packet) /\ Len(<<c>>) = 1 /\ <<c>>[1] = c
      /\ Len(f) \in Nat /\ Len(q) \in Nat
  BY LenProperties
<1> DEFINE l == <<c>>
           m == f \o l
<1>2. l \in Seq(Packet) /\ Len(l) = 1 /\ l[1] = c /\ a = m \o q
  BY <1>1
<1> HIDE DEF l
<1>3. m \in Seq(Packet) /\ Len(m) = Len(f) + 1 /\ m[Len(f) + 1] = c
  BY <1>1, <1>2, ConcatProperties
<1> HIDE DEF m
<1>4. /\ a \in Seq(Packet) /\ Len(a) = Len(m) + Len(q)
      /\ a[Len(f) + 1] = m[Len(f) + 1]
  BY <1>1, <1>2, <1>3, ConcatProperties
<1>5. Len(f) + 1 \in DOMAIN a
  BY <1>1, <1>3, <1>4, LenProperties
<1> QED
  BY <1>3, <1>4, <1>5
-----------------------------------------------------------------------------
(* The inductive invariant.  A device that transmits has a current packet, *)
(* and that is one it accepted (IInv of the transmit side): so the channel *)
(* carries a packet that has its header, and has one to deliver.           *)
Framed(f, p) ==
  \E mode \in EncapsulationMode : f[p] = AddHeader(mode, Size[p], Protocol[p])

AcceptedFramed ==
  \A d \in Device :
    \A i \in DOMAIN accepted[d] : Framed(frame, accepted[d][i])

WireFramed ==
  /\ m_state # "IDLE" => onWire # NoPacket
  /\ onWire # NoPacket => Framed(frame, onWire)

HeardIntact ==
  \A d \in Device : \A i \in DOMAIN heard[d] :
    Intact(heard[d][i]) \/ Misread(heard[d][i])

LinkInv == LinkTypeOK /\ AcceptedFramed /\ WireFramed /\ HeardIntact

(* The whole device, its receive side at work, is still the transmit side  *)
(* of CsmaNetDevice: what is proved of that holds of it.                   *)
THEOREM LinkIsTransmitSide == LinkSpec => Spec
<1>1. LinkInit => Init
  BY DEF LinkInit
<1>2. [LinkNext]_linkVars => [Next]_vars
  BY DEF LinkNext, linkVars, Transmits, LinkSendFrom, LinkTransmitCompleteEvent,
         LinkPropagationCompleteEvent, SetEncapsulationMode, SetReceiveEnable,
         SetPromiscReceiveCallback, Receive, Next
<1> QED
  BY <1>1, <1>2, PTL DEF LinkSpec, Spec

LEMMA InitLinkInv == LinkInit => LinkInv
<1> SUFFICES ASSUME LinkInit PROVE LinkInv
  OBVIOUS
<1>1. LinkTypeOK
  BY DEF LinkInit, LinkTypeOK, NoFrame, NoLlc
<1>2. AcceptedFramed /\ HeardIntact
  BY DEF LinkInit, Init, AcceptedFramed, HeardIntact
<1>3. WireFramed
  BY DEF LinkInit, Init, WireFramed
<1> QED
  BY <1>1, <1>2, <1>3 DEF LinkInv

(* The channel starts from an idle wire only.                              *)
LEMMA ChannelStarts ==
  ASSUME NEW d, NEW state, NEW pkt, NEW q, NEW ev, TransmitStart(d, state, pkt, q, ev)
  PROVE  UNCHANGED m_state \/ (m_state = "IDLE" /\ m_state' = "TRANSMITTING")
BY DEF TransmitStart, TransmitAbort, chanVars

(* The packet the channel takes is one its sender has accepted.            *)
LEMMA CarriesAccepted ==
  ASSUME IInv', m_state' = "TRANSMITTING"
  PROVE  /\ m_currentPkt'[m_currentSrc'] \in Packet
         /\ \E d \in Device : \E i \in DOMAIN accepted'[d] :
              accepted'[d][i] = m_currentPkt'[m_currentSrc']
<1> DEFINE d == m_currentSrc'
<1>1. d \in Device /\ m_txMachineState'[d] = "BUSY"
  BY DEF IInv, TypeOK, OneSender
<1>2. m_currentPkt'[d] # NoPacket
  BY <1>1 DEF IInv, EventsFindTheirState, EventsOf
<1>3. /\ m_currentPkt'[d] \in Packet /\ finished'[d] \in Seq(Packet)
      /\ m_queue'[d] \in Seq(Packet)
  BY <1>1, <1>2 DEF IInv, TypeOK
<1>4. accepted'[d] = (finished'[d] \o <<m_currentPkt'[d]>>) \o m_queue'[d]
  BY <1>1, <1>2 DEF IInv, InOrder, Current
<1> HIDE DEF d
<1>5. \E i \in DOMAIN accepted'[d] : accepted'[d][i] = m_currentPkt'[d]
  BY <1>3, <1>4, MiddleIsElement
<1> QED
  BY <1>1, <1>3, <1>5 DEF d

(* A frame is only ever replaced by another with its header on.            *)
FramesStay ==
  /\ frame' \in [Packet -> [lengthType: Nat, size: Nat, llc: Nat]]
  /\ \A p \in Packet : Framed(frame, p) => Framed(frame', p)

LEMMA SameFramesStay ==
  ASSUME LinkTypeOK, frame' = frame
  PROVE  FramesStay
BY DEF LinkTypeOK, FramesStay, Framed

LEMMA AcceptedStay ==
  ASSUME IInv, AcceptedFramed, FramesStay, accepted' = accepted
  PROVE  AcceptedFramed'
<1>1. ASSUME NEW d \in Device, NEW i \in DOMAIN accepted'[d]
      PROVE  Framed(frame', accepted'[d][i])
  <2>1. /\ accepted[d] \in Seq(Packet) /\ accepted'[d] = accepted[d]
        /\ i \in DOMAIN accepted[d]
    BY <1>1 DEF IInv, TypeOK
  <2>2. accepted[d][i] \in Packet
    BY <2>1, ElementOfSeq, LenProperties
  <2>3. Framed(frame, accepted[d][i])
    BY <2>1 DEF AcceptedFramed
  <2> QED
    BY <2>1, <2>2, <2>3 DEF FramesStay
<1> QED
  BY <1>1 DEF AcceptedFramed

(* A step of the transmit side other than the end of a transmission.       *)
LEMMA TransmitsLinkInv ==
  ASSUME LinkInv, IInv', Carries, FramesStay, AcceptedFramed',
         UNCHANGED m_state \/ (m_state = "IDLE" /\ m_state' = "TRANSMITTING"),
         UNCHANGED <<switches, toReceive, heard>>
  PROVE  LinkInv'
<1>1. LinkTypeOK /\ WireFramed /\ HeardIntact
  BY DEF LinkInv
<1>2. CASE m_state = "IDLE" /\ m_state' = "TRANSMITTING"
  <2> DEFINE p == m_currentPkt'[m_currentSrc']
  <2>1. p \in Packet /\ Framed(frame', p) /\ onWire' = p
    <3>1. /\ p \in Packet
          /\ \E d \in Device : \E i \in DOMAIN accepted'[d] : accepted'[d][i] = p
      BY <1>2, CarriesAccepted
    <3>2. onWire' = p
      BY <1>2 DEF Carries
    <3> HIDE DEF p
    <3>3. Framed(frame', p)
      BY <3>1 DEF AcceptedFramed
    <3> QED
      BY <3>1, <3>2, <3>3
  <2> HIDE DEF p
  <2>2. onWire' \in Packet /\ onWire' # NoPacket
    BY <2>1, NoPacketAssumption
  <2>3. Framed(frame', onWire')
    BY <2>1 DEF Framed
  <2>4. LinkTypeOK'
    BY <1>1, <1>2, <2>2 DEF LinkTypeOK, FramesStay, switches
  <2>5. WireFramed' /\ HeardIntact'
    BY <1>1, <2>2, <2>3 DEF WireFramed, HeardIntact
  <2> QED
    BY <2>4, <2>5 DEF LinkInv
<1>3. CASE UNCHANGED m_state
  <2>1. onWire' = onWire
    BY <1>3 DEF Carries
  <2>2. LinkTypeOK'
    BY <1>1, <1>3, <2>1 DEF LinkTypeOK, FramesStay, switches
  <2>3. onWire # NoPacket => Framed(frame', onWire)
    BY <1>1 DEF WireFramed, LinkTypeOK, FramesStay
  <2>4. WireFramed' /\ HeardIntact'
    BY <1>1, <1>3, <2>1, <2>3 DEF WireFramed, HeardIntact, Framed
  <2> QED
    BY <2>2, <2>4 DEF LinkInv
<1> QED
  BY <1>2, <1>3

LEMMA LinkSendFromLinkInv ==
  ASSUME LinkInv, IInv, IInv', NEW d \in Device, NEW p \in Packet, LinkSendFrom(d, p)
  PROVE  LinkInv'
<1>1. LinkTypeOK /\ AcceptedFramed /\ m_encapMode[d] \in EncapsulationMode
  BY DEF LinkInv, LinkTypeOK
<1> DEFINE f == AddHeader(m_encapMode[d], Size[p], Protocol[p])
<1>2. f \in [lengthType: Nat, size: Nat, llc: Nat]
  BY <1>1, FrameRoundTrip
<1>3. frame' = [frame EXCEPT ![p] = f]
  BY DEF LinkSendFrom
<1>4. Framed(frame', p)
  <2>1. frame'[p] = f
    BY <1>1, <1>3 DEF LinkTypeOK
  <2> QED
    BY <1>1, <2>1 DEF Framed
<1> HIDE DEF f
<1>5. FramesStay
  <2>1. ASSUME NEW o \in Packet, Framed(frame, o) PROVE Framed(frame', o)
    <3>1. CASE o = p
      BY <1>4, <3>1
    <3>2. CASE o # p
      <4>1. frame'[o] = frame[o]
        BY <1>1, <1>3, <3>2 DEF LinkTypeOK
      <4> QED
        BY <2>1, <4>1 DEF Framed
    <3> QED
      BY <3>1, <3>2
  <2>2. frame' \in [Packet -> [lengthType: Nat, size: Nat, llc: Nat]]
    BY <1>1, <1>2, <1>3 DEF LinkTypeOK
  <2> QED
    BY <2>1, <2>2 DEF FramesStay
<1>6. AcceptedFramed'
  <2>1. ASSUME NEW o \in Device, NEW i \in DOMAIN accepted'[o]
        PROVE  Framed(frame', accepted'[o][i])
    <3>1. accepted[o] \in Seq(Packet) /\ accepted'[o] \in Seq(Packet)
      BY DEF IInv, TypeOK
    <3>2. accepted' = [accepted EXCEPT ![d] = Append(@, p)]
      BY DEF LinkSendFrom, SendFrom
    <3>3. \/ i \in DOMAIN accepted[o] /\ accepted'[o][i] = accepted[o][i]
          \/ accepted'[o][i] = p
      <4>1. CASE o = d
        <5>1. accepted'[o] = Append(accepted[o], p)
          BY <3>2, <4>1 DEF IInv, TypeOK
        <5> DEFINE a == accepted[o]
                   b == accepted'[o]
        <5>2. /\ a \in Seq(Packet) /\ b = Append(a, p) /\ i \in DOMAIN b
          BY <2>1, <3>1, <5>1
        <5> HIDE DEF a, b
        <5>3. /\ Len(a) \in Nat /\ DOMAIN a = 1..Len(a) /\ DOMAIN b = 1..(Len(a) + 1)
              /\ \A k \in 1..Len(a) : b[k] = a[k]
              /\ b[Len(a) + 1] = p
          BY <5>2, LenProperties, AppendProperties
        <5>4. (i \in DOMAIN a /\ b[i] = a[i]) \/ b[i] = p
          BY <5>2, <5>3
        <5> QED
          BY <5>4 DEF a, b
      <4>2. CASE o # d
        <5>1. accepted'[o] = accepted[o]
          BY <3>2, <4>2 DEF IInv, TypeOK
        <5> QED
          BY <2>1, <5>1
      <4> QED
        BY <4>1, <4>2
    <3>4. CASE accepted'[o][i] = p
      BY <1>4, <3>4 DEF Framed
    <3>5. CASE i \in DOMAIN accepted[o] /\ accepted'[o][i] = accepted[o][i]
      <4>1. accepted[o][i] \in Packet
        BY <3>1, <3>5, ElementOfSeq, LenProperties
      <4>2. Framed(frame, accepted[o][i])
        BY <1>1, <3>5 DEF AcceptedFramed
      <4>3. Framed(frame', accepted[o][i])
        BY <1>5, <3>5, <4>1, <4>2 DEF FramesStay, Framed
      <4> QED
        BY <3>5, <4>3 DEF Framed
    <3> QED
      BY <3>3, <3>4, <3>5
  <2> QED
    BY <2>1 DEF AcceptedFramed
<1>7. /\ Carries /\ UNCHANGED <<switches, toReceive, heard>>
      /\ UNCHANGED m_state \/ (m_state = "IDLE" /\ m_state' = "TRANSMITTING")
  BY ChannelStarts DEF LinkSendFrom, SendFrom, chanVars
<1> QED
  BY <1>5, <1>6, <1>7, TransmitsLinkInv

(* Whoever hears the packet gets it as its sender handed it over.          *)
LEMMA PassedUpIntact ==
  ASSUME LinkInv, NEW d \in Device, m_state # "IDLE"
  PROVE  /\ PassedUp(d, onWire) \in [packet: Packet, protocol: Nat, size: Nat,
                                     packetType: PacketType]
         /\ Intact(PassedUp(d, onWire)) \/ Misread(PassedUp(d, onWire))
<1>1. onWire \in Packet /\ Framed(frame, onWire)
  BY DEF LinkInv, LinkTypeOK, WireFramed
<1>2. PICK mode \in EncapsulationMode :
        frame[onWire] = AddHeader(mode, Size[onWire], Protocol[onWire])
  BY <1>1 DEF Framed
<1> DEFINE up == Unframed(frame[onWire])
<1>3. /\ up.protocol \in Nat /\ up.size \in Nat
      /\ \/ /\ up.protocol = Protocol[onWire]
            /\ up.size \in {Size[onWire], Padded(Size[onWire])}
         \/ /\ Size[onWire] + LlcSnap > MaxLength
            /\ up.protocol = Size[onWire] + LlcSnap /\ up.size = up.protocol
  BY <1>1, <1>2, FrameRoundTrip
<1>4. TypeFor(d, onWire) \in PacketType
  BY DEF TypeFor, PacketType
<1>5. PassedUp(d, onWire) = [packet |-> onWire, protocol |-> up.protocol,
                             size |-> up.size, packetType |-> TypeFor(d, onWire)]
  BY DEF PassedUp
<1> HIDE DEF up
<1>6. /\ PassedUp(d, onWire).packet = onWire
      /\ PassedUp(d, onWire).protocol = up.protocol
      /\ PassedUp(d, onWire).size = up.size
  BY <1>5
<1>7. Intact(PassedUp(d, onWire)) \/ Misread(PassedUp(d, onWire))
  BY <1>3, <1>6 DEF Intact, Misread
<1> QED
  BY <1>1, <1>3, <1>4, <1>5, <1>7

LEMMA ReceiveLinkInv ==
  ASSUME LinkInv, IInv, NEW d \in Device, Receive(d)
  PROVE  LinkInv'
<1>1. LinkTypeOK /\ AcceptedFramed /\ WireFramed /\ HeardIntact
  BY DEF LinkInv
<1>2. /\ toReceive' = toReceive \ {d} /\ m_state # "IDLE"
      /\ UNCHANGED <<switches, frame, onWire, m_state, accepted>>
  BY <1>1 DEF Receive, LinkTypeOK, vars, chanVars
<1>3. FramesStay /\ AcceptedFramed' /\ WireFramed'
  BY <1>1, <1>2, SameFramesStay, AcceptedStay DEF WireFramed, Framed
<1> DEFINE Entry == [packet: Packet, protocol: Nat, size: Nat, packetType: PacketType]
           Right(h) == Intact(h) \/ Misread(h)
           h == PassedUp(d, onWire)
<1>4. heard \in [Device -> Seq(Entry)] /\ \A e \in Device : \A i \in DOMAIN heard[e] : Right(heard[e][i])
  BY <1>1 DEF LinkTypeOK, HeardIntact
<1>5. h \in Entry /\ Right(h)
  BY <1>2, PassedUpIntact
<1>6. heard' = heard \/ heard' = [heard EXCEPT ![d] = Append(@, h)]
  BY DEF Receive, Hears
<1> HIDE DEF Entry, Right, h
<1>7. heard' \in [Device -> Seq(Entry)]
  <2>1. heard[d] \in Seq(Entry)
    BY <1>4
  <2>2. Append(heard[d], h) \in Seq(Entry)
    BY <1>5, <2>1, AppendProperties
  <2> QED
    BY <1>4, <1>6, <2>2
<1>8. ASSUME NEW e \in Device, NEW i \in DOMAIN heard'[e] PROVE Right(heard'[e][i])
  <2>1. CASE heard'[e] = heard[e]
    BY <1>4, <1>8, <2>1
  <2>2. CASE heard'[e] = Append(heard[e], h)
    <3> DEFINE a == heard[e]
    <3>1. a \in Seq(Entry) /\ \A k \in DOMAIN a : Right(a[k])
      BY <1>4
    <3>2. i \in DOMAIN Append(a, h) /\ heard'[e][i] = Append(a, h)[i]
      BY <1>8, <2>2
    <3> HIDE DEF a
    <3>3. /\ Len(a) \in Nat /\ DOMAIN a = 1..Len(a)
          /\ DOMAIN Append(a, h) = 1..(Len(a) + 1)
          /\ \A k \in 1..Len(a) : Append(a, h)[k] = a[k]
          /\ Append(a, h)[Len(a) + 1] = h
      BY <1>5, <3>1, LenProperties, AppendProperties
    <3>4. CASE i = Len(a) + 1
      BY <1>5, <3>2, <3>3, <3>4
    <3>5. CASE i \in 1..Len(a)
      BY <3>1, <3>2, <3>3, <3>5
    <3> QED
      BY <3>2, <3>3, <3>4, <3>5
  <2> QED
    BY <1>4, <1>6, <2>1, <2>2
<1>9. LinkTypeOK'
  BY <1>1, <1>2, <1>7 DEF LinkTypeOK, Entry, switches
<1>10. HeardIntact'
  BY <1>8 DEF HeardIntact, Right
<1> QED
  BY <1>3, <1>9, <1>10 DEF LinkInv

LEMMA StepLinkInv == LinkInv /\ IInv /\ IInv' /\ [LinkNext]_linkVars => LinkInv'
<1> SUFFICES ASSUME LinkInv, IInv, IInv', [LinkNext]_linkVars PROVE LinkInv'
  OBVIOUS
<1>1. LinkTypeOK /\ AcceptedFramed /\ WireFramed /\ HeardIntact
  BY DEF LinkInv
<1>2. ASSUME Carries, accepted' = accepted,
             UNCHANGED <<switches, frame, toReceive, heard>>,
             UNCHANGED m_state \/ (m_state = "IDLE" /\ m_state' = "TRANSMITTING")
      PROVE  LinkInv'
  BY <1>1, <1>2, SameFramesStay, AcceptedStay, TransmitsLinkInv
<1>3. ASSUME NEW d \in Device, NEW p \in Packet, LinkSendFrom(d, p) PROVE LinkInv'
  BY <1>3, LinkSendFromLinkInv
<1>4. ASSUME NEW d \in Device, NEW p \in Packet, Transmits(RefuseSend(d, p)) PROVE LinkInv'
  BY <1>2, <1>4 DEF Transmits, RefuseSend, chanVars
<1>5. ASSUME NEW d \in Device, NEW b \in BOOLEAN, Transmits(SetSendEnable(d, b))
      PROVE  LinkInv'
  BY <1>2, <1>5 DEF Transmits, SetSendEnable, chanVars
<1>6. ASSUME NEW d \in Device, Transmits(BackoffEvent(d)) PROVE LinkInv'
  BY <1>2, <1>6, ChannelStarts DEF Transmits, BackoffEvent
<1>7. ASSUME NEW d \in Device, Transmits(TransmitReadyEvent(d)) PROVE LinkInv'
  BY <1>2, <1>7, ChannelStarts DEF Transmits, TransmitReadyEvent, chanVars
<1>8. ASSUME UNCHANGED <<frame, onWire, heard, accepted>>,
             LinkTypeOK', m_state' # "IDLE" => m_state # "IDLE"
      PROVE  LinkInv'
  BY <1>1, <1>8, SameFramesStay, AcceptedStay
     DEF LinkInv, WireFramed, HeardIntact, Framed, Intact, Misread
<1>9. ASSUME NEW d \in Device, LinkTransmitCompleteEvent(d) PROVE LinkInv'
  <2>1. m_state # "IDLE"
    BY <1>9 DEF LinkTransmitCompleteEvent, TransmitCompleteEvent, IInv, TypeOK,
                EventsFindTheirState, EventsOf, OneSender
  <2>2. LinkTypeOK' /\ accepted' = accepted
    BY <1>1, <1>9 DEF LinkTransmitCompleteEvent, TransmitCompleteEvent, LinkTypeOK, switches
  <2> QED
    BY <1>8, <1>9, <2>1, <2>2 DEF LinkTransmitCompleteEvent
<1>10. CASE LinkPropagationCompleteEvent
  <2>1. LinkTypeOK' /\ accepted' = accepted /\ m_state' = "IDLE"
    BY <1>1, <1>10 DEF LinkPropagationCompleteEvent, PropagationCompleteEvent,
                       rxVars, switches, LinkTypeOK
  <2> QED
    BY <1>8, <1>10, <2>1 DEF LinkPropagationCompleteEvent, rxVars
<1>11. ASSUME NEW d \in Device, NEW mode \in EncapsulationMode, SetEncapsulationMode(d, mode)
       PROVE  LinkInv'
  BY <1>1, <1>8, <1>11 DEF SetEncapsulationMode, LinkTypeOK, vars, chanVars
<1>12. ASSUME NEW d \in Device, NEW b \in BOOLEAN, SetReceiveEnable(d, b) PROVE LinkInv'
  BY <1>1, <1>8, <1>12 DEF SetReceiveEnable, LinkTypeOK, vars, chanVars
<1>13. ASSUME NEW d \in Device, Receive(d) PROVE LinkInv'
  BY <1>13, ReceiveLinkInv
<1>14. CASE UNCHANGED linkVars
  BY <1>1, <1>8, <1>14 DEF linkVars, rxVars, switches, LinkTypeOK, vars, chanVars
<1>15. ASSUME NEW d \in Device, NEW b \in BOOLEAN, SetPromiscReceiveCallback(d, b)
       PROVE  LinkInv'
  BY <1>1, <1>8, <1>15 DEF SetPromiscReceiveCallback, LinkTypeOK, vars, chanVars
<1> QED
  BY <1>3, <1>4, <1>5, <1>6, <1>7, <1>9, <1>10, <1>11, <1>12, <1>13, <1>14, <1>15
     DEF LinkNext
-----------------------------------------------------------------------------
LEMMA LinkInductive == LinkSpec => []LinkInv
<1>1. LinkSpec => []IInv
  BY LinkIsTransmitSide, Inductive, PTL
<1> QED
  BY <1>1, InitLinkInv, StepLinkInv, PTL DEF LinkSpec

(* The receive side and the channel keep their types, and only a channel   *)
(* that propagates has a Receive scheduled.                                *)
THEOREM LinkTypeCorrect == LinkSpec => []LinkTypeOK
<1>1. LinkInv => LinkTypeOK
  BY DEF LinkInv
<1> QED
  BY <1>1, LinkInductive, PTL

(* AddHeader, the channel and Receive hand a packet over as it was given   *)
(* to SendFrom, whatever the modes of the devices at the time, but for one *)
(* that is too long for its header, which is misread; the assertions of    *)
(* Receive about lengths hold for every frame on the wire.                 *)
THEOREM FramesArriveIntact == LinkSpec => []FramesIntact
<1>1. ASSUME LinkInv PROVE FramesIntact
  <2>1. ASSUME onWire # NoPacket
        PROVE  PaddingFits(frame[onWire])
    <3>1. onWire \in Packet /\ Framed(frame, onWire)
      BY <1>1, <2>1 DEF LinkInv, LinkTypeOK, WireFramed
    <3> QED
      BY <3>1, FrameRoundTrip DEF Framed
  <2> QED
    BY <1>1, <2>1 DEF LinkInv, HeardIntact, FramesIntact
<1> QED
  BY <1>1, LinkInductive, PTL

(* The assertion of AddHeader holds where the layers above leave room for  *)
(* the header in the Mtu, which GetMtu does not make them do, and the Mtu  *)
(* is no less than a frame's least payload.                                *)
THEOREM HeaderFitsWithRoom ==
  ASSUME MinPayload <= Mtu, \A p \in Packet : Size[p] + LlcSnap <= Mtu
  PROVE  LinkSpec => []HeaderFits
<1>1. LinkInit => HeaderFits
  BY DEF LinkInit, NoFrame, HeaderFits
<1>2. ASSUME LinkTypeOK, HeaderFits, [LinkNext]_linkVars PROVE HeaderFits'
  <2>1. ASSUME NEW d \in Device, NEW p \in Packet, LinkSendFrom(d, p), NEW o \in Packet
        PROVE  frame'[o].llc # NoLlc => frame'[o].size <= Mtu
    <3> DEFINE f == AddHeader(m_encapMode[d], Size[p], Protocol[p])
    <3>1. frame'[o] = IF o = p THEN f ELSE frame[o]
      BY <1>2, <2>1 DEF LinkSendFrom, LinkTypeOK
    <3>2. f.llc # NoLlc => f.size <= Mtu
      <4>1. Size[p] \in Nat /\ Size[p] + 8 <= Mtu /\ 46 <= Mtu
        BY PayloadAssumption DEF LlcSnap, MinPayload
      <4> QED
        BY <4>1 DEF AddHeader, Padded, MinPayload, LlcSnap, NoLlc
    <3> HIDE DEF f
    <3> QED
      BY <1>2, <3>1, <3>2 DEF HeaderFits
  <2>2. CASE frame' = frame
    BY <1>2, <2>2 DEF HeaderFits
  <2>3. frame' = frame \/ \E d \in Device, p \in Packet : LinkSendFrom(d, p)
    BY <1>2 DEF LinkNext, linkVars, rxVars, Transmits, LinkTransmitCompleteEvent,
                LinkPropagationCompleteEvent, SetEncapsulationMode, SetReceiveEnable,
                SetPromiscReceiveCallback, Receive
  <2> QED
    BY <2>1, <2>2, <2>3 DEF HeaderFits
<1> QED
  BY <1>1, <1>2, LinkTypeCorrect, PTL DEF LinkSpec
-----------------------------------------------------------------------------
(* Why the wire puts packets in one order.  A packet is accepted once, by  *)
(* one device; whatever is heard, another device has accepted and is done  *)
(* with.                                                                   *)
AcceptedOnce ==
  \A d, e \in Device : \A i \in DOMAIN accepted[d], j \in DOMAIN accepted[e] :
    accepted[d][i] = accepted[e][j] => d = e /\ i = j

HeardFinished ==
  \A e \in Device : \A j \in DOMAIN heard[e] :
    \E s \in Device \ {e} : \E i \in DOMAIN accepted[s] :
      i <= Len(finished[s]) /\ accepted[s][i] = heard[e][j].packet

(* While the channel transmits, it carries the current packet of its       *)
(* sender.  While it delivers, it carries one the sender is done with, and *)
(* nobody has heard a later packet of that sender; who has heard this one  *)
(* heard nothing after it; and who is still to receive it has not.         *)
CarriesCurrent ==
  m_state = "TRANSMITTING" => onWire = m_currentPkt[m_currentSrc]

Delivers(k) ==
  /\ k <= Len(finished[m_currentSrc]) /\ accepted[m_currentSrc][k] = onWire
  /\ \A e \in Device : \A j \in DOMAIN heard[e] :
       /\ \A i \in DOMAIN accepted[m_currentSrc] :
            accepted[m_currentSrc][i] = heard[e][j].packet => i <= k
       /\ heard[e][j].packet = onWire => j = Len(heard[e]) /\ e \notin toReceive

DeliversLatest ==
  m_state = "PROPAGATING" => \E k \in DOMAIN accepted[m_currentSrc] : Delivers(k)

OrderInv == AcceptedOnce /\ HeardFinished /\ CarriesCurrent /\ DeliversLatest


(* OneOrder for one place of what one device has heard.                    *)
HeardAt(e, j) == heard[e][j].packet

InPlace(d, j) ==
  /\ \A k \in DOMAIN accepted[d] : accepted[d][k] # HeardAt(d, j)
  /\ \A i \in 1..(j - 1) :
       /\ HeardAt(d, i) # HeardAt(d, j)
       /\ \A e \in Device :
            /\ \A a, b \in DOMAIN heard[e] :
                 ~(a < b /\ HeardAt(e, a) = HeardAt(d, j) /\ HeardAt(e, b) = HeardAt(d, i))
            /\ \A a, b \in DOMAIN accepted[e] :
                 ~(a < b /\ accepted[e][a] = HeardAt(d, j) /\ accepted[e][b] = HeardAt(d, i))

AllInPlace == \A d \in Device : \A j \in DOMAIN heard[d] : InPlace(d, j)

LEMMA InPlaceIsOneOrder ==
  ASSUME LinkTypeOK, AllInPlace
  PROVE  OneOrder
<1> DEFINE packets == [d \in Device |-> [i \in DOMAIN heard[d] |-> heard[d][i].packet]]
<1>1. \A d \in Device : /\ DOMAIN packets[d] = DOMAIN heard[d]
                        /\ \A j \in DOMAIN heard[d] : packets[d][j] = HeardAt(d, j)
  BY DEF HeardAt
<1>2. \A d \in Device : \A j \in DOMAIN heard[d] : \A i \in 1..(j - 1) : i \in DOMAIN heard[d]
  BY LenProperties DEF LinkTypeOK
<1> HIDE DEF packets
<1>3. ASSUME NEW d \in Device, NEW j \in DOMAIN packets[d]
      PROVE  /\ \A k \in DOMAIN accepted[d] : accepted[d][k] # packets[d][j]
             /\ \A i \in 1..(j - 1) :
                  /\ packets[d][i] # packets[d][j]
                  /\ \A e \in Device : /\ ~Before(packets[e], packets[d][j], packets[d][i])
                                       /\ ~Before(accepted[e], packets[d][j], packets[d][i])
  <2>1. j \in DOMAIN heard[d] /\ packets[d][j] = HeardAt(d, j) /\ InPlace(d, j)
    BY <1>1, <1>3 DEF AllInPlace
  <2>2. ASSUME NEW i \in 1..(j - 1)
        PROVE  /\ packets[d][i] # packets[d][j]
               /\ \A e \in Device : /\ ~Before(packets[e], packets[d][j], packets[d][i])
                                    /\ ~Before(accepted[e], packets[d][j], packets[d][i])
    <3>1. packets[d][i] = HeardAt(d, i)
      BY <1>1, <1>2, <2>1
    <3> QED
      BY <1>1, <2>1, <3>1 DEF InPlace, Before
  <2> QED
    BY <2>1, <2>2 DEF InPlace
<1> QED
  BY <1>3 DEF OneOrder, packets

(* What SendFrom accepts is new, and the only one that is.                 *)
Grows ==
  /\ \A o \in Device : \A i \in DOMAIN accepted[o] :
       i \in DOMAIN accepted'[o] /\ accepted'[o][i] = accepted[o][i]
  /\ \A o \in Device : \A i \in DOMAIN accepted'[o] :
       \/ i \in DOMAIN accepted[o]
       \/ /\ New(accepted'[o][i])
          /\ \A e \in Device : \A j \in DOMAIN accepted'[e] :
               j \in DOMAIN accepted[e] \/ (e = o /\ j = i)

LEMMA SendFromGrows ==
  ASSUME TypeOK, NEW d \in Device, NEW p \in Packet, SendFrom(d, p)
  PROVE  Grows
<1>1. New(p) /\ accepted' = [accepted EXCEPT ![d] = Append(@, p)]
  BY DEF SendFrom
<1>2. accepted \in [Device -> Seq(Packet)]
  BY DEF TypeOK
<1>3. PICK a \in Seq(Packet), b \in Seq(Packet) : a = accepted[d] /\ b = Append(a, p)
  BY <1>2, AppendProperties
<1>4. accepted'[d] = b /\ \A o \in Device \ {d} : accepted'[o] = accepted[o]
  BY <1>1, <1>2, <1>3
<1>5. /\ Len(a) \in Nat /\ DOMAIN a = 1..Len(a) /\ DOMAIN b = 1..(Len(a) + 1)
      /\ \A k \in 1..Len(a) : b[k] = a[k]
      /\ b[Len(a) + 1] = p
  BY <1>3, LenProperties, AppendProperties
<1>6. \A i \in DOMAIN b : i \in DOMAIN a \/ (i = Len(a) + 1 /\ b[i] = p)
  BY <1>5
<1>7. \A i \in DOMAIN a : i \in DOMAIN b /\ b[i] = a[i]
  BY <1>5
<1>8. \A o \in Device : \A i \in DOMAIN accepted[o] :
        i \in DOMAIN accepted'[o] /\ accepted'[o][i] = accepted[o][i]
  BY <1>3, <1>4, <1>7
<1>9. \A o \in Device : \A i \in DOMAIN accepted'[o] :
        i \in DOMAIN accepted[o] \/ (o = d /\ i = Len(a) + 1 /\ accepted'[o][i] = p)
  BY <1>3, <1>4, <1>6
<1> QED
  BY <1>1, <1>8, <1>9 DEF Grows

LEMMA HeardIsNotNew ==
  ASSUME HeardFinished, NEW e \in Device, NEW j \in DOMAIN heard[e]
  PROVE  ~New(HeardAt(e, j))
BY DEF HeardFinished, HeardAt, New

(* A step that delivers nothing.                                           *)
LEMMA GrowsInOrder ==
  ASSUME LinkTypeOK, AcceptedOnce, HeardFinished, AllInPlace, Grows, heard' = heard,
         \A o \in Device : Len(finished[o]) \in Nat /\ Len(finished'[o]) \in Nat
                           /\ Len(finished[o]) <= Len(finished'[o]),
         \A o \in Device : DOMAIN accepted[o] \subseteq Nat
  PROVE  AcceptedOnce' /\ HeardFinished' /\ AllInPlace'
<1>1. AcceptedOnce'
  <2> SUFFICES ASSUME NEW d \in Device, NEW e \in Device,
                      NEW i \in DOMAIN accepted'[d], NEW j \in DOMAIN accepted'[e],
                      accepted'[d][i] = accepted'[e][j]
               PROVE  d = e /\ i = j
    BY DEF AcceptedOnce
  <2>1. CASE i \in DOMAIN accepted[d] /\ j \in DOMAIN accepted[e]
    BY <2>1 DEF Grows, AcceptedOnce
  <2>2. CASE i \notin DOMAIN accepted[d]
    BY <2>2 DEF Grows, New
  <2>3. CASE j \notin DOMAIN accepted[e]
    BY <2>3 DEF Grows, New
  <2> QED
    BY <2>1, <2>2, <2>3
<1>2. HeardFinished'
  <2> SUFFICES ASSUME NEW e \in Device, NEW j \in DOMAIN heard[e]
               PROVE  \E s \in Device \ {e} : \E i \in DOMAIN accepted'[s] :
                        i <= Len(finished'[s]) /\ accepted'[s][i] = heard[e][j].packet
    BY DEF HeardFinished
  <2>1. PICK s \in Device \ {e} : \E i \in DOMAIN accepted[s] :
          i <= Len(finished[s]) /\ accepted[s][i] = heard[e][j].packet
    BY DEF HeardFinished
  <2>2. PICK i \in DOMAIN accepted[s] :
          i <= Len(finished[s]) /\ accepted[s][i] = heard[e][j].packet
    BY <2>1
  <2>3. i \in Nat /\ i <= Len(finished'[s])
    BY <2>2
  <2> QED
    BY <2>2, <2>3 DEF Grows
<1>3. AllInPlace'
  <2> SUFFICES ASSUME NEW d \in Device, NEW j \in DOMAIN heard[d]
               PROVE  InPlace(d, j)'
    BY DEF AllInPlace
  <2>1. \A e \in Device : \A i : HeardAt(e, i)' = HeardAt(e, i)
    BY DEF HeardAt
  <2>2. ASSUME NEW e \in Device, NEW i \in DOMAIN heard[e], NEW o \in Device,
               NEW k \in DOMAIN accepted'[o], accepted'[o][k] = HeardAt(e, i)
        PROVE  k \in DOMAIN accepted[o] /\ accepted[o][k] = HeardAt(e, i)
    BY <2>2, HeardIsNotNew DEF Grows
  <2>3. InPlace(d, j)
    BY DEF AllInPlace
  <2>4. \A i \in 1..(j - 1) : i \in DOMAIN heard[d]
    BY LenProperties DEF LinkTypeOK
  <2> QED
    BY <2>1, <2>2, <2>3, <2>4 DEF InPlace
<1> QED
  BY <1>1, <1>2, <1>3

(* What a call of TransmitStart does to other devices, the channel, and    *)
(* the number of packets that are done with.                               *)
LEMMA StartEffect ==
  ASSUME TypeOK, NEW d \in Device, NEW state, NEW pkt \in Packet,
         NEW q \in Seq(Packet), NEW ev, TransmitStart(d, state, pkt, q, ev)
  PROVE  /\ \A o \in Device : Len(finished[o]) <= Len(finished'[o])
         /\ \A o \in Device \ {d} : m_currentPkt'[o] = m_currentPkt[o]
         /\ UNCHANGED chanVars \/ (m_state = "IDLE" /\ m_state' = "TRANSMITTING")
<1>1. finished \in [Device -> Seq(Packet)] /\ m_currentPkt \in [Device -> Packet \cup {NoPacket}]
  BY DEF TypeOK
<1>2. <<pkt>> \in Seq(Packet) /\ <<pkt>> \o q \in Seq(Packet)
  BY ConcatProperties
<1>3. ASSUME NEW l \in Seq(Packet), Finishes(d, l)
      PROVE  \A o \in Device : Len(finished[o]) <= Len(finished'[o])
  <2>1. PICK f \in Seq(Packet) : f = finished[d]
    BY <1>1
  <2>2. Len(f) \in Nat /\ Len(f) <= Len(f \o l)
    BY ConcatProperties, LenProperties
  <2>3. finished'[d] = f \o l /\ \A o \in Device \ {d} : finished'[o] = finished[o]
    BY <1>1, <1>3, <2>1 DEF Finishes
  <2>4. \A o \in Device : Len(finished[o]) \in Nat
    BY <1>1, LenProperties
  <2> QED
    BY <2>1, <2>2, <2>3, <2>4
<1>4. ASSUME UNCHANGED finished
      PROVE  \A o \in Device : Len(finished[o]) <= Len(finished'[o])
  <2>1. \A o \in Device : Len(finished[o]) \in Nat
    BY <1>1, LenProperties
  <2> QED
    BY <1>4, <2>1
<1>5. ASSUME NEW s, NEW p2, NEW q2, NEW r2, NEW e2, Becomes(d, s, p2, q2, r2, e2)
      PROVE  \A o \in Device \ {d} : m_currentPkt'[o] = m_currentPkt[o]
  BY <1>1, <1>5 DEF Becomes
<1> QED
  BY <1>2, <1>3, <1>4, <1>5, ChannelStarts DEF TransmitStart, TransmitAbort, chanVars

(* A step of the transmit side in which nothing arrives.                   *)
Moves ==
  /\ \A o \in Device : Len(finished[o]) <= Len(finished'[o])
  /\ Grows /\ Carries /\ UNCHANGED <<toReceive, heard>>
  /\ \/ /\ UNCHANGED chanVars
        /\ m_state = "TRANSMITTING" =>
             m_currentPkt'[m_currentSrc] = m_currentPkt[m_currentSrc]
     \/ m_state = "IDLE" /\ m_state' = "TRANSMITTING"

LEMMA SameGrows == accepted' = accepted => Grows
BY DEF Grows

LEMMA LinkSendFromMoves ==
  ASSUME IInv, NEW d \in Device, NEW p \in Packet, LinkSendFrom(d, p)
  PROVE  Moves
<1>1. SendFrom(d, p) /\ Carries /\ UNCHANGED <<toReceive, heard>> /\ Grows
  BY SendFromGrows DEF LinkSendFrom, IInv
<1>2. TypeOK /\ OneSender /\ m_queue[d] \in Seq(Packet)
  BY DEF IInv, TypeOK
<1>3. CASE m_txMachineState[d] = "READY"
  <2>1. PICK q \in Seq(Packet) : q = Append(m_queue[d], p) /\ q # <<>>
    BY <1>2, AppendProperties
  <2>2. Head(q) \in Packet /\ Tail(q) \in Seq(Packet)
    BY <2>1, HeadThenTail
  <2>3. TransmitStart(d, "READY", Head(q), Tail(q), events[d])
    BY <1>1, <1>3, <2>1 DEF SendFrom
  <2>4. m_state = "TRANSMITTING" => m_currentSrc # d /\ m_currentSrc \in Device
    BY <1>2, <1>3 DEF OneSender, TypeOK
  <2> QED
    BY <1>1, <1>2, <2>2, <2>3, <2>4, StartEffect DEF Moves
<1>4. CASE m_txMachineState[d] # "READY"
  <2>1. UNCHANGED <<m_currentPkt, chanVars, finished>>
    BY <1>1, <1>4 DEF SendFrom
  <2>2. \A o \in Device : Len(finished[o]) \in Nat
    BY <1>2, LenProperties DEF TypeOK
  <2> QED
    BY <1>1, <2>1, <2>2 DEF Moves
<1> QED
  BY <1>3, <1>4

LEMMA EventMoves ==
  ASSUME IInv, NEW d \in Device,
         Transmits(BackoffEvent(d)) \/ Transmits(TransmitReadyEvent(d))
  PROVE  Moves
<1>1. Carries /\ UNCHANGED <<toReceive, heard>> /\ Grows
  BY SameGrows DEF Transmits, BackoffEvent, TransmitReadyEvent
<1>2. TypeOK /\ OneSender /\ EventsOf(d) /\ m_queue[d] \in Seq(Packet)
  BY DEF IInv, TypeOK, EventsFindTheirState
<1>3. \A o \in Device : Len(finished[o]) \in Nat
  BY <1>2, LenProperties DEF TypeOK
<1>4. m_txMachineState[d] # "BUSY"
  BY <1>2 DEF Transmits, BackoffEvent, TransmitReadyEvent, EventsOf
<1>5. m_state = "TRANSMITTING" => m_currentSrc # d /\ m_currentSrc \in Device
  BY <1>2, <1>4 DEF OneSender, TypeOK
<1>6. ASSUME NEW state, NEW pkt \in Packet, NEW q \in Seq(Packet), NEW ev,
             TransmitStart(d, state, pkt, q, ev)
      PROVE  Moves
  BY <1>1, <1>2, <1>5, <1>6, StartEffect DEF Moves
<1>7. CASE BackoffEvent(d)
  <2>1. m_currentPkt[d] \in Packet
    BY <1>2, <1>7 DEF BackoffEvent, EventsOf, TypeOK
  <2> QED
    BY <1>2, <1>6, <1>7, <2>1 DEF BackoffEvent
<1>8. CASE TransmitReadyEvent(d)
  <2>1. CASE m_queue[d] = <<>>
    <3>1. UNCHANGED <<chanVars, finished>>
      BY <1>8, <2>1 DEF TransmitReadyEvent
    <3>2. m_currentPkt' = [m_currentPkt EXCEPT ![d] = m_currentPkt[d]]
      BY <1>8, <2>1 DEF TransmitReadyEvent, Becomes
    <3> QED
      BY <1>1, <1>2, <1>3, <1>5, <3>1, <3>2 DEF Moves, TypeOK
  <2>2. CASE m_queue[d] # <<>>
    <3>1. Head(m_queue[d]) \in Packet /\ Tail(m_queue[d]) \in Seq(Packet)
      BY <1>2, <2>2, HeadThenTail
    <3>2. TransmitStart(d, "READY", Head(m_queue[d]), Tail(m_queue[d]),
                        Ran(events[d], "TransmitReadyEvent"))
      BY <1>8, <2>2 DEF TransmitReadyEvent
    <3> QED
      BY <1>6, <3>1, <3>2
  <2> QED
    BY <2>1, <2>2
<1> QED
  BY <1>7, <1>8 DEF Transmits

LEMMA MovesInOrder ==
  ASSUME LinkTypeOK, IInv, IInv', OrderInv, AllInPlace, Moves
  PROVE  OrderInv' /\ AllInPlace'
<1>1. AcceptedOnce' /\ HeardFinished' /\ AllInPlace'
  <2>1. \A o \in Device : /\ Len(finished[o]) \in Nat /\ Len(finished'[o]) \in Nat
                          /\ DOMAIN accepted[o] \subseteq Nat
    <3>1. \A o \in Device : /\ accepted[o] \in Seq(Packet) /\ finished[o] \in Seq(Packet)
                            /\ finished'[o] \in Seq(Packet)
      BY DEF IInv, TypeOK
    <3>2. \A t \in Seq(Packet) : Len(t) \in Nat /\ DOMAIN t \subseteq Nat
      BY LenProperties
    <3> QED
      BY <3>1, <3>2
  <2> QED
    BY <2>1, GrowsInOrder DEF OrderInv, Moves
<1>2. CarriesCurrent'
  BY DEF OrderInv, CarriesCurrent, Moves, Carries, chanVars
<1>3. DeliversLatest'
  <2> SUFFICES ASSUME m_state' = "PROPAGATING"
               PROVE  \E k \in DOMAIN accepted'[m_currentSrc'] : Delivers(k)'
    BY DEF DeliversLatest
  <2>1. UNCHANGED <<m_state, m_currentSrc, onWire, toReceive, heard>>
    BY DEF Moves, chanVars, Carries
  <2>2. PICK k \in DOMAIN accepted[m_currentSrc] : Delivers(k)
    BY <2>1 DEF OrderInv, DeliversLatest
  <2>3. m_currentSrc \in Device
    BY DEF IInv, TypeOK
  <2>4. /\ k \in Nat /\ Len(finished[m_currentSrc]) \in Nat
        /\ Len(finished'[m_currentSrc]) \in Nat
    <3>1. /\ accepted[m_currentSrc] \in Seq(Packet) /\ finished[m_currentSrc] \in Seq(Packet)
          /\ finished'[m_currentSrc] \in Seq(Packet)
      BY <2>3 DEF IInv, TypeOK
    <3> QED
      BY <3>1, LenProperties
  <2>5. k <= Len(finished'[m_currentSrc])
    <3>1. k <= Len(finished[m_currentSrc])
      BY <2>2 DEF Delivers
    <3>2. Len(finished[m_currentSrc]) <= Len(finished'[m_currentSrc])
      BY <2>3 DEF Moves
    <3> QED
      BY <2>4, <3>1, <3>2
  <2>6. k \in DOMAIN accepted'[m_currentSrc] /\ accepted'[m_currentSrc][k] = onWire
    BY <2>2, <2>3 DEF Delivers, Moves, Grows
  <2>7. ASSUME NEW e \in Device, NEW j \in DOMAIN heard[e],
               NEW i \in DOMAIN accepted'[m_currentSrc],
               accepted'[m_currentSrc][i] = heard[e][j].packet
        PROVE  i <= k
    <3>1. ~New(heard[e][j].packet)
      BY HeardIsNotNew DEF HeardAt, OrderInv
    <3>2. i \in DOMAIN accepted[m_currentSrc] /\ accepted[m_currentSrc][i] = heard[e][j].packet
      BY <2>3, <2>7, <3>1 DEF Moves, Grows
    <3> QED
      BY <2>2, <3>2 DEF Delivers
  <2>8. Delivers(k)'
    BY <2>1, <2>2, <2>5, <2>6, <2>7 DEF Delivers
  <2> QED
    BY <2>1, <2>6, <2>8
<1> QED
  BY <1>1, <1>2, <1>3 DEF OrderInv

(* The sender's current packet is the first it is not done with: the end   *)
(* of its transmission finishes it, and nobody has heard it.               *)
LEMMA CurrentPlace ==
  ASSUME NEW a, NEW f \in Seq(Packet), NEW c \in Packet, NEW q \in Seq(Packet),
         a = (f \o <<c>>) \o q
  PROVE  /\ Len(f) \in Nat /\ Len(f \o <<c>>) = Len(f) + 1
         /\ Len(f) + 1 \in DOMAIN a /\ a[Len(f) + 1] = c
<1>1. PICK l \in Seq(Packet) : l = <<c>> /\ Len(l) = 1 /\ l[1] = c
  <2>1. <<c>> \in Seq(Packet) /\ Len(<<c>>) = 1 /\ <<c>>[1] = c
    OBVIOUS
  <2> QED
    BY <2>1, Zenon
<1>2. PICK m \in Seq(Packet) : m = f \o l
  BY ConcatProperties
<1>3. Len(f) \in Nat /\ Len(q) \in Nat /\ Len(m) = Len(f) + 1 /\ m[Len(f) + 1] = c
  BY <1>1, <1>2, ConcatProperties, LenProperties
<1>4. /\ a \in Seq(Packet) /\ Len(a) = Len(m) + Len(q)
      /\ a[Len(f) + 1] = m[Len(f) + 1]
  BY <1>1, <1>2, <1>3, ConcatProperties
<1>5. Len(f) + 1 \in DOMAIN a
  BY <1>3, <1>4, LenProperties
<1> QED
  BY <1>1, <1>2, <1>3, <1>4, <1>5

LEMMA TransmitCompleteInOrder ==
  ASSUME LinkTypeOK, IInv, OrderInv, AllInPlace, NEW d \in Device, LinkTransmitCompleteEvent(d)
  PROVE  OrderInv' /\ AllInPlace'
<1>1. /\ TransmitCompleteEvent(d) /\ m_state' = "PROPAGATING" /\ m_currentSrc' = m_currentSrc
      /\ UNCHANGED <<onWire, heard, accepted>> /\ toReceive' = Device
      /\ finished' = [finished EXCEPT ![d] = @ \o <<m_currentPkt[d]>>]
  BY DEF LinkTransmitCompleteEvent, TransmitCompleteEvent, Finishes
<1>2. TypeOK /\ OneSender /\ EventsOf(d) /\ InOrder
  BY DEF IInv, EventsFindTheirState
<1>3. m_txMachineState[d] = "BUSY" /\ m_currentPkt[d] \in Packet
  BY <1>1, <1>2 DEF TransmitCompleteEvent, EventsOf, TypeOK
<1>4. m_state = "TRANSMITTING" /\ m_currentSrc = d /\ onWire = m_currentPkt[d]
  BY <1>2, <1>3 DEF OneSender, OrderInv, CarriesCurrent
<1>5. PICK f \in Seq(Packet), q \in Seq(Packet) :
        f = finished[d] /\ q = m_queue[d] /\ accepted[d] = (f \o <<onWire>>) \o q
  BY <1>2, <1>3, <1>4, NoPacketAssumption DEF InOrder, Current, TypeOK
<1>6. PICK k \in Nat : k = Len(f) + 1
  BY LenProperties
<1>7. /\ Len(f) \in Nat /\ Len(f \o <<onWire>>) = k
      /\ k \in DOMAIN accepted[d] /\ accepted[d][k] = onWire
  <2>1. PICK p \in Packet, a \in Seq(Packet) : p = onWire /\ a = accepted[d]
    BY <1>2, <1>3, <1>4 DEF TypeOK
  <2>2. a = (f \o <<p>>) \o q
    BY <1>5, <2>1
  <2>3. /\ Len(f) \in Nat /\ Len(f \o <<p>>) = Len(f) + 1
        /\ Len(f) + 1 \in DOMAIN a /\ a[Len(f) + 1] = p
    BY <2>2, CurrentPlace
  <2> QED
    BY <1>6, <2>1, <2>3
<1>8. /\ Len(finished'[d]) = k
      /\ \A o \in Device \ {d} : finished'[o] = finished[o]
  BY <1>1, <1>2, <1>4, <1>5, <1>7 DEF TypeOK
<1>9. \A o \in Device : /\ Len(finished[o]) \in Nat /\ Len(finished'[o]) \in Nat
                        /\ Len(finished[o]) <= Len(finished'[o])
                        /\ DOMAIN accepted[o] \subseteq Nat
  <2>1. \A o \in Device : accepted[o] \in Seq(Packet) /\ finished[o] \in Seq(Packet)
    BY <1>2 DEF TypeOK
  <2>2. ASSUME NEW o \in Device PROVE Len(finished[o]) \in Nat /\ DOMAIN accepted[o] \subseteq Nat
    BY <2>1, LenProperties
  <2>3. Len(finished'[d]) \in Nat /\ Len(finished[d]) <= Len(finished'[d])
    BY <1>5, <1>6, <1>7, <1>8
  <2>4. ASSUME NEW o \in Device \ {d}
        PROVE  Len(finished'[o]) \in Nat /\ Len(finished[o]) <= Len(finished'[o])
    BY <1>8, <2>2
  <2> QED
    BY <2>2, <2>3, <2>4
<1>10. AcceptedOnce' /\ HeardFinished' /\ AllInPlace'
  BY <1>1, <1>9, SameGrows, GrowsInOrder DEF OrderInv
<1>11. ASSUME NEW e \in Device, NEW j \in DOMAIN heard[e], NEW i \in DOMAIN accepted[d],
              accepted[d][i] = heard[e][j].packet
       PROVE  i < k
  <2>1. PICK s \in Device \ {e} : \E m \in DOMAIN accepted[s] :
          m <= Len(finished[s]) /\ accepted[s][m] = heard[e][j].packet
    BY DEF OrderInv, HeardFinished
  <2>2. PICK m \in DOMAIN accepted[s] :
          m <= Len(finished[s]) /\ accepted[s][m] = heard[e][j].packet
    BY <2>1
  <2>3. s = d /\ i = m /\ i \in Nat
    BY <1>9, <1>11, <2>2 DEF OrderInv, AcceptedOnce
  <2> QED
    BY <1>5, <1>6, <1>7, <2>2, <2>3
<1>12. Delivers(k)'
  <2>1. \A e \in Device : \A j \in DOMAIN heard[e] :
          /\ \A i \in DOMAIN accepted[d] : accepted[d][i] = heard[e][j].packet => i <= k
          /\ heard[e][j].packet # onWire
    <3> SUFFICES ASSUME NEW e \in Device, NEW j \in DOMAIN heard[e]
                 PROVE  /\ \A i \in DOMAIN accepted[d] :
                             accepted[d][i] = heard[e][j].packet => i <= k
                        /\ heard[e][j].packet # onWire
      OBVIOUS
    <3>1. ASSUME NEW i \in DOMAIN accepted[d], accepted[d][i] = heard[e][j].packet
          PROVE  i <= k
      <4>1. i \in Nat /\ i < k
        BY <1>9, <1>11, <3>1
      <4> QED
        BY <1>6, <4>1
    <3>2. heard[e][j].packet # onWire
      <4>1. ~(k < k)
        BY <1>6
      <4> QED
        BY <1>7, <1>11, <4>1
    <3> QED
      BY <3>1, <3>2
  <2> QED
    BY <1>1, <1>4, <1>6, <1>7, <1>8, <2>1 DEF Delivers
<1>13. DeliversLatest' /\ CarriesCurrent'
  BY <1>1, <1>4, <1>7, <1>12 DEF DeliversLatest, CarriesCurrent
<1> QED
  BY <1>10, <1>13 DEF OrderInv

(* What Receive appends nobody has heard a successor of, and the sender    *)
(* has accepted it before whatever else of its packets is to be heard.     *)
LEMMA ReceiveInOrder ==
  ASSUME LinkTypeOK, LinkTypeOK', IInv, OrderInv, AllInPlace, NEW d \in Device, Receive(d)
  PROVE  OrderInv' /\ AllInPlace'
<1> DEFINE src == m_currentSrc
<1>1. /\ d \in toReceive /\ toReceive' = toReceive \ {d} /\ m_state = "PROPAGATING"
      /\ UNCHANGED <<m_state, m_currentSrc, onWire, accepted, finished, m_currentPkt>>
  BY DEF Receive, LinkTypeOK, vars, chanVars, devVars
<1>2. src \in Device /\ \A o \in Device : accepted[o] \in Seq(Packet)
  BY DEF IInv, TypeOK
<1>3. PICK k \in DOMAIN accepted[src] : Delivers(k)
  BY <1>1 DEF OrderInv, DeliversLatest
<1>4. /\ k <= Len(finished[src]) /\ accepted[src][k] = onWire
      /\ \A e \in Device : \A j \in DOMAIN heard[e] :
           /\ \A i \in DOMAIN accepted[src] : accepted[src][i] = HeardAt(e, j) => i <= k
           /\ HeardAt(e, j) = onWire => j = Len(heard[e]) /\ e \notin toReceive
  BY <1>3 DEF Delivers, HeardAt
<1>5. AcceptedOnce' /\ CarriesCurrent'
  BY <1>1 DEF OrderInv, AcceptedOnce, CarriesCurrent
<1>6. CASE heard' = heard
  <2>1. HeardFinished' /\ AllInPlace'
    BY <1>1, <1>6 DEF OrderInv, HeardFinished, AllInPlace, InPlace, HeardAt
  <2>2. Delivers(k)'
    BY <1>1, <1>4, <1>6 DEF Delivers, HeardAt
  <2> QED
    BY <1>1, <1>5, <2>1, <2>2 DEF OrderInv, DeliversLatest
<1>7. CASE heard' # heard
  <2>1. d # src /\ heard' = [heard EXCEPT ![d] = Append(@, PassedUp(d, onWire))]
    BY <1>7 DEF Receive, Hears, Taken
  <2>2. PassedUp(d, onWire).packet = onWire
    BY DEF PassedUp
  <2>3. \A e \in Device : /\ Len(heard[e]) \in Nat /\ DOMAIN heard[e] = 1..Len(heard[e])
                          /\ heard[e] \in Seq([packet: Packet, protocol: Nat, size: Nat,
                                               packetType: PacketType])
    BY LenProperties DEF LinkTypeOK
  <2>4. PICK L \in Nat : L = Len(heard[d]) + 1
    BY <2>3
  <2>5. /\ DOMAIN heard'[d] = 1..L
        /\ heard'[d][L].packet = onWire
        /\ \A j \in 1..(L - 1) : heard'[d][j] = heard[d][j]
        /\ \A e \in Device \ {d} : heard'[e] = heard[e]
    <3>1. heard'[d] = Append(heard[d], PassedUp(d, onWire))
          /\ \A e \in Device \ {d} : heard'[e] = heard[e]
      BY <2>1 DEF LinkTypeOK
    <3>2. PICK a : a = heard[d]
      OBVIOUS
    <3>3. PICK h : h = PassedUp(d, onWire)
      OBVIOUS
    <3>4. Len(a) \in Nat /\ L = Len(a) + 1
      BY <2>3, <2>4, <3>2
    <3>5. /\ DOMAIN Append(a, h) = 1..(Len(a) + 1)
          /\ Append(a, h)[Len(a) + 1] = h
          /\ \A j \in 1..Len(a) : Append(a, h)[j] = a[j]
      BY <3>4
    <3> QED
      BY <2>2, <3>1, <3>2, <3>3, <3>4, <3>5
  <2>6. \A e \in Device : \A j \in DOMAIN heard'[e] :
          \/ j \in DOMAIN heard[e] /\ HeardAt(e, j)' = HeardAt(e, j)
          \/ e = d /\ j = L /\ HeardAt(e, j)' = onWire
    <3>1. DOMAIN heard[d] = 1..(L - 1) /\ \A j \in 1..L : j = L \/ j \in 1..(L - 1)
      BY <2>3, <2>4
    <3>2. \A j \in DOMAIN heard'[d] :
            \/ j \in DOMAIN heard[d] /\ heard'[d][j] = heard[d][j]
            \/ j = L /\ heard'[d][j].packet = onWire
      BY <2>5, <3>1
    <3>3. \A e \in Device \ {d} : heard'[e] = heard[e]
      BY <2>5
    <3> QED
      BY <3>2, <3>3 DEF HeardAt
  <2>7. \A j \in DOMAIN heard[d] : HeardAt(d, j) # onWire
    BY <1>1, <1>4
  <2>8. HeardFinished'
    <3> SUFFICES ASSUME NEW e \in Device, NEW j \in DOMAIN heard'[e]
                 PROVE  \E s \in Device \ {e} : \E i \in DOMAIN accepted[s] :
                          i <= Len(finished[s]) /\ accepted[s][i] = HeardAt(e, j)'
      BY <1>1 DEF HeardFinished, HeardAt
    <3>1. CASE j \in DOMAIN heard[e] /\ HeardAt(e, j)' = HeardAt(e, j)
      BY <3>1 DEF OrderInv, HeardFinished, HeardAt
    <3>2. CASE e = d /\ HeardAt(e, j)' = onWire
      BY <1>2, <1>3, <1>4, <2>1, <3>2
    <3> QED
      BY <2>6, <3>1, <3>2
  <2>9. Delivers(k)'
    <3>1. ASSUME NEW e \in Device, NEW j \in DOMAIN heard'[e]
          PROVE  /\ \A i \in DOMAIN accepted[src] : accepted[src][i] = HeardAt(e, j)' => i <= k
                 /\ HeardAt(e, j)' = onWire => j = Len(heard'[e]) /\ e \notin toReceive'
      <4>1. CASE e = d /\ j = L /\ HeardAt(e, j)' = onWire
        <5>1. \A i \in DOMAIN accepted[src] : accepted[src][i] = onWire => i = k
          BY <1>2, <1>3, <1>4 DEF OrderInv, AcceptedOnce
        <5>2. k \in Nat
          BY <1>2, <1>3, LenProperties
        <5>3. Len(heard'[d]) = L
          <6>1. heard'[d] \in Seq([packet: Packet, protocol: Nat, size: Nat,
                                   packetType: PacketType])
            BY DEF LinkTypeOK
          <6> QED
            BY <2>5, <6>1, LenProperties
        <5> QED
          BY <1>1, <4>1, <5>1, <5>2, <5>3
      <4>2. CASE j \in DOMAIN heard[e] /\ HeardAt(e, j)' = HeardAt(e, j)
        <5>1. CASE e = d
          BY <1>4, <2>7, <4>2, <5>1
        <5>2. CASE e # d
          BY <1>1, <1>4, <2>5, <4>2, <5>2
        <5> QED
          BY <5>1, <5>2
      <4> QED
        BY <2>6, <4>1, <4>2
    <3> QED
      BY <1>1, <1>3, <1>4, <3>1 DEF Delivers, HeardAt
  <2>10. AllInPlace'
    <3> SUFFICES ASSUME NEW e \in Device, NEW j \in DOMAIN heard'[e]
                 PROVE  InPlace(e, j)'
      BY DEF AllInPlace
    <3>1. CASE j \in DOMAIN heard[e] /\ HeardAt(e, j)' = HeardAt(e, j)
      <4>1. InPlace(e, j)
        BY <3>1 DEF AllInPlace
      <4>2. \A i \in 1..(j - 1) : /\ i \in DOMAIN heard[e] /\ i # Len(heard[e])
                                  /\ i \in DOMAIN heard'[e]
        <5>1. PICK N \in Nat : N = Len(heard[e]) /\ DOMAIN heard[e] = 1..N
          BY <2>3
        <5>2. DOMAIN heard'[e] = 1..N \/ DOMAIN heard'[e] = 1..(N + 1)
          BY <2>4, <2>5, <5>1
        <5>3. j \in 1..N
          BY <3>1, <5>1
        <5>4. ASSUME NEW i \in 1..(j - 1)
              PROVE  i \in 1..N /\ i # N /\ i \in 1..(N + 1)
          BY <5>3
        <5> QED
          BY <5>1, <5>2, <5>4
      <4>3. \A i \in 1..(j - 1) : HeardAt(e, i)' = HeardAt(e, i) /\ HeardAt(e, i) # onWire
        BY <1>4, <2>3, <2>4, <2>6, <4>2
      <4>4. ASSUME NEW i \in 1..(j - 1), NEW o \in Device,
                   NEW a \in DOMAIN heard'[o], NEW b \in DOMAIN heard'[o], a < b,
                   HeardAt(o, a)' = HeardAt(e, j), HeardAt(o, b)' = HeardAt(e, i)
            PROVE  FALSE
        <5>1. b \in DOMAIN heard[o] /\ HeardAt(o, b)' = HeardAt(o, b)
          BY <2>6, <4>3, <4>4
        <5>2. a \in DOMAIN heard[o] /\ HeardAt(o, a)' = HeardAt(o, a)
          <6>1. PICK N \in Nat : N = Len(heard[o]) /\ DOMAIN heard[o] = 1..N
            BY <2>3
          <6>2. DOMAIN heard'[o] = 1..N \/ DOMAIN heard'[o] = 1..(N + 1)
            BY <2>4, <2>5, <6>1
          <6>3. a \in 1..N
            BY <4>4, <5>1, <6>1, <6>2
          <6>4. o = d => L = N + 1
            BY <2>4, <6>1
          <6>5. a \in DOMAIN heard[o] /\ ~(o = d /\ a = L)
            BY <6>1, <6>3, <6>4
          <6> QED
            BY <2>6, <4>4, <6>5
        <5> QED
          BY <4>1, <4>4, <5>1, <5>2 DEF InPlace
      <4> QED
        BY <1>1, <3>1, <4>1, <4>3, <4>4 DEF InPlace
    <3>2. CASE e = d /\ j = L /\ HeardAt(e, j)' = onWire
      <4>1. \A i \in 1..(j - 1) : i \in DOMAIN heard[d] /\ HeardAt(d, i)' = HeardAt(d, i)
        <5>1. PICK N \in Nat : N = Len(heard[d]) /\ DOMAIN heard[d] = 1..N /\ L = N + 1
          BY <2>3, <2>4
        <5>2. \A i \in 1..(j - 1) : i \in DOMAIN heard[d]
          BY <3>2, <5>1
        <5> QED
          BY <2>4, <2>5, <5>2 DEF HeardAt
      <4>2. \A i \in DOMAIN accepted[d] : accepted[d][i] # onWire
        BY <1>2, <1>3, <1>4, <2>1 DEF OrderInv, AcceptedOnce
      <4>3. ASSUME NEW i \in 1..(j - 1), NEW o \in Device,
                   NEW a \in DOMAIN heard'[o], NEW b \in DOMAIN heard'[o], a < b,
                   HeardAt(o, a)' = onWire, HeardAt(o, b)' = HeardAt(d, i)
            PROVE  FALSE
        <5>1. CASE o = d
          <6>1. b \in 1..L /\ a \in 1..L
            BY <2>5, <4>3, <5>1
          <6>2. a \notin DOMAIN heard[d]
            BY <2>7, <2>6, <2>5, <4>3, <5>1 DEF HeardAt
          <6>3. DOMAIN heard[d] = 1..(L - 1)
            BY <2>3, <2>4
          <6> QED
            BY <4>3, <6>1, <6>2, <6>3
        <5>2. CASE o # d
          <6>1. /\ a \in DOMAIN heard[o] /\ HeardAt(o, a) = onWire
                /\ b \in DOMAIN heard[o]
            BY <2>5, <4>3, <5>2 DEF HeardAt
          <6>2. a = Len(heard[o])
            BY <1>4, <6>1
          <6> QED
            BY <2>3, <4>3, <6>1, <6>2
        <5> QED
          BY <5>1, <5>2
      <4>4. ASSUME NEW i \in 1..(j - 1), NEW o \in Device,
                   NEW a \in DOMAIN accepted[o], NEW b \in DOMAIN accepted[o], a < b,
                   accepted[o][a] = onWire, accepted[o][b] = HeardAt(d, i)
            PROVE  FALSE
        <5>1. o = src /\ a = k
          BY <1>2, <1>3, <1>4, <4>4 DEF OrderInv, AcceptedOnce
        <5>2. b <= k
          BY <1>4, <4>1, <4>4, <5>1
        <5>3. a \in Nat /\ b \in Nat
          BY <1>2, LenProperties
        <5> QED
          BY <4>4, <5>1, <5>2, <5>3
      <4>5. \A i \in 1..(j - 1) : HeardAt(d, i) # onWire
        BY <2>7, <4>1
      <4> QED
        BY <1>1, <3>2, <4>1, <4>2, <4>3, <4>4, <4>5 DEF InPlace
    <3> QED
      BY <2>6, <3>1, <3>2
  <2> QED
    BY <1>1, <1>3, <1>5, <2>8, <2>9, <2>10 DEF OrderInv, DeliversLatest
<1> QED
  BY <1>6, <1>7

LEMMA StepInOrder ==
  ASSUME LinkTypeOK, LinkTypeOK', IInv, IInv', OrderInv, AllInPlace, [LinkNext]_linkVars
  PROVE  OrderInv' /\ AllInPlace'
<1>1. \A o \in Device : Len(finished[o]) \in Nat
  BY LenProperties DEF IInv, TypeOK
<1>2. ASSUME Carries,
             UNCHANGED <<chanVars, m_currentPkt, accepted, finished, toReceive, heard>>
      PROVE  OrderInv' /\ AllInPlace'
  BY <1>1, <1>2, SameGrows, MovesInOrder DEF Moves
<1>3. ASSUME NEW d \in Device, NEW p \in Packet, LinkSendFrom(d, p)
      PROVE  OrderInv' /\ AllInPlace'
  BY <1>3, LinkSendFromMoves, MovesInOrder
<1>4. ASSUME NEW d \in Device, NEW p \in Packet, Transmits(RefuseSend(d, p))
      PROVE  OrderInv' /\ AllInPlace'
  BY <1>2, <1>4 DEF Transmits, RefuseSend, devVars
<1>5. ASSUME NEW d \in Device, NEW b \in BOOLEAN, Transmits(SetSendEnable(d, b))
      PROVE  OrderInv' /\ AllInPlace'
  BY <1>2, <1>5 DEF Transmits, SetSendEnable, devVars
<1>6. ASSUME NEW d \in Device,
             Transmits(BackoffEvent(d)) \/ Transmits(TransmitReadyEvent(d))
      PROVE  OrderInv' /\ AllInPlace'
  BY <1>6, EventMoves, MovesInOrder
<1>7. ASSUME NEW d \in Device, LinkTransmitCompleteEvent(d)
      PROVE  OrderInv' /\ AllInPlace'
  BY <1>7, TransmitCompleteInOrder
<1>8. CASE LinkPropagationCompleteEvent
  <2>1. m_state' = "IDLE" /\ UNCHANGED <<accepted, finished, heard>>
    BY <1>8 DEF LinkPropagationCompleteEvent, PropagationCompleteEvent, rxVars
  <2>2. CarriesCurrent' /\ DeliversLatest'
    BY <2>1 DEF CarriesCurrent, DeliversLatest
  <2>3. AcceptedOnce' /\ HeardFinished' /\ AllInPlace'
    BY <2>1 DEF OrderInv, AcceptedOnce, HeardFinished, AllInPlace, InPlace, HeardAt
  <2> QED
    BY <2>2, <2>3 DEF OrderInv
<1>9. ASSUME UNCHANGED <<vars, onWire, toReceive, heard>>
      PROVE  OrderInv' /\ AllInPlace'
  BY <1>2, <1>9 DEF vars, devVars, chanVars, Carries
<1>10. ASSUME NEW d \in Device, NEW mode \in EncapsulationMode, SetEncapsulationMode(d, mode)
       PROVE  OrderInv' /\ AllInPlace'
  BY <1>9, <1>10 DEF SetEncapsulationMode
<1>11. ASSUME NEW d \in Device, NEW b \in BOOLEAN, SetReceiveEnable(d, b)
       PROVE  OrderInv' /\ AllInPlace'
  BY <1>9, <1>11 DEF SetReceiveEnable
<1>12. ASSUME NEW d \in Device, Receive(d)
       PROVE  OrderInv' /\ AllInPlace'
  BY <1>12, ReceiveInOrder
<1>13. CASE UNCHANGED linkVars
  BY <1>9, <1>13 DEF linkVars, rxVars
<1>14. ASSUME NEW d \in Device, NEW b \in BOOLEAN, SetPromiscReceiveCallback(d, b)
       PROVE  OrderInv' /\ AllInPlace'
  BY <1>9, <1>14 DEF SetPromiscReceiveCallback
<1> QED
  BY <1>3, <1>4, <1>5, <1>6, <1>7, <1>8, <1>10, <1>11, <1>12, <1>13, <1>14 DEF LinkNext

LEMMA InitInOrder ==
  ASSUME LinkInit
  PROVE  OrderInv /\ AllInPlace
<1>1. CarriesCurrent /\ DeliversLatest
  BY DEF LinkInit, Init, CarriesCurrent, DeliversLatest
<1>2. AcceptedOnce /\ HeardFinished /\ AllInPlace
  BY DEF LinkInit, Init, AcceptedOnce, HeardFinished, AllInPlace
<1> QED
  BY <1>1, <1>2 DEF OrderInv

LEMMA AlwaysInOrder == LinkSpec => [](OrderInv /\ AllInPlace)
<1>1. LinkSpec => []IInv
  BY LinkIsTransmitSide, Inductive, PTL
<1>2. LinkInv => LinkTypeOK
  BY DEF LinkInv
<1>3. LinkTypeOK /\ LinkTypeOK' /\ IInv /\ IInv' /\ (OrderInv /\ AllInPlace)
        /\ [LinkNext]_linkVars => (OrderInv /\ AllInPlace)'
  BY StepInOrder
<1>4. LinkInit => OrderInv /\ AllInPlace
  BY InitInOrder
<1> QED
  BY <1>1, <1>2, <1>3, <1>4, LinkInductive, PTL DEF LinkSpec

(* The wire puts all packets in one order: no device hears one twice or    *)
(* its own, and no two of them in another order than another device hears  *)
(* them or their sender accepted them in.                                  *)
THEOREM WireOrders == LinkSpec => []OneOrder
<1>1. LinkInv => LinkTypeOK
  BY DEF LinkInv
<1>2. LinkTypeOK /\ AllInPlace => OneOrder
  BY InPlaceIsOneOrder
<1> QED
  BY <1>1, <1>2, AlwaysInOrder, LinkInductive, PTL
-----------------------------------------------------------------------------
(* The powers of two grow: they count the subsets of growing sets.         *)
LEMMA PowersGrow ==
  ASSUME NEW j \in Nat, NEW k \in Nat, j <= k
  PROVE  2^j \in Nat /\ 2^k \in Nat /\ 2^j <= 2^k
<1>1. ASSUME NEW n \in Nat
      PROVE  /\ IsFiniteSet(SUBSET (1..n)) /\ Cardinality(SUBSET (1..n)) = 2^n
             /\ Cardinality(SUBSET (1..n)) \in Nat
  <2>1. IsFiniteSet(1..n) /\ Cardinality(1..n) = n
    BY FS_Interval
  <2>2. IsFiniteSet(SUBSET (1..n)) /\ Cardinality(SUBSET (1..n)) = 2^Cardinality(1..n)
    BY <2>1, FS_SUBSET
  <2> QED
    BY <2>1, <2>2, FS_CardinalityType
<1>2. SUBSET (1..j) \in SUBSET (SUBSET (1..k))
  OBVIOUS
<1>3. Cardinality(SUBSET (1..j)) <= Cardinality(SUBSET (1..k))
  BY <1>1, <1>2, FS_Subset
<1> QED
  BY <1>1, <1>3

(* Backoffs as the constructor sets them: a least number of one slot, and  *)
(* no power of two that does not fit.                                      *)
BackoffsFit ==
  /\ MinSlots = 1 /\ MaxSlots >= 1
  /\ (0 < Ceiling /\ Ceiling < Width) \/ MaxRetries < Width

Exponent(retries) == IF Ceiling > 0 /\ retries > Ceiling THEN Ceiling ELSE retries

Greatest(m) == IF m > MaxSlots THEN MaxSlots ELSE m

LEMMA SlotsDrawn ==
  ASSUME BackoffsFit, NEW r \in 1..MaxRetries
  PROVE  /\ Exponent(r) \in Nat /\ Exponent(r) >= 1 /\ 2^Exponent(r) \in Nat
         /\ 2^Exponent(r) - 1 >= 1
         /\ GetBackoffTime(r) = Drawn(1, Greatest(2^Exponent(r) - 1))
<1> DEFINE k == Exponent(r)
<1>1. r \in Nat /\ r >= 1 /\ Ceiling \in Nat /\ Width \in Nat /\ MaxRetries \in Nat
  BY SlotAssumption, LimitAssumption
<1>2. k \in Nat /\ k >= 1 /\ k < Width
  BY <1>1 DEF Exponent, BackoffsFit
<1> HIDE DEF k
<1>3. PICK m : m = 2^k - 1
  OBVIOUS
<1>4. 2^k \in Nat /\ 2^1 <= 2^k /\ 2^1 = 2
  <2>1. 2^1 = 2
    OBVIOUS
  <2>2. 1 \in Nat /\ 1 <= k
    BY <1>2
  <2>3. 2^k \in Nat /\ 2^1 <= 2^k
    BY <1>2, <2>2, PowersGrow
  <2> QED
    BY <2>1, <2>3
<1>5. PowerLessOne(k) = {m}
  BY <1>2, <1>3 DEF PowerLessOne
<1>6. GetBackoffTime(r) = UNION {Drawn(MinSlots, Greatest(x)) : x \in PowerLessOne(k)}
  BY DEF GetBackoffTime, Greatest, Exponent, k
<1>7. GetBackoffTime(r) = Drawn(1, Greatest(m))
  BY <1>5, <1>6 DEF BackoffsFit
<1> QED
  BY <1>2, <1>3, <1>4, <1>7 DEF k

LEMMA DrawnGrows ==
  ASSUME NEW a \in Nat, NEW b \in Nat, 1 <= a, a <= b, b <= MaxSlots, MaxSlots \in Nat
  PROVE  Drawn(1, a) \subseteq Drawn(1, b) /\ Drawn(1, b) \subseteq 1..MaxSlots
BY DEF Drawn

LEMMA BackoffRange ==
  ASSUME BackoffsFit, NEW r \in 1..MaxRetries, NEW t \in 1..MaxRetries, r <= t
  PROVE  /\ GetBackoffTime(t) \subseteq 1..MaxSlots
         /\ GetBackoffTime(r) \subseteq GetBackoffTime(t)
<1>1. r \in Nat /\ t \in Nat /\ Ceiling \in Nat /\ MaxSlots \in Nat /\ MaxSlots >= 1
  BY SlotAssumption, LimitAssumption DEF BackoffsFit
<1>2. PICK m \in Nat : m = 2^Exponent(r) - 1 /\ m >= 1 /\ GetBackoffTime(r) = Drawn(1, Greatest(m))
  <2>1. /\ 2^Exponent(r) - 1 \in Nat /\ 2^Exponent(r) - 1 >= 1
        /\ GetBackoffTime(r) = Drawn(1, Greatest(2^Exponent(r) - 1))
    BY SlotsDrawn
  <2> QED
    BY <2>1
<1>3. PICK n \in Nat : n = 2^Exponent(t) - 1 /\ n >= 1 /\ GetBackoffTime(t) = Drawn(1, Greatest(n))
  <2>1. /\ 2^Exponent(t) - 1 \in Nat /\ 2^Exponent(t) - 1 >= 1
        /\ GetBackoffTime(t) = Drawn(1, Greatest(2^Exponent(t) - 1))
    BY SlotsDrawn
  <2> QED
    BY <2>1
<1>4. m <= n
  <2>1. Exponent(r) \in Nat /\ Exponent(t) \in Nat /\ Exponent(r) <= Exponent(t)
    BY <1>1 DEF Exponent
  <2>2. 2^Exponent(r) \in Nat /\ 2^Exponent(t) \in Nat /\ 2^Exponent(r) <= 2^Exponent(t)
    BY <2>1, PowersGrow
  <2> QED
    BY <1>2, <1>3, <2>2
<1>5. PICK a \in Nat : a = Greatest(m)
  BY <1>1 DEF Greatest
<1>6. PICK b \in Nat : b = Greatest(n)
  BY <1>1 DEF Greatest
<1>7. 1 <= a /\ a <= b /\ b <= MaxSlots
  BY <1>1, <1>2, <1>3, <1>4, <1>5, <1>6 DEF Greatest
<1> QED
  BY <1>1, <1>2, <1>3, <1>5, <1>6, <1>7, DrawnGrows

(* A device that waits for another try has counted one, and a step counts  *)
(* on while the packet is the same: after TransmitAbort it is another,     *)
(* since no packet is accepted twice.                                      *)
Waits(d) == m_txMachineState[d] = "BACKOFF" /\ m_currentPkt[d] # NoPacket

Counted == \A d \in Device : Waits(d) => m_numBackoffRetries[d] >= 1

CountsOn(d) ==
  Waits(d) /\ Waits(d)' /\ m_currentPkt'[d] = m_currentPkt[d]
    => m_numBackoffRetries'[d] >= m_numBackoffRetries[d]

LEMMA NextIsAnother ==
  ASSUME IInv, AcceptedOnce, NEW d \in Device, m_currentPkt[d] # NoPacket, m_queue[d] # <<>>
  PROVE  Head(m_queue[d]) # m_currentPkt[d]
<1>1. PICK f \in Seq(Packet), q \in Seq(Packet), p \in Packet :
        f = finished[d] /\ q = m_queue[d] /\ p = m_currentPkt[d] /\ q # <<>>
  BY DEF IInv, TypeOK
<1>2. PICK a \in Seq(Packet) : a = accepted[d]
  BY DEF IInv, TypeOK
<1>3. a = f \o <<p>> \o q
  BY <1>1, <1>2 DEF IInv, InOrder, Current
<1>4. PICK m : m = f \o <<p>>
  OBVIOUS
<1>5. Len(f) \in Nat /\ <<p>> \in Seq(Packet) /\ Len(<<p>>) = 1 /\ <<p>>[1] = p
  BY LenProperties
<1>6. /\ m \in Seq(Packet) /\ Len(m) = Len(f) + 1 /\ m[Len(f) + 1] = p
  BY <1>4, <1>5, ConcatProperties
<1>7. Len(q) \in Nat /\ Len(q) >= 1 /\ Head(q) = q[1]
  BY <1>1
<1>8. a = m \o q
  BY <1>3, <1>4
<1>9. PICK l \in Nat : l = Len(f) + 1
  BY <1>5
<1>10. /\ Len(a) = l + Len(q)
       /\ \A i \in 1..(l + Len(q)) : a[i] = IF i <= l THEN m[i] ELSE q[i - l]
  <2>1. /\ Len(m \o q) = Len(m) + Len(q)
        /\ \A i \in 1..(Len(m) + Len(q)) :
             (m \o q)[i] = IF i <= Len(m) THEN m[i] ELSE q[i - Len(m)]
    BY <1>6, ConcatProperties
  <2>2. Len(m) = l
    BY <1>6, <1>9
  <2> QED
    BY <1>8, <2>1, <2>2
<1>11. /\ l \in DOMAIN a /\ l + 1 \in DOMAIN a /\ l # l + 1
       /\ l \in 1..(l + Len(q)) /\ l + 1 \in 1..(l + Len(q)) /\ (l + 1) - l = 1
  BY <1>5, <1>7, <1>9, <1>10, LenProperties
<1>12. a[l] = p /\ a[l + 1] = Head(q)
  BY <1>6, <1>7, <1>9, <1>10, <1>11
<1>13. a[l] # a[l + 1]
  BY <1>2, <1>11 DEF AcceptedOnce
<1> QED
  BY <1>1, <1>12, <1>13

LEMMA BecomesCounted ==
  ASSUME TypeOK, Counted, NEW d \in Device, NEW s, NEW p2, NEW q2, NEW r2, NEW e2,
         Becomes(d, s, p2, q2, r2, e2),
         s = "BACKOFF" /\ p2 # NoPacket =>
           r2 >= 1 /\ (Waits(d) /\ p2 = m_currentPkt[d] => r2 >= m_numBackoffRetries[d])
  PROVE  Counted' /\ \A o \in Device : CountsOn(o)
<1>1. /\ m_txMachineState'[d] = s /\ m_currentPkt'[d] = p2 /\ m_numBackoffRetries'[d] = r2
      /\ \A o \in Device \ {d} :
           /\ m_txMachineState'[o] = m_txMachineState[o]
           /\ m_currentPkt'[o] = m_currentPkt[o]
           /\ m_numBackoffRetries'[o] = m_numBackoffRetries[o]
  BY DEF Becomes, TypeOK
<1>2. \A o \in Device : m_numBackoffRetries[o] \in 0..MaxRetries
  BY DEF TypeOK
<1> QED
  BY <1>1, <1>2, LimitAssumption DEF Counted, CountsOn, Waits

LEMMA TransmitStartCounts ==
  ASSUME TypeOK, Counted, NEW d \in Device, NEW state, NEW pkt, NEW q, NEW ev,
         TransmitStart(d, state, pkt, q, ev),
         Waits(d) /\ q # <<>> => Head(q) # m_currentPkt[d]
  PROVE  Counted' /\ \A o \in Device : CountsOn(o)
<1>1. m_numBackoffRetries[d] \in Nat /\ MaxRetries \in Nat
  BY LimitAssumption DEF TypeOK
<1>2. ASSUME NEW s, NEW q2, NEW r2, Becomes(d, s, NoPacket, q2, r2, ev)
      PROVE  Counted' /\ \A o \in Device : CountsOn(o)
  BY <1>2, BecomesCounted
<1>3. ASSUME TransmitAbort(d, pkt, q, ev) PROVE Counted' /\ \A o \in Device : CountsOn(o)
  <2>1. CASE Becomes(d, "READY", NoPacket, <<>>, 0, ev)
    BY <1>2, <2>1
  <2>2. CASE /\ q # <<>>
             /\ Becomes(d, "BACKOFF", Head(q), Tail(q), 1, Scheduled(ev, "TransmitStart"))
    <3>1. Waits(d) => Head(q) # m_currentPkt[d]
      BY <2>2
    <3> QED
      BY <2>2, <3>1, BecomesCounted
  <2> QED
    BY <1>3, <2>1, <2>2 DEF TransmitAbort
<1>4. CASE Becomes(d, "BACKOFF", pkt, q, m_numBackoffRetries[d] + 1,
                   Scheduled(ev, "TransmitStart"))
  BY <1>1, <1>4, BecomesCounted
<1>5. CASE Becomes(d, "BUSY", pkt, q, 0, Scheduled(ev, "TransmitCompleteEvent"))
  BY <1>5, BecomesCounted
<1> QED
  BY <1>2, <1>3, <1>4, <1>5 DEF TransmitStart

LEMMA StepCounts ==
  ASSUME IInv, AcceptedOnce, Counted, [Next]_vars
  PROVE  Counted' /\ \A o \in Device : CountsOn(o)
<1>1. TypeOK /\ \A d \in Device : EventsOf(d)
  BY DEF IInv, EventsFindTheirState
<1>2. ASSUME UNCHANGED <<m_txMachineState, m_currentPkt, m_numBackoffRetries>>
      PROVE  Counted' /\ \A o \in Device : CountsOn(o)
  <2>1. \A o \in Device : m_numBackoffRetries[o] \in Nat
    BY <1>1, LimitAssumption DEF TypeOK
  <2> QED
    BY <1>2, <2>1 DEF Counted, CountsOn, Waits
<1>3. ASSUME NEW d \in Device, NEW p \in Packet, SendFrom(d, p)
      PROVE  Counted' /\ \A o \in Device : CountsOn(o)
  <2> DEFINE q == Append(m_queue[d], p)
  <2>1. CASE m_txMachineState[d] = "READY"
    <3>1. TransmitStart(d, "READY", Head(q), Tail(q), events[d]) /\ ~Waits(d)
      BY <1>3, <2>1 DEF SendFrom, Waits
    <3> HIDE DEF q
    <3> QED
      BY <1>1, <3>1, TransmitStartCounts
  <2>2. CASE m_txMachineState[d] # "READY"
    BY <1>2, <1>3, <2>2 DEF SendFrom
  <2> QED
    BY <2>1, <2>2
<1>4. ASSUME NEW d \in Device, BackoffEvent(d)
      PROVE  Counted' /\ \A o \in Device : CountsOn(o)
  <2>1. TransmitStart(d, m_txMachineState[d], m_currentPkt[d], m_queue[d],
                      Ran(events[d], "TransmitStart"))
    BY <1>4 DEF BackoffEvent
  <2>2. Waits(d) /\ m_queue[d] # <<>> => Head(m_queue[d]) # m_currentPkt[d]
    BY NextIsAnother DEF Waits
  <2> QED
    BY <1>1, <2>1, <2>2, TransmitStartCounts
<1>5. ASSUME NEW d \in Device, TransmitCompleteEvent(d)
      PROVE  Counted' /\ \A o \in Device : CountsOn(o)
  BY <1>1, <1>5, BecomesCounted DEF TransmitCompleteEvent
<1>6. ASSUME NEW d \in Device, TransmitReadyEvent(d)
      PROVE  Counted' /\ \A o \in Device : CountsOn(o)
  <2> DEFINE ev == Ran(events[d], "TransmitReadyEvent")
             q  == m_queue[d]
  <2>1. ~Waits(d)
    BY <1>1, <1>6 DEF TransmitReadyEvent, EventsOf, Waits
  <2>2. \/ Becomes(d, "READY", m_currentPkt[d], q, m_numBackoffRetries[d], ev)
        \/ TransmitStart(d, "READY", Head(q), Tail(q), ev)
    BY <1>6 DEF TransmitReadyEvent
  <2> HIDE DEF ev, q
  <2>3. CASE Becomes(d, "READY", m_currentPkt[d], q, m_numBackoffRetries[d], ev)
    BY <1>1, <2>3, BecomesCounted
  <2>4. CASE TransmitStart(d, "READY", Head(q), Tail(q), ev)
    BY <1>1, <2>1, <2>4, TransmitStartCounts
  <2> QED
    BY <2>2, <2>3, <2>4
<1>7. ASSUME NEW d \in Device, NEW p \in Packet, RefuseSend(d, p)
      PROVE  Counted' /\ \A o \in Device : CountsOn(o)
  BY <1>2, <1>7 DEF RefuseSend, devVars
<1>8. ASSUME NEW d \in Device, NEW b \in BOOLEAN, SetSendEnable(d, b)
      PROVE  Counted' /\ \A o \in Device : CountsOn(o)
  BY <1>2, <1>8 DEF SetSendEnable, devVars
<1>9. CASE PropagationCompleteEvent
  BY <1>2, <1>9 DEF PropagationCompleteEvent, devVars
<1>10. CASE UNCHANGED vars
  BY <1>2, <1>10 DEF vars, devVars
<1> QED
  BY <1>3, <1>4, <1>5, <1>6, <1>7, <1>8, <1>9, <1>10 DEF Next

(* A device that has a try scheduled is one that waits.                    *)
LEMMA ScheduledWaits ==
  ASSUME IInv, NEW d \in Device
  PROVE  events[d]["TransmitStart"] > 0 <=> Waits(d)
<1>1. EventsOf(d)
  BY DEF IInv, EventsFindTheirState
<1> QED
  BY <1>1 DEF EventsOf, Waits

Grown(d) ==
  LET now  == GetBackoffTime(m_numBackoffRetries[d])
      next == GetBackoffTime(m_numBackoffRetries'[d])
  IN  events'[d]["TransmitStart"] > 0 =>
        /\ next \subseteq 1..MaxSlots
        /\ events[d]["TransmitStart"] > 0 /\ m_currentPkt'[d] = m_currentPkt[d]
             => now \subseteq next

LEMMA StepGrows ==
  ASSUME BackoffsFit, IInv, IInv', Counted, Counted', NEW d \in Device, CountsOn(d)
  PROVE  Grown(d)
<1>1. events[d]["TransmitStart"] > 0 <=> Waits(d)
  BY ScheduledWaits
<1>2. (events[d]["TransmitStart"] > 0)' <=> Waits(d)'
  <2>1. EventsOf(d)'
    BY DEF IInv, EventsFindTheirState
  <2> QED
    BY <2>1 DEF EventsOf, Waits
<1>3. /\ m_numBackoffRetries[d] \in 0..MaxRetries /\ m_numBackoffRetries'[d] \in 0..MaxRetries
      /\ MaxRetries \in Nat
  BY LimitAssumption DEF IInv, TypeOK
<1>4. PICK r \in 0..MaxRetries : r = m_numBackoffRetries[d]
  BY <1>3
<1>5. PICK t \in 0..MaxRetries : t = m_numBackoffRetries'[d]
  BY <1>3
<1>6. SUFFICES ASSUME Waits(d)'
               PROVE  /\ GetBackoffTime(t) \subseteq 1..MaxSlots
                      /\ Waits(d) /\ m_currentPkt'[d] = m_currentPkt[d]
                           => GetBackoffTime(r) \subseteq GetBackoffTime(t)
  BY <1>1, <1>2, <1>4, <1>5 DEF Grown
<1>7. t \in 1..MaxRetries /\ t <= t
  BY <1>3, <1>5, <1>6 DEF Counted
<1>8. GetBackoffTime(t) \subseteq 1..MaxSlots
  BY <1>7, BackoffRange
<1>9. ASSUME Waits(d), m_currentPkt'[d] = m_currentPkt[d]
      PROVE  GetBackoffTime(r) \subseteq GetBackoffTime(t)
  <2>1. r \in 1..MaxRetries
    BY <1>3, <1>4, <1>9 DEF Counted
  <2>2. r <= t
    BY <1>4, <1>5, <1>6, <1>9 DEF CountsOn
  <2> QED
    BY <1>7, <2>1, <2>2, BackoffRange
<1> QED
  BY <1>8, <1>9

(* Two backoffs of a device with one packet (TransmitStart and its         *)
(* GetBackoffTime): the later is at least a slot, and drawn from a range   *)
(* that holds all of the earlier one's, for every greatest number of slots *)
(* and every ceiling whose power of two fits.                              *)
THEOREM BackoffLengthens == ASSUME BackoffsFit PROVE LinkSpec => BackoffGrows
<1>1. LinkSpec => []IInv
  BY LinkIsTransmitSide, Inductive, PTL
<1>2. LinkInit => Counted
  BY DEF LinkInit, Init, Counted, Waits
<1>3. [LinkNext]_linkVars => [Next]_vars
  BY DEF LinkNext, linkVars, Transmits, LinkSendFrom, LinkTransmitCompleteEvent,
         LinkPropagationCompleteEvent, SetEncapsulationMode, SetReceiveEnable,
         SetPromiscReceiveCallback, Receive, Next
<1>4. LinkSpec => []AcceptedOnce
  BY AlwaysInOrder, PTL DEF OrderInv
<1>5. IInv /\ AcceptedOnce /\ Counted /\ [LinkNext]_linkVars => Counted'
  BY <1>3, StepCounts
<1>6. IInv /\ IInv' /\ AcceptedOnce /\ Counted /\ [LinkNext]_linkVars
        => \A d \in Device : Grown(d)
  BY <1>3, StepCounts, StepGrows
<1>7. IInv /\ IInv' /\ AcceptedOnce /\ Counted /\ [LinkNext]_linkVars
        => [\A d \in Device :
              LET now  == GetBackoffTime(m_numBackoffRetries[d])
                  next == GetBackoffTime(m_numBackoffRetries'[d])
              IN  events'[d]["TransmitStart"] > 0 =>
                    /\ next \subseteq 1..MaxSlots
                    /\ events[d]["TransmitStart"] > 0 /\ m_currentPkt'[d] = m_currentPkt[d]
                         => now \subseteq next]_linkVars
  BY <1>6 DEF Grown
<1> QED
  BY <1>1, <1>2, <1>4, <1>5, <1>7, PTL DEF LinkSpec, BackoffGrows
=============================================================================
