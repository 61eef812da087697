--------------------------- MODULE CsmaNetDevice ---------------------------
(***************************************************************************)
(* The transmit side of the CSMA devices of assignment 4 (1-persistent/    *)
(* csma-net-device.cc, backoff.cc) on one shared channel.                  *)
(*                                                                         *)
(* The simulator runs one event handler at a time; a handler runs to its   *)
(* end.  What interleaves are the events of the devices, those of the      *)
(* channel, and the calls of the layers above (SendFrom, SetSendEnable).   *)
(* Simulated time is left out: any scheduled event may be the next one.    *)
(* The channel and the queue are ns-3's own, modelled from how the device  *)
(* uses them.                                                              *)
(***************************************************************************)
EXTENDS Integers, Sequences

CONSTANTS Device, Packet, NoPacket,
          QueueLimit,   \* packets the transmit queue (ns-3's) holds
          MaxRetries,   \* m_maxRetries
          MayDisable,   \* SetSendEnable is called during the simulation
          MayDetach     \* the channel may refuse an idle wire (device detached)

ASSUME NoPacketAssumption == NoPacket \notin Packet
ASSUME LimitAssumption == QueueLimit \in Nat \ {0} /\ MaxRetries \in Nat
ASSUME SwitchAssumption == MayDisable \in BOOLEAN /\ MayDetach \in BOOLEAN

VARIABLES
  m_txMachineState,     \* of each device
  m_currentPkt,
  m_queue,
  m_numBackoffRetries,
  m_sendEnable,
  events,               \* events[d][e]: how often e is scheduled for d
  m_state,              \* of the channel
  m_currentSrc,         \* the device the channel transmits for
  accepted,             \* the packets SendFrom put on d's queue (history)
  finished,             \* the packets d is done with, sent or dropped (history)
  rejected              \* the packets SendFrom refused (history)

devVars == <<m_txMachineState, m_currentPkt, m_queue, m_numBackoffRetries, events>>
chanVars == <<m_state, m_currentSrc>>
vars == <<devVars, m_sendEnable, chanVars, accepted, finished, rejected>>

Event == {"TransmitStart", "TransmitCompleteEvent", "TransmitReadyEvent"}

TypeOK ==
  /\ m_txMachineState \in [Device -> {"READY", "BUSY", "GAP", "BACKOFF"}]
  /\ m_currentPkt \in [Device -> Packet \cup {NoPacket}]
  /\ m_queue \in [Device -> Seq(Packet)]
  /\ \A d \in Device : Len(m_queue[d]) <= QueueLimit
  /\ m_numBackoffRetries \in [Device -> 0..MaxRetries]
  /\ m_sendEnable \in [Device -> BOOLEAN]
  /\ events \in [Device -> [Event -> Nat]]
  /\ m_state \in {"IDLE", "TRANSMITTING", "PROPAGATING"}
  /\ m_currentSrc \in Device
  /\ accepted \in [Device -> Seq(Packet)]
  /\ finished \in [Device -> Seq(Packet)]
  /\ rejected \subseteq Packet

Init ==
  /\ m_txMachineState = [d \in Device |-> "READY"]
  /\ m_currentPkt = [d \in Device |-> NoPacket]
  /\ m_queue = [d \in Device |-> <<>>]
  /\ m_numBackoffRetries = [d \in Device |-> 0]
  /\ m_sendEnable = [d \in Device |-> TRUE]
  /\ events = [d \in Device |-> [e \in Event |-> 0]]
  /\ m_state = "IDLE"
  /\ m_currentSrc \in Device
  /\ accepted = [d \in Device |-> <<>>]
  /\ finished = [d \in Device |-> <<>>]
  /\ rejected = {}
-----------------------------------------------------------------------------
(* Backoff.  Operators named Wrong_... are faulty variants of the one that  *)
(* follows, used by the mutation checks only: here, one retry too many.    *)
Wrong_MaxRetriesReached(retries) == retries > MaxRetries

MaxRetriesReached(retries) == retries >= MaxRetries

(* The device after a handler: its state, current packet, queue, retries,  *)
(* and scheduled events.                                                   *)
Becomes(d, state, pkt, q, retries, ev) ==
  /\ m_txMachineState' = [m_txMachineState EXCEPT ![d] = state]
  /\ m_currentPkt' = [m_currentPkt EXCEPT ![d] = pkt]
  /\ m_queue' = [m_queue EXCEPT ![d] = q]
  /\ m_numBackoffRetries' = [m_numBackoffRetries EXCEPT ![d] = retries]
  /\ events' = [events EXCEPT ![d] = ev]

Finishes(d, pkts) == finished' = [finished EXCEPT ![d] = @ \o pkts]

Scheduled(ev, e) == [ev EXCEPT ![e] = @ + 1]
Ran(ev, e)       == [ev EXCEPT ![e] = @ - 1]

(* The retries of the dropped packet stay.                                 *)
Wrong_TransmitAbort(d, pkt, q, ev) ==
  /\ UNCHANGED chanVars
  /\ \/ /\ q = <<>> \/ MaxRetries = 0
        /\ Becomes(d, "READY", NoPacket, <<>>, m_numBackoffRetries[d], ev)
        /\ Finishes(d, <<pkt>> \o q)
     \/ /\ q # <<>> /\ MaxRetries > 0
        /\ Becomes(d, "BACKOFF", Head(q), Tail(q), 1, Scheduled(ev, "TransmitStart"))
        /\ Finishes(d, <<pkt>>)

(* TransmitAbort, called with the wire busy: the packet is dropped and the *)
(* next one of the queue started, which finds the wire busy as well.  With *)
(* no retries at all it is dropped in its turn, and so is the whole queue. *)
TransmitAbort(d, pkt, q, ev) ==
  /\ UNCHANGED chanVars
  /\ \/ /\ q = <<>> \/ MaxRetries = 0
        /\ Becomes(d, "READY", NoPacket, <<>>, 0, ev)
        /\ Finishes(d, <<pkt>> \o q)
     \/ /\ q # <<>> /\ MaxRetries > 0
        /\ Becomes(d, "BACKOFF", Head(q), Tail(q), 1, Scheduled(ev, "TransmitStart"))
        /\ Finishes(d, <<pkt>>)

(* TransmitStart, called in the given state with pkt as m_currentPkt and q *)
(* as the queue; ev are the device's other scheduled events.               *)
TransmitStart(d, state, pkt, q, ev) ==
  LET retries == m_numBackoffRetries[d] IN
  \/ /\ ~m_sendEnable[d]
     /\ Becomes(d, state, NoPacket, q, retries, ev)
     /\ Finishes(d, <<pkt>>)
     /\ UNCHANGED chanVars
  \/ /\ m_sendEnable[d] /\ m_state # "IDLE"
     /\ MaxRetriesReached(retries)
     /\ TransmitAbort(d, pkt, q, ev)
  \/ /\ m_sendEnable[d] /\ m_state # "IDLE"
     /\ ~MaxRetriesReached(retries)
     /\ Becomes(d, "BACKOFF", pkt, q, retries + 1, Scheduled(ev, "TransmitStart"))
     /\ UNCHANGED <<chanVars, finished>>
  \/ /\ m_sendEnable[d] /\ m_state = "IDLE"
     /\ m_state' = "TRANSMITTING"
     /\ m_currentSrc' = d
     /\ Becomes(d, "BUSY", pkt, q, 0, Scheduled(ev, "TransmitCompleteEvent"))
     /\ UNCHANGED finished
  \/ /\ m_sendEnable[d] /\ m_state = "IDLE"
     /\ MayDetach
     /\ Becomes(d, "READY", NoPacket, q, retries, ev)
     /\ Finishes(d, <<pkt>>)
     /\ UNCHANGED chanVars
-----------------------------------------------------------------------------
(* The layer above hands a packet over.  A refused packet is gone.         *)
New(p) ==
  p \notin rejected /\ \A d \in Device : \A i \in DOMAIN accepted[d] : accepted[d][i] # p

Full(d) == Len(m_queue[d]) >= QueueLimit

RefuseSend(d, p) ==
  /\ New(p)
  /\ ~m_sendEnable[d] \/ Full(d)
  /\ rejected' = rejected \cup {p}
  /\ UNCHANGED <<devVars, m_sendEnable, chanVars, accepted, finished>>

(* A packet is started although the device waits out its gap or its        *)
(* backoff.                                                                *)
Wrong_SendFrom_state(d, p) ==
  /\ New(p)
  /\ m_sendEnable[d] /\ ~Full(d)
  /\ accepted' = [accepted EXCEPT ![d] = Append(@, p)]
  /\ LET q == Append(m_queue[d], p) IN
     \/ /\ m_txMachineState[d] # "BUSY"
        /\ TransmitStart(d, "READY", Head(q), Tail(q), events[d])
     \/ /\ m_txMachineState[d] = "BUSY"
        /\ m_queue' = [m_queue EXCEPT ![d] = q]
        /\ UNCHANGED <<m_txMachineState, m_currentPkt, m_numBackoffRetries,
                       events, chanVars, finished>>
  /\ UNCHANGED <<m_sendEnable, rejected>>

SendFrom(d, p) ==
  /\ New(p)
  /\ m_sendEnable[d] /\ ~Full(d)
  /\ accepted' = [accepted EXCEPT ![d] = Append(@, p)]
  /\ LET q == Append(m_queue[d], p) IN
     \/ /\ m_txMachineState[d] = "READY"
        /\ TransmitStart(d, "READY", Head(q), Tail(q), events[d])
     \/ /\ m_txMachineState[d] # "READY"
        /\ m_queue' = [m_queue EXCEPT ![d] = q]
        /\ UNCHANGED <<m_txMachineState, m_currentPkt, m_numBackoffRetries,
                       events, chanVars, finished>>
  /\ UNCHANGED <<m_sendEnable, rejected>>

SetSendEnable(d, sendEnable) ==
  /\ MayDisable
  /\ m_sendEnable' = [m_sendEnable EXCEPT ![d] = sendEnable]
  /\ UNCHANGED <<devVars, chanVars, accepted, finished, rejected>>
-----------------------------------------------------------------------------
(* The scheduled events.  BackoffEvent is TransmitStart when it was        *)
(* scheduled by an earlier TransmitStart.                                  *)
BackoffEvent(d) ==
  /\ events[d]["TransmitStart"] > 0
  /\ TransmitStart(d, m_txMachineState[d], m_currentPkt[d], m_queue[d],
                   Ran(events[d], "TransmitStart"))
  /\ UNCHANGED <<m_sendEnable, accepted, rejected>>

(* The channel is not told that the transmission is over.                  *)
Wrong_TransmitCompleteEvent(d) ==
  /\ events[d]["TransmitCompleteEvent"] > 0
  /\ Becomes(d, "GAP", NoPacket, m_queue[d], m_numBackoffRetries[d],
             Scheduled(Ran(events[d], "TransmitCompleteEvent"), "TransmitReadyEvent"))
  /\ Finishes(d, <<m_currentPkt[d]>>)
  /\ UNCHANGED <<chanVars, m_sendEnable, accepted, rejected>>

TransmitCompleteEvent(d) ==
  /\ events[d]["TransmitCompleteEvent"] > 0
  /\ Becomes(d, "GAP", NoPacket, m_queue[d], m_numBackoffRetries[d],
             Scheduled(Ran(events[d], "TransmitCompleteEvent"), "TransmitReadyEvent"))
  /\ Finishes(d, <<m_currentPkt[d]>>)
  /\ m_state' = "PROPAGATING"                              \* TransmitEnd
  /\ UNCHANGED <<m_currentSrc, m_sendEnable, accepted, rejected>>

(* The end of the gap does not start the next packet.                      *)
Wrong_TransmitReadyEvent(d) ==
  /\ events[d]["TransmitReadyEvent"] > 0
  /\ Becomes(d, "READY", m_currentPkt[d], m_queue[d], m_numBackoffRetries[d],
             Ran(events[d], "TransmitReadyEvent"))
  /\ UNCHANGED <<chanVars, finished, m_sendEnable, accepted, rejected>>

(* The next packet is started and stays in the queue.                      *)
Wrong_TransmitReadyEvent_stays(d) ==
  /\ events[d]["TransmitReadyEvent"] > 0
  /\ LET q  == m_queue[d]
         ev == Ran(events[d], "TransmitReadyEvent")
     IN  \/ /\ q = <<>>
            /\ Becomes(d, "READY", m_currentPkt[d], q, m_numBackoffRetries[d], ev)
            /\ UNCHANGED <<chanVars, finished>>
         \/ q # <<>> /\ TransmitStart(d, "READY", Head(q), q, ev)
  /\ UNCHANGED <<m_sendEnable, accepted, rejected>>

TransmitReadyEvent(d) ==
  /\ events[d]["TransmitReadyEvent"] > 0
  /\ LET q  == m_queue[d]
         ev == Ran(events[d], "TransmitReadyEvent")
     IN  \/ /\ q = <<>>
            /\ Becomes(d, "READY", m_currentPkt[d], q, m_numBackoffRetries[d], ev)
            /\ UNCHANGED <<chanVars, finished>>
         \/ /\ q # <<>>
            /\ TransmitStart(d, "READY", Head(q), Tail(q), ev)
  /\ UNCHANGED <<m_sendEnable, accepted, rejected>>

(* The channel has delivered the packet to every device.                   *)
PropagationCompleteEvent ==
  /\ m_state = "PROPAGATING"
  /\ m_state' = "IDLE"
  /\ UNCHANGED <<devVars, m_sendEnable, m_currentSrc, accepted, finished, rejected>>

Next ==
  \/ \E d \in Device, p \in Packet : SendFrom(d, p)
  \/ \E d \in Device, p \in Packet : RefuseSend(d, p)
  \/ \E d \in Device, b \in BOOLEAN : SetSendEnable(d, b)
  \/ \E d \in Device : BackoffEvent(d)
  \/ \E d \in Device : TransmitCompleteEvent(d)
  \/ \E d \in Device : TransmitReadyEvent(d)
  \/ PropagationCompleteEvent

Spec == Init /\ [][Next]_vars
-----------------------------------------------------------------------------
(* A transmission has the wire to itself: the devices that are BUSY are    *)
(* the one the channel transmits for, and none when it does not transmit   *)
(* (the carrier sense of TransmitStart, and its assertions).               *)
OneSender ==
  \A d \in Device :
    m_txMachineState[d] = "BUSY" <=> m_state = "TRANSMITTING" /\ m_currentSrc = d

(* Every event finds the device as the handler's assertions want it, and   *)
(* no device has two events scheduled: a BUSY device waits for the end of  *)
(* its transmission, one in the GAP for its end, and only one that backs   *)
(* off with a packet for its next try.                                     *)
EventsOf(d) ==
  /\ events[d]["TransmitCompleteEvent"] = IF m_txMachineState[d] = "BUSY" THEN 1 ELSE 0
  /\ events[d]["TransmitReadyEvent"] = IF m_txMachineState[d] = "GAP" THEN 1 ELSE 0
  /\ events[d]["TransmitStart"] =
       IF m_txMachineState[d] = "BACKOFF" /\ m_currentPkt[d] # NoPacket THEN 1 ELSE 0
  /\ m_currentPkt[d] # NoPacket => m_txMachineState[d] \in {"BUSY", "BACKOFF"}
  /\ m_txMachineState[d] = "BUSY" => m_currentPkt[d] # NoPacket

EventsFindTheirState == \A d \in Device : EventsOf(d)

(* No accepted packet is lost, doubled or overtaken: a device is done with *)
(* the first ones it accepted, the next is its current packet, the rest    *)
(* wait in its queue, in their order.                                      *)
Current(d) == IF m_currentPkt[d] = NoPacket THEN <<>> ELSE <<m_currentPkt[d]>>

InOrder == \A d \in Device : accepted[d] = finished[d] \o Current(d) \o m_queue[d]

(* When the channel refuses nobody, a READY device has no retries left     *)
(* over from an earlier packet, ...                                        *)
FreshBackoff ==
  \A d \in Device : m_txMachineState[d] = "READY" => m_numBackoffRetries[d] = 0

(* ... and is never found READY with packets in its queue: without this,   *)
(* a full queue would have SendFrom refuse every packet and start none.    *)
IdleQueueIsEmpty ==
  \A d \in Device : m_txMachineState[d] = "READY" => m_queue[d] = <<>>

(* A device that nothing will bring on, and that is not simply idle, has   *)
(* stopped.  Only a disabled send side or a channel that refuses an idle   *)
(* wire can stop one.                                                      *)
Stopped(d) ==
  /\ \A e \in Event : events[d][e] = 0
  /\ m_txMachineState[d] # "READY" \/ m_queue[d] # <<>>

StopHasCause ==
  [][\A d \in Device :
       ~Stopped(d) /\ Stopped(d)' =>
         \/ ~m_sendEnable[d]
         \/ MayDetach /\ m_state = "IDLE" /\ m_state' = "IDLE"]_vars

(* "Otherwise, the transmission will be started when the current packet    *)
(* finished transmission" (comment in SendFrom): a packet that waits in    *)
(* the queue of an enabled device that is not idle has an event to come    *)
(* that brings the device on.                                              *)
NeverWedged ==
  \A d \in Device :
    m_sendEnable[d] /\ m_txMachineState[d] # "READY" /\ m_queue[d] # <<>>
      => \E e \in Event : events[d][e] > 0
-----------------------------------------------------------------------------
(* Fairness: the simulator runs every scheduled event.                     *)
Fairness ==
  /\ \A d \in Device : /\ WF_vars(BackoffEvent(d))
                       /\ WF_vars(TransmitCompleteEvent(d))
                       /\ WF_vars(TransmitReadyEvent(d))
  /\ WF_vars(PropagationCompleteEvent)

FairSpec == Spec /\ Fairness

(* While the send side stays enabled, a device is done with every packet   *)
(* it accepted: sent, or dropped after MaxRetries busy wires.              *)
EveryPacketFinished ==
  \A d \in Device : \A k \in 1..QueueLimit :
    Len(accepted[d]) >= k ~> Len(finished[d]) >= k
=============================================================================
