------------------------ MODULE CsmaNetDeviceProofs ------------------------
(***************************************************************************)
(* Theorems about CsmaNetDevice, for any devices and packets, any queue    *)
(* limit and number of retries, with and without SetSendEnable calls and   *)
(* refusals of the channel.                                                *)
(***************************************************************************)
EXTENDS CsmaNetDevice, SequenceTheorems, TLAPS

(* The inductive invariant.  No conjunct is inductive alone: the handlers  *)
(* rely on finding the state their event was scheduled in, and OneSender   *)
(* on a device that starts being the only one that may.                    *)
IInv == TypeOK /\ OneSender /\ EventsFindTheirState /\ InOrder

LEMMA CurrentIsSeq ==
  ASSUME TypeOK, NEW d \in Device
  PROVE  Current(d) \in Seq(Packet)
BY DEF TypeOK, Current

LEMMA Reassociate ==
  ASSUME NEW f \in Seq(Packet), NEW c \in Seq(Packet), NEW q \in Seq(Packet)
  PROVE  (f \o c) \o q = f \o (c \o q)
BY ConcatAssociative

(* A packet that is taken off the front and put in front again.            *)
LEMMA HeadThenTail ==
  ASSUME NEW q \in Seq(Packet), q # <<>>
  PROVE  /\ Head(q) \in Packet /\ Tail(q) \in Seq(Packet)
         /\ Len(Tail(q)) = Len(q) - 1
         /\ q = <<Head(q)>> \o Tail(q)
<1>1. /\ Head(q) \in Packet /\ Tail(q) \in Seq(Packet)
      /\ Len(Tail(q)) = Len(q) - 1 /\ Len(q) \in Nat
      /\ \A i \in 1..Len(Tail(q)) : Tail(q)[i] = q[i + 1]
  BY HeadTailProperties
<1> DEFINE r == <<Head(q)>> \o Tail(q)
<1>2. <<Head(q)>> \in Seq(Packet) /\ Len(<<Head(q)>>) = 1 /\ <<Head(q)>>[1] = q[1]
  BY <1>1
<1>3. /\ r \in Seq(Packet) /\ Len(r) = Len(q)
      /\ \A i \in 1..Len(q) : r[i] = IF i <= 1 THEN q[1] ELSE Tail(q)[i - 1]
  BY <1>1, <1>2, ConcatProperties
<1>4. \A i \in 1..Len(q) : r[i] = q[i]
  BY <1>1, <1>3
<1> HIDE DEF r
<1>5. r = q
  BY <1>3, <1>4, SeqEqual
<1> QED
  BY <1>1, <1>5 DEF r

(* What TransmitStart may leave behind when it is given pkt and q: nothing *)
(* of them is lost, and the packets it is done with come first.            *)
LEMMA TransmitStartOrder ==
  ASSUME TypeOK, NEW d \in Device, NEW state, NEW pkt \in Packet,
         NEW q \in Seq(Packet), NEW ev, TransmitStart(d, state, pkt, q, ev)
  PROVE  /\ finished' \in [Device -> Seq(Packet)]
         /\ \A o \in Device \ {d} : finished'[o] = finished[o]
         /\ finished'[d] \o Current(d)' \o m_queue'[d] = finished[d] \o (<<pkt>> \o q)
<1> DEFINE f == finished[d]
<1>1. /\ f \in Seq(Packet) /\ finished \in [Device -> Seq(Packet)]
      /\ m_currentPkt \in [Device -> Packet \cup {NoPacket}]
      /\ m_queue \in [Device -> Seq(Packet)]
      /\ <<pkt>> \in Seq(Packet) /\ <<>> \in Seq(Packet) /\ pkt # NoPacket
  BY NoPacketAssumption DEF TypeOK
<1>2. /\ f \o <<pkt>> \in Seq(Packet) /\ <<pkt>> \o q \in Seq(Packet)
      /\ f \o (<<pkt>> \o q) \in Seq(Packet)
      /\ (f \o <<pkt>>) \o q = f \o (<<pkt>> \o q)
  BY <1>1, ConcatProperties, ConcatAssociative
<1> HIDE DEF f
<1>3. ASSUME NEW s, NEW p2, NEW q2, NEW r2, NEW e2, Becomes(d, s, p2, q2, r2, e2)
      PROVE  /\ m_queue'[d] = q2
             /\ Current(d)' = IF p2 = NoPacket THEN <<>> ELSE <<p2>>
  BY <1>1, <1>3 DEF Becomes, Current
<1>4. ASSUME NEW l \in Seq(Packet), Finishes(d, l)
      PROVE  /\ finished'[d] = f \o l
             /\ finished' \in [Device -> Seq(Packet)]
             /\ \A o \in Device \ {d} : finished'[o] = finished[o]
  <2>1. f \o l \in Seq(Packet)
    BY <1>1, <1>4, ConcatProperties
  <2> QED
    BY <1>1, <1>4, <2>1 DEF Finishes, f
<1>5. ASSUME NEW s, NEW r2, Becomes(d, s, NoPacket, q, r2, ev), Finishes(d, <<pkt>>)
      PROVE  /\ finished' \in [Device -> Seq(Packet)]
             /\ \A o \in Device \ {d} : finished'[o] = finished[o]
             /\ finished'[d] \o Current(d)' \o m_queue'[d] = f \o (<<pkt>> \o q)
  <2>1. finished'[d] = f \o <<pkt>> /\ Current(d)' = <<>> /\ m_queue'[d] = q
    BY <1>1, <1>3, <1>4, <1>5
  <2>2. (f \o <<pkt>>) \o <<>> = f \o <<pkt>>
    BY <1>2, ConcatEmptySeq
  <2> QED
    BY <1>1, <1>2, <1>4, <1>5, <2>1, <2>2
<1>6. ASSUME NEW s, NEW r2, NEW e2, Becomes(d, s, pkt, q, r2, e2), UNCHANGED finished
      PROVE  /\ finished' \in [Device -> Seq(Packet)]
             /\ \A o \in Device \ {d} : finished'[o] = finished[o]
             /\ finished'[d] \o Current(d)' \o m_queue'[d] = f \o (<<pkt>> \o q)
  BY <1>1, <1>2, <1>3, <1>6 DEF f
<1>7. ASSUME Becomes(d, "READY", NoPacket, <<>>, 0, ev), Finishes(d, <<pkt>> \o q)
      PROVE  /\ finished' \in [Device -> Seq(Packet)]
             /\ \A o \in Device \ {d} : finished'[o] = finished[o]
             /\ finished'[d] \o Current(d)' \o m_queue'[d] = f \o (<<pkt>> \o q)
  <2>1. finished'[d] = f \o (<<pkt>> \o q) /\ Current(d)' = <<>> /\ m_queue'[d] = <<>>
    BY <1>2, <1>3, <1>4, <1>7
  <2>2. (f \o (<<pkt>> \o q)) \o <<>> = f \o (<<pkt>> \o q)
    BY <1>2, ConcatEmptySeq
  <2> QED
    BY <1>2, <1>4, <1>7, <2>1, <2>2
<1>8. ASSUME q # <<>>, NEW e2, Becomes(d, "BACKOFF", Head(q), Tail(q), 1, e2),
             Finishes(d, <<pkt>>)
      PROVE  /\ finished' \in [Device -> Seq(Packet)]
             /\ \A o \in Device \ {d} : finished'[o] = finished[o]
             /\ finished'[d] \o Current(d)' \o m_queue'[d] = f \o (<<pkt>> \o q)
  <2>1. Head(q) \in Packet /\ Tail(q) \in Seq(Packet) /\ q = <<Head(q)>> \o Tail(q)
    BY <1>8, HeadThenTail
  <2>2. Head(q) # NoPacket /\ <<Head(q)>> \in Seq(Packet)
    BY <2>1, NoPacketAssumption
  <2>3. /\ finished'[d] = f \o <<pkt>> /\ Current(d)' = <<Head(q)>>
        /\ m_queue'[d] = Tail(q)
    BY <1>1, <1>3, <1>4, <1>8, <2>2
  <2>4. ((f \o <<pkt>>) \o <<Head(q)>>) \o Tail(q) = (f \o <<pkt>>) \o q
    BY <1>2, <2>1, <2>2, ConcatAssociative
  <2> QED
    BY <1>1, <1>2, <1>4, <1>8, <2>3, <2>4
<1> QED
  BY <1>5, <1>6, <1>7, <1>8 DEF TransmitStart, TransmitAbort, f

(* How TransmitStart leaves a device that is not BUSY and has no event      *)
(* scheduled: READY without a packet, BACKOFF with the next try scheduled   *)
(* (or, disabled, without packet and event), or BUSY on a wire that was     *)
(* idle.                                                                    *)
LeftAs(d, s, p2, q2, r2, e2) ==
  /\ Becomes(d, s, p2, q2, r2, e2)
  /\ Len(q2) <= QueueLimit
  /\ s = "BUSY" => p2 # NoPacket
  /\ s = "READY" => p2 = NoPacket
  /\ e2["TransmitCompleteEvent"] = IF s = "BUSY" THEN 1 ELSE 0
  /\ e2["TransmitReadyEvent"] = 0
  /\ e2["TransmitStart"] = IF s = "BACKOFF" /\ p2 # NoPacket THEN 1 ELSE 0
  /\ \/ /\ s = "BUSY" /\ m_state = "IDLE"
        /\ m_state' = "TRANSMITTING" /\ m_currentSrc' = d
     \/ s # "BUSY" /\ UNCHANGED chanVars

Outcome(d) ==
  \E s \in {"READY", "BUSY", "BACKOFF"}, p2 \in Packet \cup {NoPacket},
     q2 \in Seq(Packet), r2 \in 0..MaxRetries, e2 \in [Event -> Nat] :
    LeftAs(d, s, p2, q2, r2, e2)

LEMMA TransmitStartOutcome ==
  ASSUME TypeOK, OneSender, NEW d \in Device, m_txMachineState[d] # "BUSY",
         NEW state \in {"READY", "BACKOFF"}, NEW pkt \in Packet,
         NEW q \in Seq(Packet), Len(q) <= QueueLimit,
         NEW ev \in [Event -> Nat], \A e \in Event : ev[e] = 0,
         TransmitStart(d, state, pkt, q, ev)
  PROVE  Outcome(d)
<1> DEFINE retries == m_numBackoffRetries[d]
<1>1. /\ retries \in 0..MaxRetries /\ MaxRetries \in Nat /\ QueueLimit \in Nat
      /\ 0 \in 0..MaxRetries /\ pkt # NoPacket
      /\ <<>> \in Seq(Packet) /\ Len(<<>>) <= QueueLimit
      /\ "TransmitStart" \in Event /\ "TransmitCompleteEvent" \in Event
      /\ "TransmitReadyEvent" \in Event
  BY LimitAssumption, NoPacketAssumption DEF TypeOK, Event
<1>2. ASSUME NEW x \in Event
      PROVE  /\ Scheduled(ev, x) \in [Event -> Nat] /\ Scheduled(ev, x)[x] = 1
             /\ \A e \in Event \ {x} : Scheduled(ev, x)[e] = 0
  BY DEF Scheduled
<1> HIDE DEF retries
<1>3. ASSUME ~m_sendEnable[d], UNCHANGED chanVars,
             Becomes(d, state, NoPacket, q, retries, ev)
      PROVE  Outcome(d)
  <2>1. LeftAs(d, state, NoPacket, q, retries, ev)
    BY <1>1, <1>3 DEF LeftAs
  <2> QED
    BY <1>1, <2>1 DEF Outcome
<1>4. ASSUME Becomes(d, "READY", NoPacket, <<>>, 0, ev), UNCHANGED chanVars
      PROVE  Outcome(d)
  <2>1. LeftAs(d, "READY", NoPacket, <<>>, 0, ev)
    BY <1>1, <1>4 DEF LeftAs
  <2> QED
    BY <1>1, <2>1 DEF Outcome
<1>5. ASSUME q # <<>>, MaxRetries > 0, UNCHANGED chanVars,
             Becomes(d, "BACKOFF", Head(q), Tail(q), 1, Scheduled(ev, "TransmitStart"))
      PROVE  Outcome(d)
  <2>1. /\ Head(q) \in Packet /\ Tail(q) \in Seq(Packet) /\ Len(Tail(q)) = Len(q) - 1
        /\ Head(q) # NoPacket /\ Len(q) \in Nat /\ 1 \in 0..MaxRetries
    BY <1>1, <1>5, HeadThenTail, NoPacketAssumption
  <2>2. Len(Tail(q)) <= QueueLimit
    BY <1>1, <2>1
  <2>3. LeftAs(d, "BACKOFF", Head(q), Tail(q), 1, Scheduled(ev, "TransmitStart"))
    BY <1>1, <1>2, <1>5, <2>1, <2>2 DEF LeftAs
  <2> QED
    BY <1>1, <1>2, <2>1, <2>3 DEF Outcome
<1>6. ASSUME ~MaxRetriesReached(retries), UNCHANGED chanVars,
             Becomes(d, "BACKOFF", pkt, q, retries + 1, Scheduled(ev, "TransmitStart"))
      PROVE  Outcome(d)
  <2>1. retries + 1 \in 0..MaxRetries
    BY <1>1, <1>6 DEF MaxRetriesReached
  <2>2. LeftAs(d, "BACKOFF", pkt, q, retries + 1, Scheduled(ev, "TransmitStart"))
    BY <1>1, <1>2, <1>6 DEF LeftAs
  <2> QED
    BY <1>1, <1>2, <2>1, <2>2 DEF Outcome
<1>7. ASSUME m_state = "IDLE", m_state' = "TRANSMITTING", m_currentSrc' = d,
             Becomes(d, "BUSY", pkt, q, 0, Scheduled(ev, "TransmitCompleteEvent"))
      PROVE  Outcome(d)
  <2>1. LeftAs(d, "BUSY", pkt, q, 0, Scheduled(ev, "TransmitCompleteEvent"))
    BY <1>1, <1>2, <1>7 DEF LeftAs
  <2> QED
    BY <1>1, <1>2, <2>1 DEF Outcome
<1>8. ASSUME Becomes(d, "READY", NoPacket, q, retries, ev), UNCHANGED chanVars
      PROVE  Outcome(d)
  <2>1. LeftAs(d, "READY", NoPacket, q, retries, ev)
    BY <1>1, <1>8 DEF LeftAs
  <2> QED
    BY <1>1, <2>1 DEF Outcome
<1> QED
  BY <1>3, <1>4, <1>5, <1>6, <1>7, <1>8 DEF TransmitStart, TransmitAbort, retries

(* TransmitStart preserves the invariant when its caller hands it the next *)
(* packets of the order of acceptance.                                     *)
LEMMA TransmitStartIInv ==
  ASSUME IInv, NEW d \in Device, m_txMachineState[d] # "BUSY",
         NEW state \in {"READY", "BACKOFF"}, NEW pkt \in Packet,
         NEW q \in Seq(Packet), Len(q) <= QueueLimit,
         NEW ev \in [Event -> Nat], \A e \in Event : ev[e] = 0,
         TransmitStart(d, state, pkt, q, ev),
         m_sendEnable' = m_sendEnable, rejected' = rejected,
         accepted' \in [Device -> Seq(Packet)],
         accepted'[d] = finished[d] \o (<<pkt>> \o q),
         \A o \in Device \ {d} : accepted'[o] = accepted[o]
  PROVE  IInv'
<1>1. TypeOK /\ OneSender /\ EventsFindTheirState /\ InOrder
  BY DEF IInv
<1>2. PICK s \in {"READY", "BUSY", "BACKOFF"}, p2 \in Packet \cup {NoPacket},
            q2 \in Seq(Packet), r2 \in 0..MaxRetries, e2 \in [Event -> Nat] :
        LeftAs(d, s, p2, q2, r2, e2)
  BY <1>1, TransmitStartOutcome DEF Outcome
<1>3. /\ finished' \in [Device -> Seq(Packet)]
      /\ \A o \in Device \ {d} : finished'[o] = finished[o]
      /\ finished'[d] \o Current(d)' \o m_queue'[d] = finished[d] \o (<<pkt>> \o q)
  BY <1>1, TransmitStartOrder
<1>4. /\ m_txMachineState' = [m_txMachineState EXCEPT ![d] = s]
      /\ m_currentPkt' = [m_currentPkt EXCEPT ![d] = p2]
      /\ m_queue' = [m_queue EXCEPT ![d] = q2]
      /\ m_numBackoffRetries' = [m_numBackoffRetries EXCEPT ![d] = r2]
      /\ events' = [events EXCEPT ![d] = e2]
  BY <1>2 DEF LeftAs, Becomes
<1>5. /\ m_txMachineState'[d] = s /\ m_currentPkt'[d] = p2 /\ m_queue'[d] = q2
      /\ events'[d] = e2
      /\ \A o \in Device \ {d} :
           /\ m_txMachineState'[o] = m_txMachineState[o]
           /\ m_currentPkt'[o] = m_currentPkt[o]
           /\ m_queue'[o] = m_queue[o] /\ events'[o] = events[o]
  BY <1>1, <1>4 DEF TypeOK
<1>6. TypeOK'
  <2>1. m_state' \in {"IDLE", "TRANSMITTING", "PROPAGATING"} /\ m_currentSrc' \in Device
    BY <1>1, <1>2 DEF LeftAs, TypeOK, chanVars
  <2>2. \A o \in Device : Len(m_queue'[o]) <= QueueLimit
    BY <1>1, <1>2, <1>5 DEF LeftAs, TypeOK
  <2> QED
    BY <1>1, <1>2, <1>3, <1>4, <2>1, <2>2 DEF TypeOK
<1>7. OneSender'
  BY <1>1, <1>2, <1>5 DEF LeftAs, OneSender, chanVars
<1>8. EventsFindTheirState'
  <2>1. EventsOf(d)'
    BY <1>2, <1>5 DEF LeftAs, EventsOf
  <2>2. ASSUME NEW o \in Device \ {d} PROVE EventsOf(o)'
    <3>1. EventsOf(o)
      BY <1>1 DEF EventsFindTheirState
    <3>2. /\ m_txMachineState'[o] = m_txMachineState[o]
          /\ m_currentPkt'[o] = m_currentPkt[o] /\ events'[o] = events[o]
      BY <1>5
    <3> QED
      BY <3>1, <3>2 DEF EventsOf
  <2> QED
    BY <2>1, <2>2 DEF EventsFindTheirState
<1>9. InOrder'
  <2>1. ASSUME NEW o \in Device \ {d}
        PROVE  accepted'[o] = finished'[o] \o Current(o)' \o m_queue'[o]
    BY <1>1, <1>3, <1>5 DEF InOrder, Current
  <2>2. accepted'[d] = finished'[d] \o Current(d)' \o m_queue'[d]
    BY <1>3
  <2>3. \A o \in Device : accepted'[o] = finished'[o] \o Current(o)' \o m_queue'[o]
    BY <2>1, <2>2
  <2> QED
    BY <2>3 DEF InOrder, Current
<1> QED
  BY <1>6, <1>7, <1>8, <1>9 DEF IInv

LEMMA InitIInv == Init => IInv
<1> SUFFICES ASSUME Init PROVE IInv
  OBVIOUS
<1>1. <<>> \in Seq(Packet) /\ Len(<<>>) = 0 /\ <<>> \o <<>> = <<>>
  BY EmptySeq, ConcatEmptySeq
<1>2. TypeOK
  BY <1>1, LimitAssumption DEF Init, TypeOK, Event
<1>3. OneSender
  BY DEF Init, OneSender
<1>4. EventsFindTheirState
  BY DEF Init, EventsFindTheirState, EventsOf, Event
<1>5. InOrder
  BY <1>1 DEF Init, InOrder, Current
<1> QED
  BY <1>2, <1>3, <1>4, <1>5 DEF IInv

LEMMA SendFromIInv ==
  ASSUME IInv, NEW d \in Device, NEW p \in Packet, SendFrom(d, p)
  PROVE  IInv'
<1> DEFINE q == Append(m_queue[d], p)
<1>1. TypeOK /\ OneSender /\ EventsFindTheirState /\ InOrder
  BY DEF IInv
<1>2. /\ finished[d] \in Seq(Packet) /\ Current(d) \in Seq(Packet)
      /\ m_queue[d] \in Seq(Packet) /\ accepted[d] \in Seq(Packet)
      /\ <<p>> \in Seq(Packet)
  BY <1>1, CurrentIsSeq DEF TypeOK
<1>3. /\ q \in Seq(Packet) /\ q # <<>> /\ Len(q) = Len(m_queue[d]) + 1
      /\ q = m_queue[d] \o <<p>>
  <2>1. /\ q \in Seq(Packet) /\ q # <<>> /\ Len(q) = Len(m_queue[d]) + 1
    BY <1>2, AppendProperties
  <2>2. q = m_queue[d] \o <<p>>
    BY <1>2, AppendIsConcat
  <2> QED
    BY <2>1, <2>2
<1>4. /\ Len(q) <= QueueLimit
  BY <1>2, <1>3, LimitAssumption, LenProperties DEF SendFrom, Full
<1>5. /\ accepted' \in [Device -> Seq(Packet)]
      /\ accepted'[d] = accepted[d] \o <<p>>
      /\ \A o \in Device \ {d} : accepted'[o] = accepted[o]
      /\ m_sendEnable' = m_sendEnable /\ rejected' = rejected
  <2>1. Append(accepted[d], p) = accepted[d] \o <<p>> /\ Append(accepted[d], p) \in Seq(Packet)
    BY <1>2, AppendProperties, AppendIsConcat
  <2> QED
    BY <1>1, <2>1 DEF SendFrom, TypeOK
<1>6. accepted'[d] = (finished[d] \o Current(d)) \o q
  <2>1. accepted[d] = (finished[d] \o Current(d)) \o m_queue[d]
    BY <1>1 DEF InOrder
  <2>2. finished[d] \o Current(d) \in Seq(Packet)
    BY <1>2, ConcatProperties
  <2> DEFINE g == finished[d] \o Current(d)
             m == m_queue[d]
             l == <<p>>
  <2>3. /\ g \in Seq(Packet) /\ m \in Seq(Packet) /\ l \in Seq(Packet)
        /\ accepted'[d] = (g \o m) \o l /\ q = m \o l
    BY <1>2, <1>3, <1>5, <2>1, <2>2
  <2>4. accepted'[d] = g \o q
    <3> HIDE DEF g, m, l, q
    <3> QED
      BY <2>3, Reassociate
  <2> QED
    BY <2>4
<1> HIDE DEF q
<1>7. CASE /\ m_txMachineState[d] = "READY"
           /\ TransmitStart(d, "READY", Head(q), Tail(q), events[d])
  <2>1. /\ Head(q) \in Packet /\ Tail(q) \in Seq(Packet) /\ Len(Tail(q)) = Len(q) - 1
        /\ q = <<Head(q)>> \o Tail(q)
    BY <1>3, HeadThenTail
  <2>2. Len(Tail(q)) <= QueueLimit
    BY <1>2, <1>3, <1>4, <2>1, LenProperties, LimitAssumption
  <2>3. EventsOf(d) /\ events[d] \in [Event -> Nat]
    BY <1>1 DEF EventsFindTheirState, TypeOK
  <2>4. \A e \in Event : events[d][e] = 0
    BY <1>7, <2>3 DEF EventsOf, Event
  <2>5. Current(d) = <<>>
    BY <1>7, <2>3 DEF EventsOf, Current
  <2>6. finished[d] \o <<>> = finished[d]
    BY <1>2, ConcatEmptySeq
  <2>7. accepted'[d] = finished[d] \o (<<Head(q)>> \o Tail(q))
    BY <1>6, <2>1, <2>5, <2>6
  <2> QED
    BY <1>5, <1>7, <2>1, <2>2, <2>3, <2>4, <2>7, TransmitStartIInv
<1>8. CASE /\ m_txMachineState[d] # "READY"
           /\ m_queue' = [m_queue EXCEPT ![d] = q]
           /\ UNCHANGED <<m_txMachineState, m_currentPkt, m_numBackoffRetries,
                          events, chanVars, finished>>
  <2>1. m_queue'[d] = q /\ \A o \in Device \ {d} : m_queue'[o] = m_queue[o]
    BY <1>1, <1>8 DEF TypeOK
  <2>2. TypeOK'
    BY <1>1, <1>3, <1>4, <1>5, <1>8, <2>1 DEF TypeOK, chanVars
  <2>3. OneSender' /\ EventsFindTheirState'
    BY <1>1, <1>8 DEF OneSender, EventsFindTheirState, EventsOf, chanVars
  <2>4. \A o \in Device : Current(o)' = Current(o) /\ finished'[o] = finished[o]
    BY <1>8 DEF Current
  <2>5. \A o \in Device : accepted'[o] = finished'[o] \o Current(o)' \o m_queue'[o]
    BY <1>1, <1>5, <1>6, <2>1, <2>4 DEF InOrder
  <2> QED
    BY <2>2, <2>3, <2>5 DEF IInv, InOrder, Current
<1> QED
  BY <1>7, <1>8 DEF SendFrom, q

LEMMA BackoffEventIInv ==
  ASSUME IInv, NEW d \in Device, BackoffEvent(d)
  PROVE  IInv'
<1> DEFINE ev == Ran(events[d], "TransmitStart")
           pkt == m_currentPkt[d]
           q == m_queue[d]
<1>1. TypeOK /\ OneSender /\ EventsFindTheirState /\ InOrder
  BY DEF IInv
<1>2. EventsOf(d) /\ events[d] \in [Event -> Nat] /\ events[d]["TransmitStart"] > 0
  BY <1>1 DEF EventsFindTheirState, TypeOK, BackoffEvent
<1>3. /\ m_txMachineState[d] = "BACKOFF" /\ pkt # NoPacket
      /\ events[d]["TransmitStart"] = 1 /\ events[d]["TransmitCompleteEvent"] = 0
      /\ events[d]["TransmitReadyEvent"] = 0
  BY <1>2 DEF EventsOf
<1>4. ev \in [Event -> Nat] /\ \A e \in Event : ev[e] = 0
  BY <1>2, <1>3 DEF Ran, Event
<1>5. /\ pkt \in Packet /\ q \in Seq(Packet) /\ Len(q) <= QueueLimit
      /\ finished[d] \in Seq(Packet) /\ accepted \in [Device -> Seq(Packet)]
  BY <1>1, <1>3 DEF TypeOK
<1>6. accepted[d] = finished[d] \o (<<pkt>> \o q)
  <2>1. accepted[d] = (finished[d] \o <<pkt>>) \o q
    BY <1>1, <1>3 DEF InOrder, Current
  <2> DEFINE f == finished[d]
             l == <<pkt>>
  <2>2. /\ f \in Seq(Packet) /\ l \in Seq(Packet) /\ q \in Seq(Packet)
        /\ accepted[d] = (f \o l) \o q
    BY <1>5, <2>1
  <2>3. accepted[d] = f \o (l \o q)
    <3> HIDE DEF f, l, q
    <3> QED
      BY <2>2, Reassociate
  <2> QED
    BY <2>3
<1>7. /\ TransmitStart(d, "BACKOFF", pkt, q, ev)
      /\ m_sendEnable' = m_sendEnable /\ rejected' = rejected /\ accepted' = accepted
  BY <1>3 DEF BackoffEvent
<1> HIDE DEF ev, pkt, q
<1> QED
  BY <1>3, <1>4, <1>5, <1>6, <1>7, TransmitStartIInv

LEMMA TransmitReadyEventIInv ==
  ASSUME IInv, NEW d \in Device, TransmitReadyEvent(d)
  PROVE  IInv'
<1> DEFINE ev == Ran(events[d], "TransmitReadyEvent")
           q == m_queue[d]
<1>1. TypeOK /\ OneSender /\ EventsFindTheirState /\ InOrder
  BY DEF IInv
<1>2. EventsOf(d) /\ events[d] \in [Event -> Nat] /\ events[d]["TransmitReadyEvent"] > 0
  BY <1>1 DEF EventsFindTheirState, TypeOK, TransmitReadyEvent
<1>3. /\ m_txMachineState[d] = "GAP" /\ m_currentPkt[d] = NoPacket
      /\ events[d]["TransmitStart"] = 0 /\ events[d]["TransmitCompleteEvent"] = 0
      /\ events[d]["TransmitReadyEvent"] = 1
  BY <1>2 DEF EventsOf
<1>4. ev \in [Event -> Nat] /\ \A e \in Event : ev[e] = 0
  BY <1>2, <1>3 DEF Ran, Event
<1>5. /\ q \in Seq(Packet) /\ Len(q) <= QueueLimit
      /\ finished[d] \in Seq(Packet) /\ accepted \in [Device -> Seq(Packet)]
  BY <1>1 DEF TypeOK
<1>6. accepted[d] = finished[d] \o q
  <2>1. finished[d] \o <<>> = finished[d]
    BY <1>5, ConcatEmptySeq
  <2> QED
    BY <1>1, <1>3, <2>1 DEF InOrder, Current
<1>7. m_sendEnable' = m_sendEnable /\ rejected' = rejected /\ accepted' = accepted
  BY DEF TransmitReadyEvent
<1>8. CASE q # <<>> /\ TransmitStart(d, "READY", Head(q), Tail(q), ev)
  <2> HIDE DEF ev, q
  <2>1. /\ Head(q) \in Packet /\ Tail(q) \in Seq(Packet) /\ Len(Tail(q)) = Len(q) - 1
        /\ q = <<Head(q)>> \o Tail(q)
    BY <1>5, <1>8, HeadThenTail
  <2>2. Len(Tail(q)) <= QueueLimit
    BY <1>5, <2>1, LenProperties, LimitAssumption
  <2>3. accepted[d] = finished[d] \o (<<Head(q)>> \o Tail(q))
    BY <1>6, <2>1
  <2> QED
    BY <1>3, <1>4, <1>5, <1>7, <1>8, <2>1, <2>2, <2>3, TransmitStartIInv
<1>9. CASE /\ q = <<>> /\ UNCHANGED <<chanVars, finished>>
           /\ Becomes(d, "READY", m_currentPkt[d], q, m_numBackoffRetries[d], ev)
  <2>1. /\ m_txMachineState' = [m_txMachineState EXCEPT ![d] = "READY"]
        /\ m_currentPkt' = m_currentPkt /\ m_queue' = m_queue
        /\ m_numBackoffRetries' = m_numBackoffRetries
        /\ events' = [events EXCEPT ![d] = ev]
    BY <1>1, <1>9 DEF Becomes, TypeOK
  <2>2. TypeOK'
    BY <1>1, <1>4, <1>7, <1>9, <2>1 DEF TypeOK, chanVars
  <2>3. OneSender'
    BY <1>1, <1>3, <1>9, <2>1 DEF OneSender, chanVars, TypeOK
  <2>4. EventsFindTheirState'
    <3>1. ASSUME NEW o \in Device PROVE EventsOf(o)'
      <4>1. EventsOf(o)
        BY <1>1 DEF EventsFindTheirState
      <4>2. CASE o = d
        <5>1. /\ m_txMachineState'[d] = "READY" /\ events'[d] = ev
              /\ m_currentPkt'[d] = NoPacket
          BY <1>1, <1>3, <2>1 DEF TypeOK
        <5> HIDE DEF ev
        <5> QED
          BY <1>4, <4>2, <5>1 DEF EventsOf, Event
      <4>3. CASE o # d
        <5>1. /\ m_txMachineState'[o] = m_txMachineState[o] /\ events'[o] = events[o]
              /\ m_currentPkt'[o] = m_currentPkt[o]
          BY <1>1, <2>1, <4>3 DEF TypeOK
        <5> QED
          BY <4>1, <5>1 DEF EventsOf
      <4> QED
        BY <4>2, <4>3
    <3> QED
      BY <3>1 DEF EventsFindTheirState
  <2>5. InOrder'
    BY <1>1, <1>7, <1>9, <2>1 DEF InOrder, Current
  <2> QED
    BY <2>2, <2>3, <2>4, <2>5 DEF IInv
<1> QED
  BY <1>8, <1>9 DEF TransmitReadyEvent

LEMMA TransmitCompleteEventIInv ==
  ASSUME IInv, NEW d \in Device, TransmitCompleteEvent(d)
  PROVE  IInv'
<1> DEFINE ev == Scheduled(Ran(events[d], "TransmitCompleteEvent"), "TransmitReadyEvent")
           pkt == m_currentPkt[d]
           f == finished[d]
           q == m_queue[d]
<1>1. TypeOK /\ OneSender /\ EventsFindTheirState /\ InOrder
  BY DEF IInv
<1>2. EventsOf(d) /\ events[d] \in [Event -> Nat] /\ events[d]["TransmitCompleteEvent"] > 0
  BY <1>1 DEF EventsFindTheirState, TypeOK, TransmitCompleteEvent
<1>3. /\ m_txMachineState[d] = "BUSY" /\ pkt # NoPacket
      /\ events[d]["TransmitStart"] = 0 /\ events[d]["TransmitCompleteEvent"] = 1
      /\ events[d]["TransmitReadyEvent"] = 0
  BY <1>2 DEF EventsOf
<1>4. /\ ev \in [Event -> Nat] /\ ev["TransmitReadyEvent"] = 1
      /\ ev["TransmitStart"] = 0 /\ ev["TransmitCompleteEvent"] = 0
  BY <1>2, <1>3 DEF Ran, Scheduled, Event
<1>5. /\ pkt \in Packet /\ f \in Seq(Packet) /\ q \in Seq(Packet)
      /\ <<pkt>> \in Seq(Packet) /\ <<>> \in Seq(Packet)
  BY <1>1, <1>3 DEF TypeOK
<1>6. f \o <<pkt>> \in Seq(Packet) /\ (f \o <<pkt>>) \o <<>> = f \o <<pkt>>
  BY <1>5, ConcatProperties, ConcatEmptySeq
<1>7. /\ m_txMachineState' = [m_txMachineState EXCEPT ![d] = "GAP"]
      /\ m_currentPkt' = [m_currentPkt EXCEPT ![d] = NoPacket]
      /\ m_queue' = m_queue /\ m_numBackoffRetries' = m_numBackoffRetries
      /\ events' = [events EXCEPT ![d] = ev]
      /\ finished' = [finished EXCEPT ![d] = f \o <<pkt>>]
      /\ m_state' = "PROPAGATING" /\ m_currentSrc' = m_currentSrc
      /\ m_sendEnable' = m_sendEnable /\ accepted' = accepted /\ rejected' = rejected
  BY <1>1 DEF TransmitCompleteEvent, Becomes, Finishes, TypeOK
<1>8. /\ m_txMachineState'[d] = "GAP" /\ m_currentPkt'[d] = NoPacket
      /\ events'[d] = ev /\ finished'[d] = f \o <<pkt>>
      /\ \A o \in Device \ {d} :
           /\ m_txMachineState'[o] = m_txMachineState[o]
           /\ m_currentPkt'[o] = m_currentPkt[o]
           /\ events'[o] = events[o] /\ finished'[o] = finished[o]
  BY <1>1, <1>7 DEF TypeOK
<1> HIDE DEF ev
<1>9. TypeOK'
  BY <1>1, <1>4, <1>6, <1>7 DEF TypeOK
<1>10. OneSender'
  BY <1>1, <1>3, <1>7, <1>8 DEF OneSender
<1>11. EventsFindTheirState'
  <2>1. EventsOf(d)'
    BY <1>4, <1>8 DEF EventsOf
  <2>2. ASSUME NEW o \in Device \ {d} PROVE EventsOf(o)'
    BY <1>1, <1>8 DEF EventsFindTheirState, EventsOf
  <2> QED
    BY <2>1, <2>2 DEF EventsFindTheirState
<1>12. InOrder'
  <2>1. ASSUME NEW o \in Device \ {d}
        PROVE  accepted'[o] = finished'[o] \o Current(o)' \o m_queue'[o]
    <3>1. accepted[o] = finished[o] \o Current(o) \o m_queue[o]
      BY <1>1 DEF InOrder
    <3>2. Current(o)' = Current(o)
      BY <1>8 DEF Current
    <3> QED
      BY <1>7, <1>8, <3>1, <3>2
  <2>2. accepted'[d] = finished'[d] \o Current(d)' \o m_queue'[d]
    <3>1. accepted[d] = (f \o <<pkt>>) \o q
      BY <1>1, <1>3 DEF InOrder, Current
    <3>2. Current(d)' = <<>>
      BY <1>8 DEF Current
    <3> QED
      BY <1>6, <1>7, <1>8, <3>1, <3>2
  <2>3. \A o \in Device : accepted'[o] = finished'[o] \o Current(o)' \o m_queue'[o]
    BY <2>1, <2>2
  <2> QED
    BY <2>3 DEF InOrder, Current
<1> QED
  BY <1>9, <1>10, <1>11, <1>12 DEF IInv

(* The steps that touch no device's transmission.                          *)
LEMMA OtherStepsIInv ==
  ASSUME IInv, UNCHANGED <<devVars, accepted, finished>>,
         \/ /\ UNCHANGED chanVars /\ rejected' \subseteq Packet
            /\ m_sendEnable' \in [Device -> BOOLEAN]
         \/ PropagationCompleteEvent
  PROVE  IInv'
<1>1. TypeOK /\ OneSender /\ EventsFindTheirState /\ InOrder
  BY DEF IInv
<1>2. TypeOK'
  BY <1>1 DEF TypeOK, devVars, chanVars, PropagationCompleteEvent
<1>3. OneSender'
  BY <1>1 DEF OneSender, devVars, chanVars, PropagationCompleteEvent
<1>4. EventsFindTheirState' /\ InOrder'
  BY <1>1 DEF EventsFindTheirState, EventsOf, InOrder, Current, devVars
<1> QED
  BY <1>2, <1>3, <1>4 DEF IInv

LEMMA NextIInv == IInv /\ [Next]_vars => IInv'
<1> SUFFICES ASSUME IInv, [Next]_vars PROVE IInv'
  OBVIOUS
<1>1. ASSUME NEW d \in Device, NEW p \in Packet, SendFrom(d, p) PROVE IInv'
  BY <1>1, SendFromIInv
<1>2. ASSUME NEW d \in Device, NEW p \in Packet, RefuseSend(d, p) PROVE IInv'
  BY <1>2, OtherStepsIInv DEF RefuseSend, IInv, TypeOK
<1>3. ASSUME NEW d \in Device, NEW b \in BOOLEAN, SetSendEnable(d, b) PROVE IInv'
  BY <1>3, OtherStepsIInv DEF SetSendEnable, IInv, TypeOK
<1>4. ASSUME NEW d \in Device, BackoffEvent(d) PROVE IInv'
  BY <1>4, BackoffEventIInv
<1>5. ASSUME NEW d \in Device, TransmitCompleteEvent(d) PROVE IInv'
  BY <1>5, TransmitCompleteEventIInv
<1>6. ASSUME NEW d \in Device, TransmitReadyEvent(d) PROVE IInv'
  BY <1>6, TransmitReadyEventIInv
<1>7. CASE PropagationCompleteEvent
  BY <1>7, OtherStepsIInv DEF PropagationCompleteEvent
<1>8. CASE UNCHANGED vars
  BY <1>8, OtherStepsIInv DEF vars, IInv, TypeOK
<1> QED
  BY <1>1, <1>2, <1>3, <1>4, <1>5, <1>6, <1>7, <1>8 DEF Next
-----------------------------------------------------------------------------
(* Every handler of the device, SetSendEnable and the channel keep the     *)
(* inductive invariant.                                                    *)
THEOREM Inductive == Spec => []IInv
BY InitIInv, NextIInv, PTL DEF Spec

(* The queue never exceeds its limit, nor the retries m_maxRetries.        *)
THEOREM TypeCorrect == Spec => []TypeOK
<1>1. IInv => TypeOK
  BY DEF IInv
<1> QED
  BY <1>1, Inductive, PTL

(* A transmission has the wire to itself: TransmitStart's carrier sense    *)
(* keeps two devices from being BUSY at once, whatever their number.       *)
THEOREM WireToItself == Spec => []OneSender
<1>1. IInv => OneSender
  BY DEF IInv
<1> QED
  BY <1>1, Inductive, PTL

(* TransmitStart, TransmitCompleteEvent and TransmitReadyEvent always find *)
(* the state their NS_ASSERTs want, and never run twice.                   *)
THEOREM AssertionsHold == Spec => []EventsFindTheirState
<1>1. IInv => EventsFindTheirState
  BY DEF IInv
<1> QED
  BY <1>1, Inductive, PTL

(* SendFrom, TransmitStart, TransmitAbort and the events lose, double and  *)
(* overtake no accepted packet.                                            *)
THEOREM AcceptedInOrder == Spec => []InOrder
<1>1. IInv => InOrder
  BY DEF IInv
<1> QED
  BY <1>1, Inductive, PTL
-----------------------------------------------------------------------------
(* A stopped device has nothing scheduled, and neither a step that         *)
(* schedules something for it nor one that leaves it READY with an empty   *)
(* queue stops it.                                                         *)
LEMMA ScheduledGoesOn ==
  ASSUME TypeOK, NEW d \in Device, NEW s, NEW p2, NEW q2, NEW r2,
         NEW ev \in [Event -> Nat], NEW e \in Event,
         Becomes(d, s, p2, q2, r2, Scheduled(ev, e))
  PROVE  ~Stopped(d)'
<1>1. events'[d] = Scheduled(ev, e)
  BY DEF Becomes, TypeOK
<1>2. Scheduled(ev, e)[e] = ev[e] + 1 /\ ev[e] \in Nat
  BY DEF Scheduled
<1>3. events'[d][e] # 0
  BY <1>1, <1>2
<1> QED
  BY <1>3 DEF Stopped

LEMMA RanIsTyped ==
  ASSUME TypeOK, NEW o \in Device, NEW e \in Event, events[o][e] > 0
  PROVE  Ran(events[o], e) \in [Event -> Nat]
<1>1. events[o] \in [Event -> Nat]
  BY DEF TypeOK
<1> DEFINE ev == events[o]
<1>2. ev \in [Event -> Nat] /\ ev[e] > 0
  BY <1>1
<1> HIDE DEF ev
<1>3. Ran(ev, e) \in [Event -> Nat]
  BY <1>2 DEF Ran
<1> QED
  BY <1>3 DEF ev

LEMMA ReadyAndEmptyIsIdle ==
  ASSUME TypeOK, NEW d \in Device, NEW p2, NEW r2, NEW ev,
         Becomes(d, "READY", p2, <<>>, r2, ev)
  PROVE  ~Stopped(d)'
<1>1. m_txMachineState'[d] = "READY" /\ m_queue'[d] = <<>>
  BY DEF Becomes, TypeOK
<1> QED
  BY <1>1 DEF Stopped

Cause(d) ==
  \/ ~m_sendEnable[d]
  \/ MayDetach /\ m_state = "IDLE" /\ m_state' = "IDLE"

LEMMA TransmitStartStops ==
  ASSUME TypeOK, NEW d \in Device, NEW state, NEW pkt, NEW q,
         NEW ev \in [Event -> Nat],
         TransmitStart(d, state, pkt, q, ev), Stopped(d)'
  PROVE  Cause(d)
<1>1. "TransmitStart" \in Event /\ "TransmitCompleteEvent" \in Event
  BY DEF Event
<1>2. ASSUME TransmitAbort(d, pkt, q, ev) PROVE FALSE
  <2>1. CASE Becomes(d, "READY", NoPacket, <<>>, 0, ev)
    BY <2>1, ReadyAndEmptyIsIdle
  <2>2. CASE Becomes(d, "BACKOFF", Head(q), Tail(q), 1, Scheduled(ev, "TransmitStart"))
    BY <1>1, <2>2, ScheduledGoesOn
  <2> QED
    BY <1>2, <2>1, <2>2 DEF TransmitAbort
<1>3. ASSUME Becomes(d, "BACKOFF", pkt, q, m_numBackoffRetries[d] + 1,
                     Scheduled(ev, "TransmitStart"))
      PROVE  FALSE
  BY <1>1, <1>3, ScheduledGoesOn
<1>4. ASSUME Becomes(d, "BUSY", pkt, q, 0, Scheduled(ev, "TransmitCompleteEvent"))
      PROVE  FALSE
  BY <1>1, <1>4, ScheduledGoesOn
<1>5. ASSUME m_state = "IDLE", MayDetach, UNCHANGED chanVars PROVE Cause(d)
  BY <1>5 DEF Cause, chanVars
<1> QED
  BY <1>2, <1>3, <1>4, <1>5 DEF TransmitStart, Cause

LEMMA StopsByCause ==
  ASSUME IInv, [Next]_vars, NEW d \in Device, ~Stopped(d), Stopped(d)'
  PROVE  Cause(d)
<1>1. TypeOK /\ events[d] \in [Event -> Nat]
  BY DEF IInv, TypeOK
<1>2. /\ "TransmitStart" \in Event /\ "TransmitCompleteEvent" \in Event
      /\ "TransmitReadyEvent" \in Event
  BY DEF Event
<1>3. CASE UNCHANGED <<m_txMachineState, m_queue, events>>
  BY <1>3 DEF Stopped
<1>4. ASSUME NEW o \in Device \ {d}, NEW s, NEW p2, NEW q2, NEW r2, NEW e2,
             Becomes(o, s, p2, q2, r2, e2)
      PROVE  FALSE
  <2>1. /\ m_txMachineState'[d] = m_txMachineState[d] /\ m_queue'[d] = m_queue[d]
        /\ events'[d] = events[d]
    BY <1>1, <1>4 DEF Becomes, TypeOK
  <2> QED
    BY <2>1 DEF Stopped
<1>5. ASSUME NEW o \in Device, NEW state, NEW pkt, NEW q, NEW ev \in [Event -> Nat],
             TransmitStart(o, state, pkt, q, ev)
      PROVE  Cause(d)
  <2>1. CASE o = d
    BY <1>1, <1>5, <2>1, TransmitStartStops
  <2>2. CASE o # d
    BY <1>4, <1>5, <2>2 DEF TransmitStart, TransmitAbort
  <2> QED
    BY <2>1, <2>2
<1>6. ASSUME NEW o \in Device, NEW p \in Packet, SendFrom(o, p) PROVE Cause(d)
  <2> DEFINE q == Append(m_queue[o], p)
  <2>1. CASE m_txMachineState[o] = "READY"
    <3>1. TransmitStart(o, "READY", Head(q), Tail(q), events[o])
      BY <1>6, <2>1 DEF SendFrom
    <3>2. events[o] \in [Event -> Nat]
      BY <1>1 DEF TypeOK
    <3> HIDE DEF q
    <3> QED
      BY <1>5, <3>1, <3>2
  <2>2. CASE m_txMachineState[o] # "READY"
    <3>1. /\ m_queue' = [m_queue EXCEPT ![o] = q]
          /\ UNCHANGED <<m_txMachineState, events>>
      BY <1>6, <2>2 DEF SendFrom
    <3>2. o = d
      BY <1>1, <3>1 DEF Stopped, TypeOK
    <3> QED
      BY <2>2, <3>1, <3>2 DEF Stopped
  <2> QED
    BY <2>1, <2>2
<1>7. ASSUME NEW o \in Device, BackoffEvent(o) PROVE Cause(d)
  <2>1. /\ Ran(events[o], "TransmitStart") \in [Event -> Nat]
        /\ TransmitStart(o, m_txMachineState[o], m_currentPkt[o], m_queue[o],
                         Ran(events[o], "TransmitStart"))
    BY <1>1, <1>2, <1>7, RanIsTyped DEF BackoffEvent
  <2> QED
    BY <1>5, <2>1
<1>8. ASSUME NEW o \in Device, TransmitCompleteEvent(o) PROVE Cause(d)
  <2> DEFINE ev == Ran(events[o], "TransmitCompleteEvent")
  <2>1. /\ ev \in [Event -> Nat] /\ "TransmitReadyEvent" \in Event
        /\ Becomes(o, "GAP", NoPacket, m_queue[o], m_numBackoffRetries[o],
                   Scheduled(ev, "TransmitReadyEvent"))
    BY <1>1, <1>2, <1>8, RanIsTyped DEF TransmitCompleteEvent
  <2> HIDE DEF ev
  <2>2. CASE o = d
    BY <1>1, <1>2, <2>1, <2>2, ScheduledGoesOn
  <2>3. CASE o # d
    BY <1>4, <2>1, <2>3
  <2> QED
    BY <2>2, <2>3
<1>9. ASSUME NEW o \in Device, TransmitReadyEvent(o) PROVE Cause(d)
  <2> DEFINE ev == Ran(events[o], "TransmitReadyEvent")
             q  == m_queue[o]
  <2>1. ev \in [Event -> Nat]
    BY <1>1, <1>2, <1>9, RanIsTyped DEF TransmitReadyEvent
  <2>2. \/ Becomes(o, "READY", m_currentPkt[o], <<>>, m_numBackoffRetries[o], ev)
        \/ TransmitStart(o, "READY", Head(q), Tail(q), ev)
    BY <1>9 DEF TransmitReadyEvent
  <2> HIDE DEF ev, q
  <2>3. CASE TransmitStart(o, "READY", Head(q), Tail(q), ev)
    BY <1>5, <2>1, <2>3
  <2>4. CASE Becomes(o, "READY", m_currentPkt[o], <<>>, m_numBackoffRetries[o], ev)
    BY <1>1, <1>4, <2>4, ReadyAndEmptyIsIdle
  <2> QED
    BY <2>2, <2>3, <2>4
<1>10. ASSUME NEW o \in Device, NEW p \in Packet, RefuseSend(o, p) PROVE Cause(d)
  BY <1>3, <1>10 DEF RefuseSend, devVars
<1>11. ASSUME NEW o \in Device, NEW b \in BOOLEAN, SetSendEnable(o, b) PROVE Cause(d)
  BY <1>3, <1>11 DEF SetSendEnable, devVars
<1>12. CASE PropagationCompleteEvent
  BY <1>3, <1>12 DEF PropagationCompleteEvent, devVars
<1>13. CASE UNCHANGED vars
  BY <1>3, <1>13 DEF vars, devVars
<1> QED
  BY <1>6, <1>7, <1>8, <1>9, <1>10, <1>11, <1>12, <1>13 DEF Next

(* SendFrom, the events and TransmitAbort never leave a device without an  *)
(* event that had one, but where its send side is disabled or the channel  *)
(* refuses an idle wire.                                                   *)
THEOREM StopsHaveCauses == Spec => StopHasCause
<1>1. ASSUME IInv, [Next]_vars
      PROVE  [\A d \in Device :
                ~Stopped(d) /\ Stopped(d)' =>
                  \/ ~m_sendEnable[d]
                  \/ MayDetach /\ m_state = "IDLE" /\ m_state' = "IDLE"]_vars
  BY <1>1, StopsByCause DEF Cause
<1> QED
  BY <1>1, Inductive, PTL DEF Spec, StopHasCause
-----------------------------------------------------------------------------
(* A channel that refuses nobody.  What makes FreshBackoff inductive is    *)
(* that retries are left only to a device that backs off: TransmitStart    *)
(* resets them when it takes the wire, TransmitAbort when it gives up.     *)
Rested(d) == m_txMachineState[d] # "BACKOFF" => m_numBackoffRetries[d] = 0

LEMMA BecomesAlone ==
  ASSUME TypeOK, NEW d \in Device, NEW s, NEW p2, NEW q2, NEW r2, NEW e2,
         Becomes(d, s, p2, q2, r2, e2)
  PROVE  /\ m_txMachineState'[d] = s /\ m_queue'[d] = q2 /\ m_numBackoffRetries'[d] = r2
         /\ \A o \in Device \ {d} :
              /\ m_txMachineState'[o] = m_txMachineState[o] /\ m_queue'[o] = m_queue[o]
              /\ m_numBackoffRetries'[o] = m_numBackoffRetries[o]
BY DEF Becomes, TypeOK

LEMMA TransmitStartRests ==
  ASSUME ~MayDetach, TypeOK, NEW d \in Device, NEW state, NEW pkt, NEW q, NEW ev,
         TransmitStart(d, state, pkt, q, ev),
         state # "BACKOFF" => m_numBackoffRetries[d] = 0,
         \A o \in Device : Rested(o)
  PROVE  \A o \in Device : Rested(o)'
<1>1. ASSUME NEW s, NEW p2, NEW q2, NEW r2, NEW e2, Becomes(d, s, p2, q2, r2, e2),
             s # "BACKOFF" => r2 = 0
      PROVE  \A o \in Device : Rested(o)'
  BY <1>1, BecomesAlone DEF Rested
<1> QED
  BY <1>1 DEF TransmitStart, TransmitAbort

LEMMA StepRests ==
  ASSUME ~MayDetach, IInv, \A o \in Device : Rested(o), [Next]_vars
  PROVE  \A o \in Device : Rested(o)'
<1>1. TypeOK
  BY DEF IInv
<1>2. CASE UNCHANGED <<m_txMachineState, m_numBackoffRetries>>
  BY <1>2 DEF Rested
<1>3. ASSUME NEW d \in Device, NEW p \in Packet, SendFrom(d, p)
      PROVE  \A o \in Device : Rested(o)'
  <2> DEFINE q == Append(m_queue[d], p)
  <2>1. CASE m_txMachineState[d] = "READY"
    <3>1. TransmitStart(d, "READY", Head(q), Tail(q), events[d])
      BY <1>3, <2>1 DEF SendFrom
    <3>2. m_numBackoffRetries[d] = 0
      BY <2>1 DEF Rested
    <3> HIDE DEF q
    <3> QED
      BY <1>1, <3>1, <3>2, TransmitStartRests
  <2>2. CASE m_txMachineState[d] # "READY"
    BY <1>2, <1>3, <2>2 DEF SendFrom
  <2> QED
    BY <2>1, <2>2
<1>4. ASSUME NEW d \in Device, BackoffEvent(d) PROVE \A o \in Device : Rested(o)'
  <2>1. TransmitStart(d, m_txMachineState[d], m_currentPkt[d], m_queue[d],
                      Ran(events[d], "TransmitStart"))
    BY <1>4 DEF BackoffEvent
  <2>2. m_txMachineState[d] # "BACKOFF" => m_numBackoffRetries[d] = 0
    BY DEF Rested
  <2> QED
    BY <1>1, <2>1, <2>2, TransmitStartRests
<1>5. ASSUME NEW d \in Device, NEW e \in {"TransmitCompleteEvent", "TransmitReadyEvent"},
             events[d][e] > 0
      PROVE  m_numBackoffRetries[d] = 0
  <2>1. m_txMachineState[d] # "BACKOFF"
    BY <1>5 DEF IInv, EventsFindTheirState, EventsOf
  <2> QED
    BY <2>1 DEF Rested
<1>6. ASSUME NEW d \in Device, NEW s, NEW p2, NEW q2, NEW e2,
             Becomes(d, s, p2, q2, m_numBackoffRetries[d], e2), m_numBackoffRetries[d] = 0
      PROVE  \A o \in Device : Rested(o)'
  BY <1>1, <1>6, BecomesAlone DEF Rested
<1>7. ASSUME NEW d \in Device, TransmitCompleteEvent(d) PROVE \A o \in Device : Rested(o)'
  BY <1>5, <1>6, <1>7 DEF TransmitCompleteEvent
<1>8. ASSUME NEW d \in Device, TransmitReadyEvent(d) PROVE \A o \in Device : Rested(o)'
  <2> DEFINE ev == Ran(events[d], "TransmitReadyEvent")
             q  == m_queue[d]
  <2>1. m_numBackoffRetries[d] = 0
    BY <1>5, <1>8 DEF TransmitReadyEvent
  <2>2. \/ Becomes(d, "READY", m_currentPkt[d], q, m_numBackoffRetries[d], ev)
        \/ TransmitStart(d, "READY", Head(q), Tail(q), ev)
    BY <1>8 DEF TransmitReadyEvent
  <2> HIDE DEF ev, q
  <2> QED
    BY <1>1, <1>6, <2>1, <2>2, TransmitStartRests
<1>9. ASSUME NEW d \in Device, NEW p \in Packet, RefuseSend(d, p)
      PROVE  \A o \in Device : Rested(o)'
  BY <1>2, <1>9 DEF RefuseSend, devVars
<1>10. ASSUME NEW d \in Device, NEW b \in BOOLEAN, SetSendEnable(d, b)
       PROVE  \A o \in Device : Rested(o)'
  BY <1>2, <1>10 DEF SetSendEnable, devVars
<1>11. CASE PropagationCompleteEvent
  BY <1>2, <1>11 DEF PropagationCompleteEvent, devVars
<1>12. CASE UNCHANGED vars
  BY <1>2, <1>12 DEF vars, devVars
<1> QED
  BY <1>3, <1>4, <1>7, <1>8, <1>9, <1>10, <1>11, <1>12 DEF Next

(* When the channel refuses nobody, a READY device has no retries left     *)
(* over, although SetSendEnable may be called at any time.                 *)
THEOREM FreshRetries == ASSUME ~MayDetach PROVE Spec => []FreshBackoff
<1> DEFINE AllRested == \A o \in Device : Rested(o)
<1>1. Init => AllRested
  BY DEF Init, Rested
<1>2. IInv /\ AllRested /\ [Next]_vars => AllRested'
  BY StepRests
<1>3. AllRested => FreshBackoff
  BY DEF Rested, FreshBackoff
<1> HIDE DEF AllRested
<1> QED
  BY <1>1, <1>2, <1>3, Inductive, PTL DEF Spec
-----------------------------------------------------------------------------
(* A channel that refuses nobody and send sides left enabled.              *)
SentOn(d) == m_sendEnable[d] /\ (m_txMachineState[d] = "READY" => m_queue[d] = <<>>)

LEMMA TransmitStartSendsOn ==
  ASSUME ~MayDetach, TypeOK, NEW d \in Device, NEW state, NEW pkt, NEW q, NEW ev,
         TransmitStart(d, state, pkt, q, ev), UNCHANGED m_sendEnable,
         \A o \in Device : SentOn(o)
  PROVE  \A o \in Device : SentOn(o)'
<1>1. ASSUME NEW s, NEW p2, NEW q2, NEW r2, NEW e2, Becomes(d, s, p2, q2, r2, e2),
             s = "READY" => q2 = <<>>
      PROVE  \A o \in Device : SentOn(o)'
  BY <1>1, BecomesAlone DEF SentOn
<1>2. m_sendEnable[d]
  BY DEF SentOn
<1> QED
  BY <1>1, <1>2 DEF TransmitStart, TransmitAbort

LEMMA StepSendsOn ==
  ASSUME ~MayDetach, ~MayDisable, IInv, \A o \in Device : SentOn(o), [Next]_vars
  PROVE  \A o \in Device : SentOn(o)'
<1>1. TypeOK
  BY DEF IInv
<1>2. CASE UNCHANGED <<m_txMachineState, m_queue, m_sendEnable>>
  BY <1>2 DEF SentOn
<1>3. ASSUME NEW d \in Device, NEW p \in Packet, SendFrom(d, p)
      PROVE  \A o \in Device : SentOn(o)'
  <2> DEFINE q == Append(m_queue[d], p)
  <2>1. CASE m_txMachineState[d] = "READY"
    <3>1. TransmitStart(d, "READY", Head(q), Tail(q), events[d]) /\ UNCHANGED m_sendEnable
      BY <1>3, <2>1 DEF SendFrom
    <3> HIDE DEF q
    <3> QED
      BY <1>1, <3>1, TransmitStartSendsOn
  <2>2. CASE m_txMachineState[d] # "READY"
    <3>1. /\ m_queue' = [m_queue EXCEPT ![d] = q]
          /\ UNCHANGED <<m_txMachineState, m_sendEnable>>
      BY <1>3, <2>2 DEF SendFrom
    <3> HIDE DEF q
    <3> QED
      BY <1>1, <2>2, <3>1 DEF SentOn, TypeOK
  <2> QED
    BY <2>1, <2>2
<1>4. ASSUME NEW d \in Device, BackoffEvent(d) PROVE \A o \in Device : SentOn(o)'
  <2>1. /\ TransmitStart(d, m_txMachineState[d], m_currentPkt[d], m_queue[d],
                         Ran(events[d], "TransmitStart"))
        /\ UNCHANGED m_sendEnable
    BY <1>4 DEF BackoffEvent
  <2> QED
    BY <1>1, <2>1, TransmitStartSendsOn
<1>5. ASSUME NEW d \in Device, TransmitCompleteEvent(d) PROVE \A o \in Device : SentOn(o)'
  BY <1>1, <1>5, BecomesAlone DEF TransmitCompleteEvent, SentOn
<1>6. ASSUME NEW d \in Device, TransmitReadyEvent(d) PROVE \A o \in Device : SentOn(o)'
  <2> DEFINE ev == Ran(events[d], "TransmitReadyEvent")
             q  == m_queue[d]
  <2>1. UNCHANGED m_sendEnable
    BY <1>6 DEF TransmitReadyEvent
  <2>2. \/ Becomes(d, "READY", m_currentPkt[d], <<>>, m_numBackoffRetries[d], ev)
        \/ TransmitStart(d, "READY", Head(q), Tail(q), ev)
    BY <1>6 DEF TransmitReadyEvent
  <2> HIDE DEF ev, q
  <2>3. CASE Becomes(d, "READY", m_currentPkt[d], <<>>, m_numBackoffRetries[d], ev)
    BY <1>1, <2>1, <2>3, BecomesAlone DEF SentOn
  <2>4. CASE TransmitStart(d, "READY", Head(q), Tail(q), ev)
    BY <1>1, <2>1, <2>4, TransmitStartSendsOn
  <2> QED
    BY <2>2, <2>3, <2>4
<1>7. ASSUME NEW d \in Device, NEW p \in Packet, RefuseSend(d, p)
      PROVE  \A o \in Device : SentOn(o)'
  BY <1>2, <1>7 DEF RefuseSend, devVars
<1>8. ASSUME NEW d \in Device, NEW b \in BOOLEAN, SetSendEnable(d, b)
      PROVE  \A o \in Device : SentOn(o)'
  BY <1>8 DEF SetSendEnable
<1>9. CASE PropagationCompleteEvent
  BY <1>2, <1>9 DEF PropagationCompleteEvent, devVars
<1>10. CASE UNCHANGED vars
  BY <1>2, <1>10 DEF vars, devVars
<1> QED
  BY <1>3, <1>4, <1>5, <1>6, <1>7, <1>8, <1>9, <1>10 DEF Next

(* When, besides, nobody calls SetSendEnable, a READY device has an empty  *)
(* queue: no full one that refuses every packet and starts none.           *)
THEOREM ReadyIsIdle == ASSUME ~MayDetach, ~MayDisable PROVE Spec => []IdleQueueIsEmpty
<1> DEFINE AllSentOn == \A o \in Device : SentOn(o)
<1>1. Init => AllSentOn
  BY DEF Init, SentOn
<1>2. IInv /\ AllSentOn /\ [Next]_vars => AllSentOn'
  BY StepSendsOn
<1>3. AllSentOn => IdleQueueIsEmpty
  BY DEF SentOn, IdleQueueIsEmpty
<1> HIDE DEF AllSentOn
<1> QED
  BY <1>1, <1>2, <1>3, Inductive, PTL DEF Spec
=============================================================================
