----------------------------- MODULE MCCsmaLink -----------------------------
(***************************************************************************)
(* Instances of CsmaLink: a short packet for one device, the longest that  *)
(* leaves room for an LLC/SNAP header for all, and one of a byte more for  *)
(* a group.                                                                *)
(***************************************************************************)
EXTENDS CsmaLink, FiniteSets, TLC

CONSTANTS d1, d2, k1, k2, k3

MCDevice == {d1, d2}
MCPacket == {k1, k2, k3}
MCDestination == (k1 :> d2) @@ (k2 :> Broadcast) @@ (k3 :> Group)
MCSize        == (k1 :> 20) @@ (k2 :> 1492) @@ (k3 :> 1493)
MCProtocol    == (k1 :> 2048) @@ (k2 :> 2054) @@ (k3 :> 1501)

(* No packet comes to d2 that is for another host, so d2's promiscuous     *)
(* callback makes no difference: it is not set.                            *)
NoCallback == ~m_promiscRxCallback[d2]

(* Bound of the safety instance: d1 is the device that is switched, and    *)
(* one switch of it at a time is away from where a simulation begins.      *)
OneSwitch ==
  /\ NoCallback /\ m_sendEnable[d2] /\ m_receiveEnable[d2] /\ m_encapMode[d2] = "DIX"
  /\ Cardinality({d \in Device : ~m_sendEnable[d]})
     + Cardinality({d \in Device : ~m_receiveEnable[d]})
     + Cardinality({d \in Device : m_promiscRxCallback[d]})
     + Cardinality({d \in Device : m_encapMode[d] # "DIX"}) <= 1
=============================================================================
