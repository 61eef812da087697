-------------------------- MODULE MCCsmaNetDevice --------------------------
(***************************************************************************)
(* Instances of CsmaNetDevice: the devices and the packets are model       *)
(* values, and interchangeable where no property is temporal.              *)
(***************************************************************************)
EXTENDS CsmaNetDevice, TLC

Symmetry == Permutations(Device) \cup Permutations(Packet)
=============================================================================
