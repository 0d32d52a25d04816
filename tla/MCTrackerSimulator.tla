------------------------- MODULE MCTrackerSimulator -------------------------
(***************************************************************************)
(* Instances of TrackerSimulator for TLC.                                  *)
(***************************************************************************)
EXTENDS TrackerSimulator

SizedPackets == {[form |-> "codec8e", n |-> n] : n \in PacketSizes}
TwoPoints == {p \in SizedPackets : p.n = 2}
OnePoint == {p \in SizedPackets : p.n = 1}
=============================================================================
