---------------------------- MODULE RandomPoint ----------------------------
(***************************************************************************)
(* simulator/random_point.go: the points that the simulator of a tracker   *)
(* may invent, as records of PacketEncoder.                                *)
(*                                                                         *)
(* Timestamps is not set, so the time is zero. The IO elements are a list  *)
(* of one to five nil pointers: the list of the values that are encoded,   *)
(* IOElementsVal, is not set.                                              *)
(***************************************************************************)
EXTENDS PacketEncoder

(* min + Intn(max-min+1): both bounds may come out.                        *)
getRandomInt(min, max) == min..max

(* min + Float64()*(max-min): max does not. Told as PacketEncoder tells a  *)
(* coordinate, by the unit of the wire in which it lies.                   *)
Degrees == 10000000
getRandomFloat64(min, max) == Coordinates((min * Degrees)..(max * Degrees - 1))

PriorityLow == 0
PriorityPanic == 2

generateRandomAVLData ==
  [time : {[i \in 1..8 |-> 0]},
   priority : getRandomInt(PriorityLow, PriorityPanic),
   longitude : getRandomFloat64(-180, 180),
   latitude : getRandomFloat64(-90, 90),
   altitude : getRandomInt(-1000, 1000),
   angle : getRandomInt(0, 360),
   satellites : getRandomInt(0, 12),
   speed : getRandomInt(0, 200),
   event : getRandomInt(0, 100),
   slots : getRandomInt(1, 5),
   vals : {<<>>}]

(* SendRandomPoints puts one to three of them into a packet.               *)
PacketSizes == getRandomInt(1, 3)
=============================================================================
