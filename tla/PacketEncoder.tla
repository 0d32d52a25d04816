--------------------------- MODULE PacketEncoder ---------------------------
(***************************************************************************)
(* The bytes that a client writes (parser/encoder.go and EncodeIMEIToHex   *)
(* of parser/utils.go): the IMEI message and the packet of codec 8         *)
(* extended. The tests and the simulator use them; a real tracker builds   *)
(* the same layout, with elements of any of the four lengths.              *)
(*                                                                         *)
(* A point is a record of its fields as integers; time is kept as its      *)
(* eight bytes. A coordinate is a float64: of its product with 1e7, the    *)
(* unit of the wire, only the integer below it is kept, and whether it is  *)
(* exactly that integer. vals are the IO elements, each an ID with the     *)
(* bytes of numberToStream, and slots is len(IOElements), a list of its    *)
(* own that only its length is used of.                                    *)
(***************************************************************************)
EXTENDS Integers, Sequences, SequencesExt

Bytes == 0..255
Fits(x, least, greatest) == x \in Int /\ least <= x /\ x <= greatest

Coordinates(floors) == [floor : floors, exact : BOOLEAN]

(* uint32(coordinate * 1e7), which on amd64, what the Dockerfile builds,   *)
(* drops the fraction, and so rounds toward zero.                          *)
Truncated(coordinate) ==
  IF coordinate.exact \/ coordinate.floor >= 0 THEN coordinate.floor
  ELSE coordinate.floor + 1

(* AVLData: what the types of its fields, and 16 bits of a count, can hold.*)
IsAVLData(p) ==
  /\ p.time \in Seq(Bytes) /\ Len(p.time) = 8
  /\ p.priority \in Bytes /\ p.satellites \in Bytes
  /\ Fits(p.longitude.floor, -2147483647 - 1, 2147483647) /\ p.longitude.exact \in BOOLEAN
  /\ Fits(p.latitude.floor, -2147483647 - 1, 2147483647) /\ p.latitude.exact \in BOOLEAN
  /\ Fits(p.altitude, -32768, 32767)
  /\ Fits(p.angle, 0, 65535) /\ Fits(p.speed, 0, 65535) /\ Fits(p.event, 0, 65535)
  /\ Fits(p.slots, 0, 65535) /\ Fits(Len(p.vals), 0, 65535)
  /\ p.vals \in Seq([id : Nat, stream : Seq(Bytes)])
  /\ \A i \in DOMAIN p.vals : Fits(p.vals[i].id, 0, 65535)

Zeros(n) == [i \in 1..n |-> 0]

(* AppendUint16 and AppendUint32, two's complement for what is negative.   *)
AppendUint16(x) == << (x \div 256) % 256, x % 256 >>
AppendUint32(x) == AppendUint16((x \div 65536) % 65536) \o AppendUint16(x % 65536)

(* numberToStream of an IOElementVal, whose Values is a uint32: so the     *)
(* encoder itself only ever fills the stage of the four-byte elements.     *)
numberToStream(x) == AppendUint32(x)

Streams == <<1, 2, 4, 8>>   \* length of an element, by stage

Chosen(vals, stage) ==
  FlattenSeq([i \in DOMAIN vals |->
    IF Len(vals[i].stream) = Streams[stage] THEN <<vals[i]>> ELSE <<>>])

EncodeElement(v) == AppendUint16(v.id) \o v.stream

(* The elements of one stage: their number, then ID and bytes of each.     *)
EncodeStage(vals, stage) ==
  LET chosen == Chosen(vals, stage)
  IN AppendUint16(Len(chosen)) \o FlattenSeq([i \in DOMAIN chosen |-> EncodeElement(chosen[i])])

EncodeFields(p) ==
  p.time \o <<p.priority>>
  \o AppendUint32(Truncated(p.longitude)) \o AppendUint32(Truncated(p.latitude))
  \o AppendUint16(p.altitude) \o AppendUint16(p.angle) \o <<p.satellites>>
  \o AppendUint16(p.speed) \o AppendUint16(p.event)

EncodePoint(p) ==
  EncodeFields(p)
  \o AppendUint16(p.slots)
  \o FlattenSeq([stage \in 1..4 |-> EncodeStage(p.vals, stage)])
  \o AppendUint16(0)

EncodeCodec8ExtendedAVLData(points) ==
  FlattenSeq([i \in DOMAIN points |-> EncodePoint(points[i])])

Codec8Extended == 142

(* The packet around the records. The number of points is cut to a byte,   *)
(* and the checksum is never computed.                                     *)
MakePacket(codec, count, points, closing) ==
  LET body == EncodeCodec8ExtendedAVLData(points)
  IN Zeros(4) \o AppendUint32(Len(body) + 1) \o <<codec, count % 256>>
     \o body \o <<closing % 256>> \o Zeros(4)

MakeCodec8Packet(points) ==
  MakePacket(Codec8Extended, Len(points), points, Len(points))

(* EncodeIMEIToHex of the 15 characters of an IMEI.                        *)
EncodeIMEIToHex(digits) == <<0, 15>> \o digits
=============================================================================
