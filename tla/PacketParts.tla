---------------------------- MODULE PacketParts ----------------------------
(***************************************************************************)
(* What ParsePacket makes of one read of the stream, told by the place     *)
(* where the read ends. The handler gives it the whole 2048-byte buffer,   *)
(* of which the read filled a prefix and the rest is zero, so that:        *)
(*   - without the codec byte there is no codec;                           *)
(*   - with the codec byte but not the record count there are zero         *)
(*     records, and the closing count agrees: it is zero too;              *)
(*   - a cut inside the records leaves a zero for the closing count;       *)
(*   - the checksum is read and never compared.                            *)
(* The handler's model uses these operators, Codec8Parser checks them      *)
(* against the parser, byte by byte.                                       *)
(***************************************************************************)

(* Packets as a tracker may build them: codec 8 extended, another codec,   *)
(* two counts that differ, records that do not fit in the buffer, and 256  *)
(* points, which the encoder counts in a byte.                             *)
Forms == {"codec8e", "otherCodec", "miscounted", "oversize", "wrapped"}

(* Where a read can end: before the codec byte, between codec and record   *)
(* count, before the closing count, before the end of the checksum, or at  *)
(* the end of the packet.                                                  *)
Parts == {"header", "codec", "body", "counted", "whole"}

(* A read that does not start a packet takes "rest", what was left of it.  *)
CodecSeen(got) == got.part \notin {"header", "rest"} /\ got.packet.form # "otherCodec"
CountSeen(got) == got.part \in {"counted", "whole"} /\ got.packet.form = "codec8e"

(* A count of zero is met by the first byte of a time stamp, which is zero.*)
ReadsNoRecords(got) == got.part = "codec" \/ got.packet.form = "wrapped"
Accepts(got) == CodecSeen(got) /\ (ReadsNoRecords(got) \/ CountSeen(got))

(* The records of an oversize packet run past the end of the buffer, where *)
(* the readers slice what is not there; cut short, they may also end in    *)
(* the zero padding.                                                       *)
Overruns(got) == CodecSeen(got) /\ got.part # "codec" /\ got.packet.form = "oversize"
Refuses(got) == ~Accepts(got) /\ ~(Overruns(got) /\ got.part # "body")

(* The number of points of a packet that is accepted.                      *)
Count(got) == IF ReadsNoRecords(got) THEN 0 ELSE got.packet.n
=============================================================================
