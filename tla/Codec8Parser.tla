---------------------------- MODULE Codec8Parser ----------------------------
(***************************************************************************)
(* The parser of the server, byte by byte: DecodeIMEI on the bytes of one  *)
(* read, ParsePacket on the whole buffer that one read filled in part.     *)
(* data is what it is given, pos how many bytes reader.Next has consumed.  *)
(* A read past the end panics: the readers index, or take Uint16 of, a     *)
(* slice that is too short.                                                *)
(*                                                                         *)
(* The input is a message that a client wrote and the stretch of it that   *)
(* the read returned, from one place to another: the question is what the  *)
(* parser makes of every possible cut.                                     *)
(***************************************************************************)
EXTENDS PacketEncoder, IOElements, PacketParts

CONSTANTS
  IMEIs,        \* the IMEI messages' digits
  Packets,      \* packets: their form and their points
  BufferSize,   \* bytes of the buffer, 2048 in handler.go
  ZoneInfo      \* the machine has the database of time zones

ASSUME BufferSizeAssumption == BufferSize \in Nat /\ BufferSize >= 15
ASSUME ZoneInfoAssumption == ZoneInfo \in BOOLEAN
ASSUME DigitsAssumption == \A d \in IMEIs : d \in Seq(Bytes) /\ Len(d) = 15
ASSUME PointsAssumption ==
  \A p \in Packets :
    p.form \in Forms /\ p.points \in Seq(ToSet(p.points)) /\ Len(p.points) \in 1..255

(* The records are typed as in the encoder, and their dates begin with a   *)
(* zero byte: the milliseconds of any year up to two million.              *)
ASSUME RecordsAssumption ==
  \A p \in Packets : \A i \in 1..Len(p.points) :
    IsAVLData(p.points[i]) /\ p.points[i].time[1] = 0

VARIABLES
  message,   \* the IMEI message or the packet in question
  from, to,  \* the stretch of its bytes that the read returned
  data,      \* the bytes given to the parser
  at,        \* where the parser is, or what it returned
  pos,
  number,    \* header.NumberOfData
  points,    \* points parsed
  gps,       \* the point in hand, without its elements
  stage,
  left,      \* elements left in this stage
  elements

inputVars == <<message, from, to, data>>
vars == <<inputVars, at, pos, number, points, gps, stage, left, elements>>

IMEIMessage(digits) == [kind |-> "imei", digits |-> digits]
PacketMessage(p) == [kind |-> "packet", packet |-> p]

(* What is on the wire for a message. Of the 256 points of a wrapped       *)
(* packet, only the first ones are written down: they fill the buffer.     *)
Wire(m) ==
  IF m.kind = "imei" THEN EncodeIMEIToHex(m.digits)
  ELSE LET n == Len(m.packet.points)
       IN CASE m.packet.form = "otherCodec" -> MakePacket(8, n, m.packet.points, n)
            [] m.packet.form = "miscounted" ->
                 MakePacket(Codec8Extended, n, m.packet.points, n + 1)
            [] m.packet.form = "wrapped" ->
                 MakePacket(Codec8Extended, 256, m.packet.points, 256)
            [] OTHER -> MakeCodec8Packet(m.packet.points)

(* A packet is oversize, or has 256 points, when it overruns the buffer;   *)
(* 256 points do so before they end.                                       *)
ASSUME SizesAssumption ==
  \A p \in Packets :
    /\ p.form \in {"oversize", "wrapped"} <=> Len(Wire(PacketMessage(p))) > BufferSize
    /\ p.form = "wrapped" => Len(Wire(PacketMessage(p))) - 5 >= BufferSize

Lesser(a, b) == IF a < b THEN a ELSE b

(* conn.Read returns at most BufferSize bytes. The first read of a message *)
(* starts it; when the handler came back for the rest of a packet, it had  *)
(* accepted the packet without its checksum or a part of that.             *)
Starts(m) == {1} \cup IF m.kind = "packet" /\ m.packet.form = "codec8e"
                      THEN (Len(Wire(m)) - 3)..Len(Wire(m)) ELSE {}
Ends(m, first) == IF first = 1 THEN 1..Lesser(Len(Wire(m)), BufferSize) ELSE {Len(Wire(m))}

(* buf[:size] for DecodeIMEI, buf for ParsePacket.                         *)
Given(m, first, last) ==
  LET bytes == SubSeq(Wire(m), first, last)
  IN IF m.kind = "imei" THEN bytes ELSE bytes \o Zeros(BufferSize - Len(bytes))

NoPoint == <<>>

Init ==
  /\ message \in {IMEIMessage(d) : d \in IMEIs} \cup {PacketMessage(p) : p \in Packets}
  /\ from \in Starts(message)
  /\ to \in Ends(message, from)
  /\ data = Given(message, from, to)
  /\ at = IF message.kind = "imei" THEN "imei" ELSE "header"
  /\ pos = 0
  /\ number = 0
  /\ points = <<>>
  /\ gps = NoPoint
  /\ stage = 0
  /\ left = 0
  /\ elements = <<>>

-----------------------------------------------------------------------------
(* bytes.Buffer.Next, and how many bytes the next reads of each place want.*)
NextBytes(n) == SubSeq(data, pos + 1, Lesser(pos + n, Len(data)))

HeaderLength == 10
PointLength == 28      \* a record up to its elements, their total included
ClosingMatches == NextBytes(1) = <<number>>

Wanted ==
  CASE at = "header" -> HeaderLength
    [] at = "records" /\ Len(points) < number -> PointLength
    [] at = "records" /\ Len(points) = number -> IF ClosingMatches THEN 5 ELSE 1
    [] at = "stage" -> 2
    [] at = "elements" /\ left > 0 -> 2 + Streams[stage]
    [] OTHER -> 0

Enough == pos + Wanted <= Len(data)
Consume == Enough /\ pos' = pos + Wanted

(* A signed number of so many bytes, which is what int32(Uint32(..)) gives.*)
Int32(bytes) ==
  (IF bytes[1] < 128 THEN bytes[1] ELSE bytes[1] - 256) * 16777216
    + bytes[2] * 65536 + bytes[3] * 256 + bytes[4]

(* DecodeIMEI: two bytes of length, and as many characters as they say.    *)
DecodesIMEI(bytes) == Len(bytes) >= 2 /\ Len(bytes) - 2 = Uint16(bytes)

DecodeIMEI ==
  /\ at = "imei"
  /\ at' = IF DecodesIMEI(data) THEN "accepted" ELSE "refused"
  /\ UNCHANGED <<inputVars, pos, number, points, gps, stage, left, elements>>

ParseHeader ==
  /\ at = "header" /\ Consume
  /\ LET header == NextBytes(HeaderLength)
     IN /\ number' = header[10]
        /\ at' = IF SubSeq(header, 1, 4) = Zeros(4) /\ header[9] = Codec8Extended
                 THEN "records" ELSE "refused"
  /\ UNCHANGED <<inputVars, points, gps, stage, left, elements>>

(* The 64 bits of a time, as four words of 16, most significant first.     *)
Words(time) == [i \in 1..4 |-> time[2 * i - 1] * 256 + time[2 * i]]
Negative(w) == w[1] >= 32768
AtMost(w, u) ==
  \/ w = u
  \/ \E i \in 1..4 : w[i] < u[i] /\ \A j \in 1..(i - 1) : w[j] = u[j]

(* w * 1000, cut to 64 bits, and w / 1000 of an unsigned w.                *)
Thousandfold(w) ==
  LET d == 1000 * w[4]
      c == 1000 * w[3] + d \div 65536
      b == 1000 * w[2] + c \div 65536
      a == 1000 * w[1] + b \div 65536
  IN << a % 65536, b % 65536, c % 65536, d % 65536 >>

WholeThousands(w) ==
  LET b == (w[1] % 1000) * 65536 + w[2]
      c == (b % 1000) * 65536 + w[3]
      d == (c % 1000) * 65536 + w[4]
  IN << w[1] \div 1000, b \div 1000, c \div 1000, d \div 1000 >>

(* The second of a number of nanoseconds, rounded down.                    *)
Complement(w) == [i \in 1..4 |-> 65535 - w[i]]
Second(nanos) ==
  LET unsigned(w) == WholeThousands(WholeThousands(WholeThousands(w)))
  IN IF Negative(nanos) THEN Complement(unsigned(Complement(nanos))) ELSE unsigned(nanos)

TenDigits == <<0, 2, 21515, 58367>>   \* 9999999999

(* Fault: a number of milliseconds is always one of more than ten digits.  *)
convertToDateMillis(time) == Second(Thousandfold(Thousandfold(Words(time))))

(* The second since 1970 whose date, on the clock of Tehran, is the text:  *)
(* a number of up to ten decimal digits counts seconds, a longer one       *)
(* milliseconds, and both become an int64 of nanoseconds, which wraps.     *)
convertToDate(time) ==
  LET epoch == Words(time)
      millis == IF Negative(epoch) \/ AtMost(epoch, TenDigits) THEN Thousandfold(epoch)
                ELSE epoch
  IN Second(Thousandfold(Thousandfold(millis)))

(* The 26 bytes of the fields. The sign of a coordinate is in the two's    *)
(* complement: longitude>>31 is 0 or -1, never 1, so the negation that     *)
(* follows is dead code. Altitude is taken as unsigned.                    *)
Fields26(b) ==
  [date |-> convertToDate(SubSeq(b, 1, 8)), priority |-> b[9],
   longitude |-> Int32(SubSeq(b, 10, 13)), latitude |-> Int32(SubSeq(b, 14, 17)),
   altitude |-> Uint16(SubSeq(b, 18, 19)), angle |-> Uint16(SubSeq(b, 20, 21)),
   satellites |-> b[22], speed |-> Uint16(SubSeq(b, 23, 24)),
   event |-> Uint16(SubSeq(b, 25, 26))]

(* Fault: the list of elements is made once for the packet.                *)
ReadPointKeepsElements ==
  /\ at = "records" /\ Len(points) < number
  /\ ZoneInfo
  /\ Consume
  /\ gps' = Fields26(NextBytes(26))
  /\ at' = "stage" /\ stage' = 1
  /\ UNCHANGED <<inputVars, number, points, left, elements>>

(* The fields, then the total of the elements, which nothing uses.         *)
ReadPoint ==
  /\ at = "records" /\ Len(points) < number
  /\ ZoneInfo
  /\ Consume
  /\ gps' = Fields26(NextBytes(26))
  /\ at' = "stage" /\ stage' = 1 /\ elements' = <<>>
  /\ UNCHANGED <<inputVars, number, points, left>>

ReadStageCount ==
  /\ at = "stage" /\ Consume
  /\ left' = Uint16(NextBytes(2))
  /\ at' = "elements"
  /\ UNCHANGED <<inputVars, number, points, gps, stage, elements>>

ReadElement ==
  /\ at = "elements" /\ left > 0 /\ Consume
  /\ LET b == NextBytes(Wanted)
     IN elements' = elements \o Decode(stage, Uint16(b), SubSeq(b, 3, Len(b)))
  /\ left' = left - 1
  /\ UNCHANGED <<inputVars, at, number, points, gps, stage>>

(* Fault: the two bytes after the elements are counted, not read.          *)
EndStagePastEnd ==
  /\ at = "elements" /\ left = 0
  /\ IF stage < 4
     THEN /\ at' = "stage" /\ stage' = stage + 1
          /\ UNCHANGED <<pos, points>>
     ELSE /\ at' = "records" /\ UNCHANGED stage
          /\ pos' = pos + 2
          /\ points' = Append(points, [gps |-> gps, elements |-> elements])
  /\ UNCHANGED <<inputVars, number, gps, left, elements>>

(* The end of a stage. The last one ends the point: two bytes are skipped, *)
(* if they are there, and the next record follows.                         *)
EndStage ==
  /\ at = "elements" /\ left = 0
  /\ IF stage < 4
     THEN /\ at' = "stage" /\ stage' = stage + 1
          /\ UNCHANGED <<pos, points>>
     ELSE /\ at' = "records" /\ UNCHANGED stage
          /\ pos' = Lesser(pos + 2, Len(data))
          /\ points' = Append(points, [gps |-> gps, elements |-> elements])
  /\ UNCHANGED <<inputVars, number, gps, left, elements>>

(* Fault: the closing count is skipped like the checksum.                  *)
EndRecordsUncounted ==
  /\ at = "records" /\ Len(points) = number
  /\ pos + 5 <= Len(data) /\ pos' = pos + 5
  /\ at' = "accepted"
  /\ UNCHANGED <<inputVars, number, points, gps, stage, left, elements>>

(* The closing count, and the checksum, which must be there but may be     *)
(* anything.                                                               *)
EndRecords ==
  /\ at = "records" /\ Len(points) = number /\ Consume
  /\ at' = IF ClosingMatches THEN "accepted" ELSE "refused"
  /\ UNCHANGED <<inputVars, number, points, gps, stage, left, elements>>

(* A reader is given less than it indexes, or convertToDate has no zone:   *)
(* the error of LoadLocation is printed, and In(nil) panics.               *)
ReadPanics ==
  /\ ~Enough \/ (at = "records" /\ Len(points) < number /\ ~ZoneInfo)
  /\ at' = "panicked"
  /\ UNCHANGED <<inputVars, pos, number, points, gps, stage, left, elements>>

Outcomes == {"accepted", "refused", "panicked"}
Returned == at \in Outcomes /\ UNCHANGED vars

Next ==
  \/ DecodeIMEI \/ ParseHeader \/ ReadPoint \/ ReadStageCount \/ ReadElement \/ EndStage
  \/ EndRecords \/ ReadPanics
  \/ Returned

Spec == Init /\ [][Next]_vars

-----------------------------------------------------------------------------
(* SaveAvlPoints: what of a point goes into its row. Fields are narrowed,  *)
(* and the elements become a map, where the last of a name wins.           *)

(* Fault: the altitude is stored as it was parsed.                         *)
Int16AsIs(x) == x

Int16(x) == IF x % 65536 < 32768 THEN x % 65536 ELSE (x % 65536) - 65536

ElementMap(es) ==
  [name \in {es[i].name : i \in DOMAIN es} |->
     es[CHOOSE i \in DOMAIN es :
          es[i].name = name /\ \A j \in DOMAIN es : es[j].name = name => j <= i].value]

Row(point) ==
  [point.gps EXCEPT !.altitude = Int16(@), !.angle = Int16(@), !.speed = Int16(@),
                    !.satellites = @ % 256, !.event = @ % 65536]

-----------------------------------------------------------------------------
(* Properties.                                                             *)

(* The parser's variables keep to their types; the cursor, in particular,  *)
(* stays within what the parser was given.                                 *)
ParserTypeOK ==
  /\ at \in {"imei", "header", "records", "stage", "elements"} \cup Outcomes
  /\ \A i \in DOMAIN data : data[i] \in Bytes
  /\ pos \in 0..Len(data)
  /\ number \in Bytes
  /\ Len(points) <= number
  /\ stage \in 0..4
  /\ left \in 0..(256 * 256 - 1)

Length == Len(Wire(message))

(* The part of the packet that was read, as PacketParts names it.          *)
PartRead ==
  CASE from > 1 -> "rest"
    [] from = 1 /\ to = Length -> "whole"
    [] from = 1 /\ to <= 8 -> "header"
    [] from = 1 /\ to = 9 -> "codec"
    [] from = 1 /\ to \in 10..(Length - 5) -> "body"
    [] OTHER -> "counted"

Got == [packet |-> [form |-> message.packet.form, n |-> Len(message.packet.points)],
        part |-> PartRead]

(* Wherever a read cuts a packet or an IMEI message, the parser returns    *)
(* what the model of the handlers takes for granted: nothing but a whole   *)
(* IMEI is decoded, and a packet is accepted, with so many points, refused *)
(* or panicked over as PacketParts says of the part that was read.         *)
CutsClassified ==
  IF message.kind = "imei"
  THEN /\ at = "accepted" => PartRead = "whole"
       /\ at = "refused" => PartRead # "whole"
  ELSE /\ at = "accepted" => Accepts(Got) /\ Len(points) = Count(Got)
       /\ at = "refused" => Refuses(Got)
       /\ at = "panicked" => Overruns(Got)

Accepted == at = "accepted" /\ message.kind = "packet" /\ PartRead \in {"counted", "whole"}
Sent == message.packet.points

SentFields(p) ==
  [date |-> convertToDate(p.time), priority |-> p.priority,
   longitude |-> Truncated(p.longitude), latitude |-> Truncated(p.latitude),
   altitude |-> p.altitude, angle |-> p.angle, satellites |-> p.satellites,
   speed |-> p.speed, event |-> p.event]

SentElements(p) ==
  FlattenSeq([s \in 1..4 |->
    LET chosen == Chosen(p.vals, s)
    IN FlattenSeq([i \in DOMAIN chosen |-> Decode(s, chosen[i].id, chosen[i].stream)])])

(* The parser stays in step with the records it reads: every point of an   *)
(* accepted packet has the fields and the elements that were encoded, in   *)
(* their order, whatever is before it; only the altitude may have lost its *)
(* sign.                                                                   *)
RecordsInStep ==
  Accepted =>
    \A i \in DOMAIN Sent :
      points[i] = [gps |-> [SentFields(Sent[i]) EXCEPT !.altitude = @ % 65536],
                   elements |-> SentElements(Sent[i])]

(* An int64 of nanoseconds ends in 2262.                                   *)
LastSecond == <<0, 2, 9665, 32004>>           \* 9223372036
LastMillisecond == <<0, 2147, 31696, 23286>>  \* 9223372036854
TenDigitsOrLess(p) == AtMost(Words(p.time), TenDigits)
Datable(p) ==
  AtMost(Words(p.time), IF TenDigitsOrLess(p) THEN LastSecond ELSE LastMillisecond)

(* An angle is one of 360 degrees and a speed is in km/h: the row has 15   *)
(* bits for each, and AVLData 16.                                          *)
Measurable(p) == p.angle < 32768 /\ p.speed < 32768 /\ Datable(p)

(* The second of a time that counts seconds, or else milliseconds.         *)
MeasuredSecond(p) ==
  IF TenDigitsOrLess(p) THEN Words(p.time) ELSE WholeThousands(Words(p.time))

(* x is less than one unit of the wire away from the coordinate.           *)
Near(x, coordinate) ==
  x = coordinate.floor \/ (~coordinate.exact /\ x = coordinate.floor + 1)

(* The row of a point holds what the tracker measured: the whole second,   *)
(* in whichever unit it was told; the coordinates to a unit of the wire;   *)
(* the altitude with the sign that the parser drops, which the narrowing   *)
(* to int16 gives back; and every other field of a measurable point as it  *)
(* was (encoder.go 60-82, parser.go 71-118, save_points.go 42-58).         *)
RowsAsMeasured ==
  Accepted =>
    \A i \in DOMAIN Sent : Measurable(Sent[i]) =>
      LET row == Row(points[i])
          sent == Sent[i]
      IN /\ row.date = MeasuredSecond(sent)
         /\ Near(row.longitude, sent.longitude) /\ Near(row.latitude, sent.latitude)
         /\ row.altitude = sent.altitude /\ row.angle = sent.angle
         /\ row.speed = sent.speed /\ row.satellites = sent.satellites
         /\ row.priority = sent.priority /\ row.event = sent.event

(* A record tells an ID once.                                              *)
TellsOnce(p) == \A v, w \in ToSet(p.vals) : v.id = w.id => v = w

(* The map of a row keeps the value of every element that was parsed: no   *)
(* name stands for two quantities, save those called Reserve, in a record  *)
(* that tells every ID once.                                               *)
RowsKeepElements ==
  Accepted =>
    \A i \in DOMAIN Sent : TellsOnce(Sent[i]) =>
      \A k \in DOMAIN points[i].elements :
        LET e == points[i].elements[k]
        IN e.name.text = "Reserve" \/ ElementMap(points[i].elements)[e.name] = e.value

Flipped(stream, i, bit) ==
  [stream EXCEPT ![i] = IF (@ \div Pow2[bit]) % 2 = 0 THEN @ + Pow2[bit] ELSE @ - Pow2[bit]]

(* The fields of a frame that another frame with this ID tells otherwise.  *)
Differing(id, stream, other) ==
  LET before == parseNEightValue(stream, id)
      after == parseNEightValue(other, id)
  IN {k \in DOMAIN before : before[k].value # after[k].value}

(* One bit of a frame belongs to one field: to flip it changes the value   *)
(* of one element at most, save that of TCU_GearShiftPosition, which reads *)
(* bits of byte 0 that two other fields have (parser.go 467-474). The top  *)
(* byte of the 32-bit distance of element 147 is left as it is.            *)
OneBitOneField ==
  Accepted =>
    \A p \in ToSet(Sent) : \A v \in ToSet(p.vals) :
      v.id \in DOMAIN Fields /\ Len(v.stream) = 8 =>
        \A i \in 1..8 \ (IF v.id = 147 THEN {5} ELSE {}) : \A bit \in 0..7 :
          Cardinality({k \in Differing(v.id, v.stream, Flipped(v.stream, i, bit)) :
                         Fields[v.id][k].name.text # "TCU_GearShiftPosition"}) <= 1

(* parser.go:77-79 reports a time zone that is not there and goes on: the  *)
(* parser panics over records that do not fit in the buffer, and over no   *)
(* others.                                                                 *)
GoodRecordsAreParsed == at = "panicked" => message.packet.form = "oversize"

(* What parser/encoder_test.go:148 states of its two inputs: the points    *)
(* that ParsePacket returns are the points of MakeCodec8Packet.            *)
PacketsRoundTrip ==
  Accepted => \A i \in DOMAIN Sent : points[i].gps = SentFields(Sent[i])

(* The fields of element 146 whose bits a comment of the parser names      *)
(* (parser.go 334-355 and 470): byte, first bit, number of bits.           *)
Annotated ==
  [field \in {"ConditionImmobilizer", "BrakePedalStatus", "ClutchPedalStatus",
              "GearEngagedStatus", "TCU_GearShiftPosition"} |->
     CASE field = "ConditionImmobilizer" -> <<0, 0, 3>>
       [] field = "BrakePedalStatus" -> <<0, 3, 2>>
       [] field = "ClutchPedalStatus" -> <<0, 5, 1>>
       [] field = "GearEngagedStatus" -> <<0, 6, 2>>
       [] field = "TCU_GearShiftPosition" -> <<0, 0, 3>>]

(* Each of them is the number that these bits spell.                       *)
FieldsAsAnnotated ==
  Accepted =>
    \A i \in DOMAIN Sent : \A v \in ToSet(Sent[i].vals) : v.id = 146 =>
      \A e \in ToSet(points[i].elements) : e.name.text \in DOMAIN Annotated =>
        LET a == Annotated[e.name.text]
        IN e.value = Hundred * ((v.stream[8 - a[1]] \div Pow2[a[2]]) % Pow2[a[3]])
=============================================================================
