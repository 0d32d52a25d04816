--------------------------- MODULE MCCodec8Parser ---------------------------
(***************************************************************************)
(* Inputs of Codec8Parser for TLC: an IMEI, and packets of one to three    *)
(* points with elements of every length, for a buffer of 123 bytes.        *)
(***************************************************************************)
EXTENDS Codec8Parser, RandomPoint

Digits == {[i \in 1..15 |-> 48 + (i % 10)]}

Millis == <<0, 0, 1, 107, 65, 44, 238, 0>>
Seconds == <<0, 0, 0, 0, 93, 250, 4, 7>>

Exactly(n) == [floor |-> n, exact |-> TRUE]
Above(n) == [floor |-> n, exact |-> FALSE]

Plain0 == [time |-> Millis, priority |-> 1,
           longitude |-> Exactly(512345678), latitude |-> Exactly(357654321),
           altitude |-> 27, angle |-> 112, satellites |-> 9, speed |-> 120, event |-> 36,
           slots |-> 2, vals |-> <<>>]

(* West of Greenwich, south of the equator.                                *)
South == [Plain0 EXCEPT !.time = Seconds, !.longitude = Exactly(-318674490),
                        !.latitude = Exactly(-12)]

(* Coordinates between two units, at the first and the last time stamps    *)
(* that count milliseconds, and at the last that counts seconds.           *)
Between == [Plain0 EXCEPT !.time = <<0, 0, 0, 2, 84, 11, 228, 0>>,
                          !.longitude = Above(-1), !.latitude = Above(-2)]
Latest == [Plain0 EXCEPT !.time = <<0, 0, 8, 99, 123, 208, 90, 246>>,
                         !.longitude = Above(512345678), !.latitude = Above(-357654321)]
LatestSecond == [South EXCEPT !.time = <<0, 0, 0, 2, 37, 193, 125, 4>>]

(* Below the sea.                                                          *)
Below == [Plain0 EXCEPT !.altitude = -28]

Val(id, stream) == [id |-> id, stream |-> stream]

Named == [Plain0 EXCEPT !.vals = << Val(239, <<1>>), Val(66, <<48, 57>>), Val(16, <<0, 1, 0, 2>>),
                                    Val(21, <<5>>) >>]
Frames == [Below EXCEPT !.vals = << Val(146, <<17, 34, 200, 68, 85, 102, 119, 41>>),
                                    Val(149, <<8, 7, 6, 5, 4, 3, 2, 1>>),
                                    Val(147, <<128, 200, 9, 10, 0, 1, 2, 3>>) >>]
Frames2 == [South EXCEPT !.vals = << Val(145, <<1, 93, 128, 100, 9, 196, 255, 255>>),
                                     Val(148, <<2, 10, 1, 62, 90, 60, 0, 99>>),
                                     Val(154, <<1, 2, 3, 4, 5, 6, 7, 8>>) >>]
Frames3 == [Plain0 EXCEPT !.vals = << Val(150, <<1, 2, 3, 4, 5, 6, 7, 8>>),
                                      Val(151, <<9, 2, 8, 4, 7, 6, 5, 3>>),
                                      Val(152, <<1, 9, 3, 8, 5, 7, 7, 6>>) >>]
Frames4 == [Plain0 EXCEPT !.vals = << Val(153, <<1, 2, 3, 4, 5, 6, 7, 8>>),
                                      Val(300, <<1, 2, 3, 4, 5, 6, 7, 8>>) >>]
Geared == [Plain0 EXCEPT !.vals = << Val(146, <<0, 0, 0, 0, 0, 0, 0, 192>>) >>]
FourthBit == [Plain0 EXCEPT !.vals = << Val(146, <<0, 0, 0, 0, 0, 0, 0, 8>>) >>]
Numbers == [Plain0 EXCEPT !.vals = << Val(1, numberToStream(500)), Val(17, numberToStream(29)) >>]

P(form, ps) == [form |-> form, points |-> ps]

AllPackets ==
  { P("codec8e", <<Plain0>>), P("codec8e", <<Numbers, South>>), P("codec8e", <<Named>>),
    P("codec8e", <<Frames, Below>>), P("codec8e", <<Frames2>>), P("codec8e", <<Frames3>>),
    P("codec8e", <<Frames4>>),
    P("otherCodec", <<Plain0>>), P("miscounted", <<Named>>),
    P("oversize", <<Plain0, South, Plain0>>), P("oversize", <<Frames, Frames2>>),
    P("oversize", <<Named, Named, Named>>) }

(* Points of the simulator at the ends of what it draws.                   *)
Extremes == [time : {[i \in 1..8 |-> 0]}, priority : 0..2, vals : {<<>>},
             longitude : Coordinates({-180 * Degrees, 180 * Degrees - 1}),
             latitude : Coordinates({-90 * Degrees, 90 * Degrees - 1}),
             altitude : {-1000, 1000}, angle : {0, 360}, satellites : {0, 12},
             speed : {0, 200}, event : {0, 100}, slots : {1, 5}]
RandomPoints == {p \in Extremes \cap generateRandomAVLData :
                   /\ p.longitude.floor > 0 <=> p.priority = 0
                   /\ p.longitude.exact <=> p.priority = 1
                   /\ p.latitude.exact <=> p.altitude > 0
                   /\ p.angle # 0 <=> p.speed = 0
                   /\ p.angle # 0 <=> p.event = 0
                   /\ p.satellites = 0 <=> p.slots = 1}
RandomPackets == { P("codec8e", <<p>>) : p \in RandomPoints }

(* A packet of more points than a byte can count: its first three.         *)
Uncountable == P("wrapped", <<Plain0, South, Below>>)

(* Times and coordinates at the ends of their ranges.                      *)
Boundaries == { P("codec8e", <<Between, Latest>>), P("codec8e", <<LatestSecond>>) }

CutPackets == AllPackets \cup RandomPackets \cup Boundaries \cup {Uncountable}

(* The last has a frame for each of the two fields that are misread.      *)
GearPackets == { P("codec8e", <<Named>>), P("codec8e", <<Frames2>>),
                 P("codec8e", <<Geared, FourthBit>>) }
=============================================================================
