----------------------------- MODULE IOElements -----------------------------
(***************************************************************************)
(* What the bytes of an IO element mean (parser/parser.go 160-1467). An    *)
(* element of one, two or four bytes is one number with a name. An element *)
(* of eight bytes packs the fields of a CAN frame: each field is some bits *)
(* of some of the bytes, scaled. A value is kept in hundredths, as round   *)
(* leaves it. NormalValue and the colours, which only dress a chart, and   *)
(* the texts that describe a trouble code are left out.                    *)
(***************************************************************************)
EXTENDS Integers, Sequences, SequencesExt, TLC

(* binary.BigEndian.Uint16, of the first two bytes of a slice.             *)
Uint16(bytes) == (bytes[1] * 256) + bytes[2]

(* The number that the bytes of an element spell, most significant first.  *)
Number(bytes) == FoldLeft(LAMBDA acc, b : acc * 256 + b, 0, bytes)

Hundred == 100   \* hundredths in one

-----------------------------------------------------------------------------
(* Elements of one, two and four bytes.                                    *)

(* A name is a text, and a number after it if there is one: that of a      *)
(* sensor, or strconv.Itoa of an ID, which has no text before it.          *)
Numbered(text, number) == [text |-> text, number |-> number]
Text(text) == Numbered(text, 0)
Itoa(id) == Numbered("", id)

OneByteName(id) ==
  CASE id = 1 -> Text("DigitalInput1")
    [] id = 2 -> Text("DigitalInput2")
    [] id = 21 -> Text("GSMSignal")
    [] id = 144 -> Text("SDStatus")
    [] id = 179 -> Text("DigitalOutput1")
    [] id = 180 -> Text("DigitalOutput2")
    [] id = 239 -> Text("Ignition")
    [] id = 247 -> Text("CrashDetection")
    [] id = 255 -> Text("OverSpeeding")
    [] OTHER -> Itoa(id)

TwoByteName(id) ==
  CASE id = 9 -> Text("AnalogInput1")
    [] id = 10 -> Text("AnalogInput2")
    [] id = 11 -> Text("AnalogInput3")
    [] id = 66 -> Text("ExternalVoltage")
    [] id = 67 -> Text("BatteryVoltage")
    [] id = 70 -> Text("PCBTemperature")
    [] id = 245 -> Text("AnalogInput4")
    [] OTHER -> Itoa(id)

Plain(name, value) == [name |-> name, value |-> value]

parseNOneValue(bytes, id) == Plain(OneByteName(id), Number(bytes) * Hundred)
parseNTowValue(bytes, id) == Plain(TwoByteName(id), Number(bytes) * Hundred)
parseNFourValue(bytes, id) == Plain(Itoa(id), Number(bytes) * Hundred)

-----------------------------------------------------------------------------
(* Elements of eight bytes. Bytes are numbered as in the source, from byte *)
(* 7, the first on the wire, to byte 0. A field reads bytes "from", most   *)
(* significant first; a bit field masks width bits of one byte from bit lo *)
(* and shifts them down by shift. scale is hundredths per unit, a ratio.   *)

One == <<100, 1>>

Scaled(text, from, scale, offset) ==
  [name |-> Text(text), from |-> from, lo |-> 0, width |-> 0, shift |-> 0,
   scale |-> scale, offset |-> offset]
Unit(text, from) == Scaled(text, from, One, 0)
Shifted(text, byte, lo, width, shift) ==
  [Unit(text, <<byte>>) EXCEPT !.lo = lo, !.width = width, !.shift = shift]
Bits(text, byte, lo, width) == Shifted(text, byte, lo, width, lo)

(* Fault: the bits above are shifted down with it, and not masked.         *)
getBitUnmasked(text, byte, position) == Bits(text, byte, position, 8 - position)

(* (b >> position) & 1.                                                    *)
getBit(text, byte, position) == Bits(text, byte, position, 1)

Pow2 == [n \in 0..8 |-> <<1, 2, 4, 8, 16, 32, 64, 128, 256>>[n + 1]]

(* The number that the bytes spell, or (x & mask) >> shift of a single one.*)
Raw(field, eight) ==
  IF field.width = 0
  THEN Number([i \in DOMAIN field.from |-> eight[8 - field.from[i]]])
  ELSE LET x == eight[8 - field.from[1]]
       IN (((x % Pow2[field.lo + field.width]) \div Pow2[field.lo]) * Pow2[field.lo])
            \div Pow2[field.shift]

(* round(x, 2) of the scaled value, and the one ceiling the parser sets.   *)
Rounded(field, eight) ==
  (2 * Raw(field, eight) * field.scale[1] + field.scale[2]) \div (2 * field.scale[2])
    + field.offset * Hundred
FieldValue(field, eight) ==
  IF field.name = Text("VehicleSpeed") /\ Rounded(field, eight) > 200 * Hundred
  THEN 200 * Hundred ELSE Rounded(field, eight)

Fields145 == <<
  Scaled("VehicleSpeed", <<1, 0>>, <<25, 2>>, 0),
  Unit("EngineSpeed_RPM", <<3, 2>>),
  Scaled("EngineCoolantTemperature", <<4>>, <<75, 1>>, -48),
  Scaled("FuelLevelinTank", <<5>>, <<625, 16>>, 0),
  getBit("CheckEngine", 6, 0),
  getBit("AirConditionPressureSwitch1", 6, 1),
  getBit("AirConditionPressureSwitch2", 6, 2),
  Bits("GearShiftindicator", 6, 3, 2),
  Bits("DesiredGearValue", 6, 5, 3),
  Unit("VehicleType", <<7>>) >>

Percent(text, byte) == Scaled(text, <<byte>>, <<39063, 1000>>, 0)

Fields146 == <<
  Bits("ConditionImmobilizer", 0, 0, 3),
  Bits("BrakePedalStatus", 0, 3, 2),
  getBit("ClutchPedalStatus", 0, 5),
  Shifted("GearEngagedStatus", 0, 6, 2, 5),
  Percent("ActualAccPedal", 1),
  Percent("EngineThrottlePosition", 2),
  Percent("IndicatedEngineTorque", 3),
  Percent("EngineFrictionTorque", 4),
  Percent("EngineActualTorque", 5),
  getBit("CruiseControlOn_Off", 6, 0),
  getBit("SpeedLimiterOn_Off", 6, 1),
  getBit("conditionCruisControlLamp", 6, 2),
  getBit("EngineFuleCutOff", 6, 3),
  getBit("ConditionCatalystHeatingActivated", 6, 4),
  getBit("ACCompressorStatus", 6, 5),
  getBit("ConditionMainRelay", 6, 6),
  getBit("Reserve", 6, 7),
  Bits("TCU_GearShiftPosition", 0, 0, 4),
  getBit("Reserve", 7, 4),
  getBit("Reserve", 7, 5),
  getBit("Reserve", 7, 6),
  getBit("Reserve", 7, 7) >>

Fields147 == <<
  Unit("distance", <<3, 2, 1, 0>>),
  Unit("Reserve", <<4>>),
  Unit("Reserve", <<5>>),
  Percent("VirtualAccPedal", 6),
  Scaled("IntakeAirTemperature", <<7>>, <<75, 1>>, -48) >>

Fields148 == <<
  Scaled("DesiredSpeed", <<1, 0>>, <<25, 2>>, 0),
  Scaled("OilTemperature(TCU)", <<2>>, One, -40),
  Scaled("AmbientAirTemperature", <<3>>, <<50, 1>>, -40),
  Unit("EMS_DTC", <<5, 4>>),
  Unit("ABS_DTC", <<6>>),
  Unit("BCM_DTC", <<7>>) >>

(* Fault: a name is pasted twice.                                          *)
Codes149Pasted ==
  [i \in 0..7 |-> <<"ACU_DTC", "ESC_DTC", "ICN_DTC", "EPS_DTC", "CAS_DTC", "FCM/FN_DTC",
                    "EPS_DTC", "Reserve_DTC">>[i + 1]]

(* The k-th trouble code of element 149 is byte k.                         *)
Codes149 ==
  [i \in 0..7 |-> <<"ACU_DTC", "ESC_DTC", "ICN_DTC", "EPS_DTC", "CAS_DTC", "FCM/FN_DTC",
                    "ICU_DTC", "Reserve_DTC">>[i + 1]]

Fields149 == [k \in 1..8 |-> Unit(Codes149[k - 1], <<k - 1>>)]

(* Four 16-bit sensors of one frame, the first in the last two bytes.      *)
Sensor(n, position, scale, offset) ==
  [Scaled("Sensor", <<2 * position + 1, 2 * position>>, scale, offset)
     EXCEPT !.name = Numbered("Sensor", n)]
Tenth == <<10, 1>>
Hundredth == <<1, 1>>

Fields150 == [k \in 1..4 |-> Sensor(k, k - 1, Tenth, 0)]
Fields151 == [k \in 1..4 |-> Sensor(k + 4, k - 1, IF k = 4 THEN One ELSE Tenth, 0)]
Fields152 == [k \in 1..4 |-> Sensor(k + 8, k - 1, IF k = 4 THEN Hundredth ELSE One, 0)]
Fields153 == [k \in 1..4 |-> Sensor(k + 12, k - 1, Hundredth, IF k = 4 THEN -10 ELSE 0)]
Fields154 == [k \in 1..3 |-> Sensor(k + 16, k - 1, Hundredth, IF k = 1 THEN -10 ELSE 0)]

Fields ==
  [id \in 145..154 |->
     <<Fields145, Fields146, Fields147, Fields148, Fields149,
       Fields150, Fields151, Fields152, Fields153, Fields154>>[id - 144]]

FieldElement(field, eight) == Plain(field.name, FieldValue(field, eight))

(* An element of eight bytes that is not in the table is the value 999.    *)
parseNEightValue(eight, id) ==
  IF id \in DOMAIN Fields
  THEN [k \in DOMAIN Fields[id] |-> FieldElement(Fields[id][k], eight)]
  ELSE << Plain(Itoa(id), 999 * Hundred) >>

(* The elements that one ID and its bytes give, by the stage of the loop.  *)
Decode(stage, id, bytes) ==
  CASE stage = 1 -> << parseNOneValue(bytes, id) >>
    [] stage = 2 -> << parseNTowValue(bytes, id) >>
    [] stage = 3 -> << parseNFourValue(bytes, id) >>
    [] stage = 4 -> parseNEightValue(bytes, id)
=============================================================================
