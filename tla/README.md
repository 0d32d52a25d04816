# A specification of teltonika-device

teltonika-device is a TCP server for Teltonika GPS trackers. A tracker connects, says its IMEI,
and sends packets of AVL points in *codec 8 extended*; the server stores the points in ClickHouse,
publishes the last one of each packet to NATS, and answers the number of points, upon which the
tracker forgets them. The repository also holds the encoder of the packets and a simulator of a
tracker.

This directory holds TLA+ modules translated from that code, the configurations that check them
with TLC, and theorems about them that the TLA+ proof system checks. Paths such as
`server/handler.go` are those of the repository's sources. `PROJECT.json` lists the runs, the
lines that each definition stands for, the hazards and the findings.

    tlc -config MCHandleConnection_solo.cfg MCHandleConnection     # a run
    tlapm HandleConnection_proofs.tla                              # the proofs of a module

Contents: [inventory](#1-the-system), [modules](#2-the-modules), [runs](#3-the-runs),
[proofs](#4-the-proofs), [findings](#5-findings), [what is left out](#6-assumptions-and-what-is-left-out),
[plan](#7-plan).

## 1. The system

| component | source | state it keeps | operations |
|---|---|---|---|
| TCP server | `server/server.go`, `cmd/main.go` | `ts.ln`, `ts.quitChan`, `ts.wg`, the listening socket | `Start`, `AcceptConnections`, `Stop`, the signal |
| connection handler | `server/handler.go` | per goroutine: `authenticated`, `imei`, `buf`, `points` | `HandleConnection`, `PublishLastPoint`, the answers, the goroutine of a raw buffer |
| storage | `db/clickhouse` | the pool of connections, the tables `avlpoints` and `rawdatas` | `SaveAvlPoints`, `SaveRawData`: PrepareBatch, Append, Send |
| packet parser | `parser/parser.go` | the cursor of a `bytes.Buffer` | `ParseHeader`, `ParsePacket` and below |
| element tables | `parser/parser.go` | none | names, bit fields, scales of the IO elements |
| encoder, IMEI | `parser/encoder.go`, `parser/utils.go` | none | `MakeCodec8Packet`, `EncodeIMEIToHex`, `DecodeIMEI` |
| simulator | `simulator/`, `cmd/main.go` | one connection, the wait group `td.wg` | `Connect`, `AuthenticateIMEI`, `SendPoints`, `SendRandomPoints`, `Stop` |
| command line, configuration, mock | `cmd`, `envconfig`, `mock_db` | none | flags, environment |

**How they interact.** `main` builds the server, runs `Start` in a goroutine and waits for a signal.
`Start` listens, stores `ts.ln`, spawns the acceptor and waits for `quitChan`. The acceptor adds to
`ts.wg` and spawns a handler for each connection. A handler is sequential, except that each data
packet spawns one more goroutine, counted nowhere, that saves the raw buffer while the handler
parses, publishes, inserts and answers. Handlers and raw savers share the pool of five ClickHouse
connections; the three goroutines of the server share `ts.ln` without a lock. No goroutine
recovers from a panic: a panic in one handler runs its deferred calls and then ends the process. The simulator is another process:
its `main` dials, spawns `SendRandomPoints` and waits for a signal, and either goroutine may call
`Stop`, which closes the connection and exits.

**What is hard.** (1) *Reads*: the handler takes what one `Read` returned for one message, and hands
the whole zero-filled buffer to the parser, which ignores the checksum: each place where TCP may
cut a packet has an outcome of its own. (2) *Acknowledgement*: the tracker deletes what is
acknowledged, while any call of the driver may fail and the process may die between save and answer.
(3) *Interleaving*: handlers and raw savers run at once, over buffers that closures captured.
(4) *Shutdown*: `Stop` reads `ts.ln` unsynchronised, and waits on a group that the acceptor may still
add to, for handlers that may sit in `Read`. (5) *Bytes*: sign, width, bit fields and counts that
the parser must follow without any check. (6) *Two programs*: simulator and server each wait in a
`Read` without a deadline for what the other is to send, and the simulator has two goroutines that
may close its connection and end the process at once.

**What makes each part correct.**

- *handler*: a count is answered only for points that are in the table or whose failure was logged;
  answers match requests; nothing is stored or published under another's identity; what is stored was
  announced; raw payloads are those of their read, and none is forgotten; every request settles and
  every closed client is released.
- *storage*: a batch reaches the table whole or not at all; every pooled connection comes back.
- *server*: `ts.wg` counts the handlers; `Stop` waits for those at work and, where it found the
  listener, leaves one connection behind at most; it returns once the clients are gone; the listener
  is closed in the end.
- *handler, as a whole*: the packets of a connection are announced, stored and acknowledged in the
  order in which they were sent, one at a time, and nothing of it is taken back.
- *simulator*: it is a client as the server assumes; what it logs as sent is stored or logged as
  failed at the server; its reads come to an end, and so does `Stop`.
- *parser*: each cut of a packet is accepted, refused or panics exactly as the handler's model
  assumes; records do not shift; the row holds what was measured, to the second and to a unit of the
  wire.

## 2. The modules

| module | models | what it is |
|---|---|---|
| `AVLDataBase` | `db/clickhouse`: pool, tables, steps of a batch | state and steps, no behaviour of its own |
| `PacketParts` | what `ParsePacket` returns for a packet cut at each place | operators only, an abstract specification of the parser |
| `HandleConnection` | `server/handler.go` with its clients and the stream | EXTENDS the two above |
| `TeltonikaServer` | `server/server.go` and the server command | EXTENDS `HandleConnection`, which it refines |
| `PacketEncoder` | `parser/encoder.go`, `EncodeIMEIToHex` | bytes of a packet |
| `IOElements` | the element tables of `parser/parser.go` | operators and tables |
| `Codec8Parser` | `parser/parser.go`, `DecodeIMEI`, the narrowing of `SaveAvlPoints` | a byte-by-byte machine, checked against `PacketParts` |
| `PacketLedger` | what the server promises of the packets of a connection | an abstract specification |
| `LedgerRefinement` | the mapping of the handlers' state to the ledger's | EXTENDS `HandleConnection`, which refines `PacketLedger` |
| `TrackerSimulator` | `simulator/` and the simulator command | EXTENDS `HandleConnection`, takes the place of its clients and refines it |
| `RandomPoint` | `simulator/random_point.go` | the sets of points and packets that may be drawn |
| `MC...` | instances for TLC | inputs, symmetry |
| `HandleConnection_proofs`, `Ledger_proofs`, `Storage_proofs`, `StopAndWait_proofs` | the handlers: what they are and account for, the pool and the raw buffers, the protocol | theorems |
| `LedgerRefinement_proofs` | that the handlers implement the ledger | theorems |
| `TeltonikaServer_proofs`, `TrackerSimulator_proofs` | the server, and the simulator, around them | theorems |
| `Codec8Parser_proofs` | the parser, byte by byte, against the encoder | theorems |

A definition whose comment starts with **Fault** is not part of the program and no action uses it.
It is a variant of the definition under it with a plausible mistake (a dropped guard, a missing
reset, a swapped order). `PROJECT.json` says which property each of them must violate.

### AVLDataBase

`held` is the set of calls ("jobs") that own a pooled connection, bounded by `MaxOpenConns`; `rows`
and `payloads` are the two tables. `PrepareBatch` takes a connection, `AppendFails` and the two
`Send` steps give it back. A failed `Send` may or may not have inserted its block. `SaveAvlPoints`
returns from a failed `Append` without `Send` or `Abort`: that its connection comes back is the
driver's doing, and is an assumption on the driver, which is not part of the repository.

### HandleConnection

One record of variables per connection; `pc` is the place in the code:

| `pc` | code | leaves by |
|---|---|---|
| `idle` | not accepted | `Serve` |
| `read` | `conn.Read`, handler.go 23-31 | `ReadFails`, `ReadIMEI`, `ReadPacket` |
| `accept` | write `1`, 43-47 | `ResponseAcceptIMEI` |
| `parse` | `ParsePacket`, 60-66 | `ParseAccepts`, `ParseRefuses`, `ParsePanics` |
| `publish` | `PublishLastPoint`, 70, 79-89 | `PublishLastPoint`, `PublishPanics` |
| `prepare`, `append` | `SaveAvlPoints`, 71-73 | `PrepareAvlPoints`, `AppendPoint`, `SendBatch` and their failures |
| `ack` | write the count, 75 | `ResponseAcceptDataPack` |
| `done`, `close`, `gone` | the deferred `wg.Done`, `conn.Close` | `WgDone`, `CloseConn` |

`heap` holds every buffer that the goroutine made: `buf` is the last, a closure keeps the index of
its own. `spawned` and `saving` are the raw savers, before and after `PrepareBatch`. `wire` and
`inbox` are the two directions of the TCP stream; a read takes any non-empty prefix of the first
message, named by its part (`Cuts`), and leaves the "rest". `received`, `published`, `errors` and
`acked` are histories. A panic (`Panic`) takes its handler to its deferred calls and
`proc` to "panicking": handlers, savers and clients go on until the runtime ends the process (`Dies`), which may
be before or after those calls. `Terminate` is that end, or a kill, or the exit of `main`: `proc` is
"down" and goroutines and pool vanish (`Crash`), the tables stay.

Clients are the stop-and-wait clients of `server/testhelper.go` and `simulator/connection.go`, and
may hang up at any moment.

### PacketLedger and LedgerRefinement

`PacketLedger` knows four things of the packets of a connection: how many were `announced`, which
points are in the `table`, whose insert `failed`, which counts were `acknowledged`. Its steps are
`Announce` (only when the packet before was acknowledged), `Insert` (all points at once, perhaps with
an error all the same), `InsertFails`, and `Acknowledge` (of the count of the stored points, or of
anything once the failure was logged). No step takes anything back.

The mapping: packet k is what read k+1 returned, since the first read is the IMEI. A packet counts as
announced when its message is in `published` or the failure to publish it in `errors`; `table`,
`failed` and `acknowledged` are `rows`, the "save" entries of `errors` and `acked`. So
`PublishLastPoint` is `Announce`, `SendBatch` is `Insert` or `InsertFails`, the two other errors of
`SaveAvlPoints` are `InsertFails`, `ResponseAcceptDataPack` is `Acknowledge`; clients, reads, raw
savers, parsing and crashes stutter.

### TrackerSimulator

`at` has the places of the two goroutines of each simulator. The client steps of `HandleConnection`
are what the simulator's socket calls do to the stream: `Connect` is `Dial`, `AuthenticateIMEI` is
`SendIMEI`, `SendRandomPoints` is `SendPacket`, and so on; `Broken` is what makes a socket call fail.
`ReadCount` takes 1 to 4 bytes of the answer and looks at the fourth byte of its buffer, as
`SendPoints` does. `StopCloses` and `Exit` may be run by either goroutine, or by both; `WgWait` is
always true, because nothing is ever added to `td.wg`. `logged` holds the counts of the log lines
"Sent %d points to the server", `refused` the packets for which it logged "sent points are not
acceptable". `SimulatorsAreClients` says that whatever simulators and server do is a behaviour of
`HandleConnection!Spec`.

### TeltonikaServer

`main`, `start` and `acceptor` are the places of the three goroutines. `CheckLn` and `SetLn` are the
unsynchronised accesses to `ts.ln` (`lnSet`). `wg.Wait` is three places: `wait`, `drain` while it is a
waiter, `released` after the `Done` that reached zero, whatever is added afterwards. `AddPanics` is
`wg.Add` from zero while a waiter is being released, which Go may report by a panic. `PanicEnds` is the end of a
process that a panic brings down. `atStop` and `seen` are histories: the connections in service at the
signal, and whether `Stop` found `ts.ln` set.
`HandlersRefine` says that the whole implements `HandleConnection!Spec`, with the identity as the
refinement mapping: the acceptor's `HandOver` is `Serve`, the exit of `main` is `Terminate`,
everything else of the server, `PanicEnds` aside, stutters.

### The codec

`PacketEncoder` writes the bytes a client would. A coordinate of `AVLData` is a `float64`: the model knows, of
its product with 1e7, the integer below it and whether it is that integer, and `Truncated` drops the
fraction as `uint32(...)` does, toward zero. `Codec8Parser` reads them: `data` is the buffer,
`pos` how much `reader.Next` consumed, `at` the loop it is in. `convertToDate` gives the second since
1970 whose date the text is: time stamps are 64 bits, kept as four words of 16 since TLC's integers
are of 32, and become an int64 of nanoseconds by two multiplications by 1000, or three, that wrap as Go's do.
There is one step per header, record, stage count and element; `ReadPanics` when a reader is given less than it indexes. `IOElements` has, for
each element of eight bytes, the bit fields of the `switch` in `parseNEightValue`. Values are
hundredths, for `round(x, 2)`. A name is a text and a number after it, as "Sensor" and 7; the name of an ID
that the parser does not know is its number alone. `CutsClassified` connects the two levels: what the parser returns, on
each prefix of a message, is what `PacketParts` told the handler's model. `OneBitOneField` says that
no bit of an element of eight bytes is told in two fields of a row, and `RowsKeepElements` that no
element overwrites another in the map of a row. `ZoneInfo` tells whether the
machine has the database of time zones, which `convertToDate` needs.

`PacketParts` has a form of packet of its own, "wrapped", for the 256 points that the encoder counts as
zero: the parser finds no records, takes the first byte of a time stamp, which is zero, for the
closing count, and accepts the packet without points.

## 3. The runs

| run | instance | states | what it shows |
|---|---|---|---|
| `handler_solo` | 1 tracker, 2 packets of five forms, every cut, 1 pooled connection, fairness | 430 000 | what is acknowledged is stored or its failure was logged; batches are atomic; raw payloads are intact and none is forgotten; nothing is stored that was not announced; answers match requests; the handlers implement `PacketLedger`; requests and raw saves settle, closed peers are released |
| `handler_pair` | 2 trackers, 1 packet each, uncut, 1 pooled connection, symmetry | 1 950 000 | identities are not mixed, the pool is balanced, `ts.wg` counts |
| `server_accept` | 2 clients that only authenticate, symmetry | 28 000 | `Stop` waits for the handlers at work and leaves one connection behind at most, the server implements the handlers |
| `server_shutdown` | 1 client with 1 packet, good or without points, fairness | 32 000 | `Stop` returns once the clients are gone, the listener goes, connected clients are handled |
| `simulator_one` | 1 simulator, 2 packets of 2 points, whole or cut in the header, fairness | 301 000 | what the simulator logs as sent is stored or its failure was logged; the simulator is a client; its two reads end, and `Stop` ends the process |
| `codec_cuts` | every prefix of 12 chosen packets, of two with times and coordinates at the ends of their ranges, of those of the simulator's extreme points, of one of 256 points and of an IMEI message, every rest of a checksum | 48 500 | the parser agrees with `PacketParts`, stays in step with the records, the rows are what was measured, to the second and the unit, and lose no element, and no bit is told twice |
| `handler_split`, `server_late`, `codec_altitude`, `codec_bits`, `codec_zone`, `simulator_short` | small | | findings, section 5 |

**Why these bounds.** Two points are the smallest batch that a failing `Append` leaves half filled.
Two packets are the smallest number for which a raw saver of one turn meets the next turn, and for
which an answer could be left over. One tracker with every cut and two without cut the product of the
two: cuts concern one stream, and streams share nothing but the pool, the tables and `ts.wg`, which
`handler_pair` covers. A pool of one connection is the scarcest: with two handlers and their savers,
four calls compete for it. Two clients without packets are enough for the races of the server, since
a handler that has only to authenticate still spans every value of `ts.wg` from 0 to 2; the case of
a handler at work on a packet during `Stop` is in `server_shutdown`. For any number of connections,
packets and cuts, the safety properties marked in section 4 are proved.

The simulator draws one to three points; the run fixes the number at two, because every packet of one
to three points takes the same path. The sender may still be waiting for its second count when either
process dies or `main` stops it, and an identity that `EncodeIMEIToHex` refuses is among the two. A
packet cut in its header is refused, which is the case in which the sender's read must end by the
server's closing; the other cuts are in `handler_solo`, whose client may do all that the simulator does.

In the codec runs the buffer is of 123 bytes instead of 2048, so that packets of two or three points
overrun it; of the packet of 256 points it holds the first. Every element with bit fields (145 to
154), elements of each of the four lengths, an unknown ID, a miscounted packet and one of another codec are among the twelve packets. The points of
the simulator are taken at both ends of each interval that it draws from. Byte values
are chosen so that numbers stay below 2^31, the width of TLC's integers.

`CHECK_DEADLOCK FALSE` stands in the handler, server and simulator runs because these systems really stop: all
clients may be gone, or the process.

**Fairness.** Weak fairness of each handler, of each raw saver and of the three goroutines of the
server: the Go scheduler is preemptive and runs every goroutine that can run, and each call of the
driver and of the NATS library returns (they have timeouts; `DialTimeout` is 30 s). Nothing is assumed
of the clients, who may stay silent for ever, and no signal need come. So `StopReturns` has its
exception in the formula: a client that stays connected for ever holds `Stop` back, since no deadline
is set and no connection closed.

In the simulator's run weak fairness of its sender and of `Stop` stands for the scheduler of its own
process, and weak fairness of `Serve` for the acceptor of a server that is up (`server_shutdown`
checks it, as `ConnectedIsHandled`). No signal need come, nobody need be killed, and nothing is
assumed of when the server ends.

The acceptor takes connections in the order of the kernel's queue; the liveness run has one client, so
weak fairness of `AcceptConnections` need not say so. With fairness only of a disjunction,
`RawSaver(c)` does not choose among the savers of one connection; `RawSavesSettle` holds since each step brings one of them nearer to its end and their number is
bounded by the reads.

## 4. The proofs

The handlers' theorems hold for every number of connections, trackers, packets (of 1 to 256 points),
cuts and pooled connections, those of the codec for every buffer, every packet and every place where
a read can end.

| theorem | property | along |
|---|---|---|
| `TypeCorrect` | `TypeOK` | `Base` |
| `WaitGroupCorrect` | `WaitGroupCounts` | `Base` |
| `RawPayloadsCorrect` | `RawPayloadsIntact` | `Base` |
| `AcksCorrect` | `AckedPacketsAccountedFor` | `Base`, `Ledger` |
| `BatchesCorrect` | `BatchesAreAtomic` | `Base`, `Ledger` |
| `IdentityCorrect` | `OneIdentityPerConnection` | `Base`, `Identity` |
| `PoolCorrect` | `PoolSlotsBalanced` | `Base`, `Ledger`, `Identity`, `Storage` |
| `RawBuffersCorrect` | `NoRawBufferForgotten` | `Base`, `Ledger`, `Identity`, `Storage` |
| `AnnouncedFirst` | `StoreFollowsPublish` | `Base`, `Ledger`, `Identity`, `Storage` |
| `AnswersCorrect` | `AnswersMatchRequests` | `Base`, `Identity`, `Phases` |
| `NoMutualWait` | a client and its handler never wait for each other | `Base`, `Identity`, `Phases` |
| `HandlersImplementLedger` | `ImplementsLedger` | `Base`, `Ledger`, `Line`, step by step |
| `ServerImplementsHandlers` | `HandlersRefine` | step by step |
| `ServerKeepsLedger` | the handlers' safety properties, within the server | refinement |
| `ServerImplementsLedger` | `ImplementsLedger`, of the server | refinement |
| `StopCorrect` | `StopDrainsHandlers` | `Base`, `Drained` |
| `ServerTypeCorrect` | `ServerTypeOK` | `Base`, `Flags`, `Drained` |
| `LeftBehindCorrect` | `OneLeftBehind` | `Base`, `Opened`, `LeftBehind` |
| `ClosedForGood` | `ClosedIsFinal`, an action property | `Opened` |
| `NoWakeUpLost` | `SomebodyWillWake` | `Base`, `Waited` |
| `SimulatorIsClient` | `SimulatorsAreClients` | step by step |
| `SimulatorKeepsLedger` | the handlers' safety properties, in front of simulators | refinement |
| `SimulatorImplementsLedger` | `ImplementsLedger`, of server and simulators | refinement |
| `SimTypeCorrect` | `SimTypeOK` | `Base`, `Phases`, `Seated` |
| `LogsCorrect` | `LoggedPointsAccountedFor` | `Base`, `Ledger`, `Phases`, `Seated` |
| `ParserTypeCorrect` | `ParserTypeOK` | `Cursor` |
| `EveryCutClassified` | `CutsClassified` | `Course` |
| `RecordsRead` | `RecordsInStep` | `Course` |
| `RowsMeasured` | `RowsAsMeasured` | `Course`, dates |
| `RowsKeep` | `RowsKeepElements` | `Course`, names |
| `BitsToldOnce` | `OneBitOneField` | `Course`, bits |
| `ZoneSuffices` | `GoodRecordsAreParsed`, where there are time zones | `Course`, `IMEIKept` |
| `PointsComeBack` | `PointsToTheUnit` | `Course`, dates |
| `TwoFieldsAskew` | `AnnotatedButTwo` | `Course`, names, bits |

Every safety property of a passing run is proved, and so are the three that are refinements. The
invariants of this table that no run checks (`NeverBothWait`, `ClosedIsFinal`, `SomebodyWillWake`,
`PointsToTheUnit`, `AnnotatedButTwo`) are defined in the proof modules, next to their theorems.

**Assumptions.** Only those of the modules. Of the handlers: the set of connections is finite, packets
have one of the known forms and 1 to 256 points (256 being the count that does not fit), cuts are
parts of a packet, `MaxPackets` is a natural number and `MaxOpenConns` a positive one. Of the
simulator: its packets are among those it draws, and `Malformed` among the identities. Of the codec:

- an IMEI has 15 characters; a packet has one of the known forms and 1 to 255 points (of 256, the
  "wrapped" form writes down those that fill the buffer);
- points have the types of `AVLData` (encoder.go 7-31), and each has fewer than 2^16 elements, which
  `EncodeCodec8ExtendedAVLData` counts in 16 bits;
- coordinates are within the 32 bits of the wire;
- the first of the eight bytes of a time stamp is zero, which it is until the year two million. It
  is what the parser takes for the closing count of a "wrapped" packet;
- the forms "oversize" and "wrapped" are those of the packets that overrun the buffer, and the buffer
  has room for a packet without records (15 bytes; the handler's has 2048).

`EveryCutClassified` and `ZoneSuffices` have one hypothesis more: the machine has the database of time
zones. Without it the parser panics over good packets, which is a finding (`codec_zone`). `RowsAsMeasured` has its own
condition in the formula, `Measurable`: an angle and a speed below 2^15, since `AVLData` has 16 bits for them and
the row 15 and a sign, and a time before 2262, when an int64 of nanoseconds ends (`Datable`).

**Base** is the inductive invariant that the others rest on. `TypeOK` alone is not inductive: that
`wg` stays natural needs `wg = Cardinality(Counted)`, and that `Buf(c)` exists needs `TurnOK(c)`, by
which a handler that parses has read something. `BuffersFresh` says that the n-th buffer is what the
n-th read returned and that a raw saver's index is its read's number; from it follows that a payload
is intact, although buffers, savers and loop interleave.

**Ledger** explains acknowledgements. `AckedPacketsAccountedFor` is not inductive since the insert
precedes the answer: `TurnSettled` carries, from `Send` to `Write`, that the packet in hand is stored
or its failure is logged. `RowsOK` says that no row of a packet exists before its `Send`, so the rows
of a packet appear in one step; with the equality of `points[c]` and the packet's count this gives
atomicity.

**Line** is what the ledger needs besides: the packets announced on a connection are exactly the reads
from the second on, without a gap, and the last but the one in hand was answered (`LineOK`); a failed
insert is logged for a packet that was read, and for the one in hand only after its insert
(`SavesOK`). With `Ledger` it gives the guards of the abstract steps: `InHand` says that the packet in
hand is the last one announced, is not settled before its insert, is settled at the answer, and is
not yet acknowledged. `Kinds` sorts the steps of the handlers into those the ledger sees and the rest.

**Identity** adds that a handler knows its client's identity from its first answer on, and that raw
savers belong to authenticated handlers.

**Storage** is about what outlives a turn. `PoolSlotsBalanced` is inductive once jobs are known to be
distinct: a handler has one batch in hand at a time, and a read has one saver, which is in one of
`spawned` and `saving` (`OneSaverPerRead`); so a step that gives a connection back gives back that of
its own call and no other's. `FirstRead` says that what an unauthenticated handler reads first is the
IMEI: for it there is no raw buffer, and `NoRawBufferForgotten` counts from the second read. `Announced` carries
the publication from `PublishLastPoint` to `Send`, over the two places where the handler may be
meanwhile.

**Phases** is the stop-and-wait protocol. What a client finds in its inbox depends on what it sent,
on how much of it was read, and on what the handler is doing with it; `Phase(c)` has one line for each
state of the client. A client that waits for a count has its packet unread, in work, or answered; or
the handler has the *rest* of a packet before it, which it will refuse (`Straggling`). The last case is the
one that a cut makes: a packet that was accepted without its checksum is answered, the client may send
the next packet, and the rest is still on the stream. That no answer is left over then is because
the handler refuses the rest and leaves. The cases exclude an answer to an earlier packet, which a
weaker invariant would admit.

**Drained** is `StopDrainsHandlers` with what `Stop` knows at each place: the connections at work at
the signal were handed over, never come back into service (`NeverBack`), and `main` leaves
`wg.Wait` only through a counter of zero, which means that no handler is counted (`ZeroMeansIdle`).
**Flags** has the places and flags of the three goroutines. **LeftBehind** is `OneLeftBehind` with what leads to it: the
acceptor holds at most one connection, a `Stop` that found the listener has closed it before it
waits, and nothing is accepted from then on (`Opened`), so at a counter of zero only the acceptor's hand
can hold a connection, and whoever is served afterwards came from there.

**Seated** is about the two goroutines of a simulator. `Counting` ties the length of `logged` to the
packets sent: one fewer while the sender waits for a count. `LoggedOnceAnswered` says that each
logged count is one that the server acknowledged under that round; with `AcksCorrect`, which holds in
front of simulators by `SimulatorIsClient`, it gives `LoggedPointsAccountedFor`. It is inductive only
with `Phases`: the four bytes that `ReadCount` takes are those of the packet sent last. `Together` says that a
process ends with both of its goroutines.

**Course** is the invariant of the parser. Its parts:

- `Cursor`: the types, that the inputs are those of a read, and where the parser may be. It suffices for
  `ParserTypeOK`: every step that moves the cursor has looked at the length, or takes what there is.
- `InStep`, for a packet whose record count was received and is right: the parser counts the
  records that were written; the points parsed are theirs; and the cursor is at the offset of the
  record, stage or element that it is about to read (`AtPlace`), with the fields and elements
  read so far. This is claimed while the cursor is within what was received. Past that place it
  reads the zeros of the buffer, finds empty stages and may go on through empty records; of that,
  only that the cursor is never ahead is claimed, and it is enough: the closing count, which is
  not zero, cannot be read as zero, so such a packet is refused or panics.
- `Uncounted`, for a packet whose count is zero: cut off before it, or 256 in a byte.
- `Verdict`: what was returned is what `PacketParts` says, and the points are those that were sent.

The offsets are those of the encoder. `EncodeCodec8ExtendedAVLData` flattens sequences of sequences
three deep (records, stages, elements), and `FlattenSeq` is a recursive function of the library.
`JoinedExists` shows that the prefixes of such a flattening exist, `Joined` names them, and `FlattenSeqIs`
that `FlattenSeq` is the last of them; `JoinedSpell` says that the flattening *spells* (`Spells`) each
of its parts where the prefix before it ends. `ElementLayout`, `StageLayout`, `PointLayout`, `BodyLayout` and
`PacketLayout` carry this up to the packet, so that `RecordAt`, `StageAt` and `ElementAt` are places
on the wire. What the parser makes of the elements is a flattening as well: `Known(p, s, k)` is what it has
when k elements of stage s are read. The induction over the length of a sequence that this
takes is from the well-foundedness of the naturals (`Least`, `Induction`, stated of sets of numbers),
since the library's induction theorems take an operator.

The rest is arithmetic of bytes: `Uint16Back`, `Int32Back` (a signed number comes out of its four
bytes as it went in), `FieldsBack` (all fields do, but the altitude modulo 2^16), `RowBack` (the
narrowing gives the altitude its sign), `TruncatedNear` (the dropped fraction is less than a unit). `Sizes` and `Counts` decide the verdict: which packets fit the
buffer, and that two counts that differ by one differ in a byte.

**Dates.** `Value` is the number that the four words of a time spell. `ThousandfoldIs` and `WholeThousandsIs` are the long
multiplication and division by 1000, word by word, and `AtMostIs` the comparison; `WholeThousandsIs` bounds the
quotient, so that dividing undoes multiplying as long as nothing was cut (`ThousandfoldBack`). `Bounds` gives
that for a `Datable` time: up to `LastSecond`, or `LastMillisecond`, the nanoseconds stay below 2^63, and `SecondOf`
takes them back to the second. The division is of the words, never of a 64-bit number at once, which is beyond the
provers as it is beyond TLC.

**Names.** The map of a row is keyed by name, so a name that stands for two quantities loses one of
them. `Owner` tells of each name whose it is, an ID and a field of that ID: a number alone is an ID, a
sensor is counted by frames of four, each other text is listed. `DecodedOwner` shows that whatever the
parser makes of an ID, of any length and known or not, is called by a name of which that ID is the owner; hence
two elements of one name come from one ID and one field (`SameName`), and are the same element if the
record tells each ID once (`TellsOnce`). "Reserve" has no owner. A record that tells an ID twice, which the
format allows, keeps the last of the two; the property has that condition, and nothing else is
assumed of the IDs.

**Bits.** `Place` numbers the 64 bits of a frame from the lowest of byte 0 on. For each shape in which a
table builds a field (`Scaled`, `Shifted` and those made of them), a lemma gives the stretch of places outside
which it reads nothing (`Within`); `Table145` to `Table149` and `SensorTables` put the stretches of each frame
side by side: no place is in two, but for the place of `TCU_GearShiftPosition`. What remains
is arithmetic: a number whose one binary digit is flipped has the same remainders below that digit and the same
quotients above it (`BitAlone`, `MaskShift`), so a field that does not read a bit does not
change with it (`Unread`). `BitToldOnce` is for every frame and every bit, byte 5 of element 147 included, which
the run leaves out because TLC's integers end below 2^31.

**What the findings leave.** A counterexample says that something fails, not that only this fails. Four theorems
draw the line for the findings of section 5. `ZoneSuffices`: the zone that is not there is the only
cause, besides records that overrun the buffer, of a panic of the parser. `PointsComeBack`: of a point, encoder
and parser leave the coordinates to less than a unit of the wire, the whole second of its time, an
altitude below the sea 65536 too high, and every other field as it was; so the altitude is the only field that
comes back another, the fractions of coordinates and seconds apart. `TwoFieldsAskew`: of the five fields of element 146
whose bits a comment names, `GearEngagedStatus` is twice the number that they spell, `TCU_GearShiftPosition` that number
or 8 more, and the other three are that number. `ClosedForGood`: a listener that was closed stays closed and nothing is accepted from it, so `Stop`
breaks its comment only by closing nothing, when it finds `ts.ln` nil. (`AnswersCorrect` does the same for
`handler_split`: a cut costs an answer, and never gives a wrong one.)

**The safety under liveness.** Liveness itself is out of the prover's reach; what the code could get wrong in
it is often a state in which everybody waits, and that is an invariant. `NoMutualWait`: a client reads for
an answer that is not there while its handler reads for bytes that are not there, in no state that
the protocol reaches, whatever was cut. `NoWakeUpLost`: while `main` sleeps in `wg.Wait`, a
handler is in service, whose `Done` will wake it; `Waited`, the counter is not zero in that place, is
inductive although the acceptor goes on adding.

**Refinement.** `ServerStep` shows that every step of the server is a step or a stutter of the
handlers, hence whatever is proved of `HandleConnection!Spec` holds within the server. `SimStep` does
the same for simulators in front of the handlers. So `ServerKeepsLedger` and `SimulatorKeepsLedger` restate
all of the handlers' safety properties where they are meant to hold, and `ServerImplementsLedger` and
`SimulatorImplementsLedger` take the refinement of the ledger up by another step.

**Model-checked only.** What depends on fairness or ENABLED is out of the prover's reach: `RequestsSettle`,
`RawSavesSettle`, `ClosedPeersAreReleased`, `StopReturns`, `ListenerGoes`, `ConnectedIsHandled`,
`WaitsEnd` and `SimulatorExits`. TLC checks these on the instances of section 3.

That the seven findings are real is what TLC's counterexamples show; what is proved is that some of them
are alone (above).

## 5. Findings

Each run below ends with a counterexample; `codec_bits` has two findings in its one.

- `handler_split`: a good packet that TCP delivers in two reads is refused, or panics the process when
  the cut is after its codec byte. `server/handler.go:26` takes one read for one message.
- `server_late`: a signal during `Start` finds `ts.ln` nil; connections are accepted after the
  statement that is to "stop accepting new connections" (`server/server.go:96`). What still holds is
  checked by `ListenerGoes`: the deferred `Close` of `Start` ends it.
- `codec_altitude`: `parser/parser.go:102` reads the altitude as unsigned. The row in the table is right
  again, by the narrowing to `int16` (`RowsAsMeasured`); the point published to NATS is not.
- `codec_bits`, two findings: `GearEngagedStatus` (`parser/parser.go:358`) shifts by 5 bits a field of bits 6 and 7;
  `TCU_GearShiftPosition` (`parser/parser.go:471`) masks four bits where the comment above it
  names three, "//012", and the fourth is one of `BrakePedalStatus`. The packet of the counterexample
  has a frame for each.
- `codec_zone`: without the database of time zones, `parser/parser.go:79` prints the error and the next
  statement panics on a nil location, so the first record of any packet ends the process.
- `simulator_short`: an answer that TCP delivers in two reads is logged as "sent points are not
  acceptable", although the packet was accepted and acknowledged (`simulator/connection.go:45`).

Behaviours that the model has, and no line of the code contradicts: a failed insert is acknowledged
(the failure in `AckedPacketsAccountedFor` is the log entry); a process that dies loses the raw
buffers in `spawned`; a packet of zero points panics; `Stop` may wait for ever on a silent tracker;
`wg.Add` may race with the end of `wg.Wait`.

## 6. Assumptions, and what is left out

- *The driver* (external) gives back a pooled connection when `Append` returns an error, inserts a
  block whole or not at all, and may report an error for a block it inserted. `PrepareBatch` may fail
  at any time, which includes the time it waits for a connection.
- *A torn read* of `ts.ln` is not distinguished from reading nil: `CheckLn` sees the assignment or does
  not, at any interleaving.
- *An Accept error* that is not that of a closed listener only repeats the loop and is a stutter.
- *Restart* is not modelled: the process recovers nothing from memory, the tables are unchanged by a
  start, and no client of the repository sends again what was not acknowledged.
- *Clients* are stop-and-wait. A packet has 1 to 256 points in the handler's model; the largest that
  fits the buffer has 53, and 256 stand for any multiple of 256, which a byte counts as zero. The first of
  the eight bytes of a time stamp is zero, as it is for any date that a tracker will ever know.
- *Time zones*: the handler's model assumes that the machine has their database, which the Dockerfile
  copies into the image; without it every packet panics (`codec_zone`).
- *Two connections of one tracker* have a handler each. Nothing is promised of their order.
- *The simulator* exits with its connection; a dial that fails is `ConnectFails`. An answer read in part ends the sender, so that what it left unread is
  of no consequence. (The `run` recipe of the justfile calls a command `start` that the program does not
  have; nothing here depends on it.)
- *The rest of a packet* is read by itself and refused. This is checked byte by byte for each
  rest of a checksum (`codec_cuts`). What follows it on the stream is not joined to it: the client
  has had its count by then and may have sent its next packet, and a read of both would again start
  with a shifted header and be refused, except when exactly one byte of a zero checksum is left and the
  low byte of the next packet's length happens to be the codec's number.
- *An oversize packet* panics or is refused, by where its records run into the end of the buffer.
- *Codec*: a date is the second that its text names, not the text, which is on the clock of Tehran: before
  September 2022 that clock repeated an hour each autumn, and the text of a second in it is that of
  another one too. Whether a time stamp is in seconds or in milliseconds is the code's own convention.
  Of a coordinate, the rounding of the float product `Longitude*1e7` is left out; the
  conversion of a negative float to uint32 is taken as it is on amd64, which the Dockerfile builds for
  (line 29). `NormalValue`, colours, and the dictionaries of trouble codes and their texts are left
  out, since nothing is computed from them. The value of the checksum is left
  out: `ParsePacket` compares it in a branch that does nothing.
- *Not modelled*: `ResponseDecline`, `LogPoints`, unused conversions, configuration, flags, the
  generated mock, DSN parsing and the pool's idle connections, delivery by NATS, the random IMEI of
  the command line, `getRandomValue` (which nothing calls).

## 7. Plan

The order was: the acknowledgement path of one handler and the storage under it, since it is what the
program is for; then the server around it; then the bytes; then the ledger that the handlers implement
and the simulator in front of them; each with its proofs where they are in reach. Done: the modules of
section 2, the runs of section 3, the theorems of section 4.

Every safety property and every refinement that a run checks is proved. Left for who takes this further:

- one module with simulators in front of a server that boots and stops. Today each is composed with the
  handlers alone, and both refine them; what the two would add to each other is the queue of the listener, in
  which a simulator may wait while the server stops.
- a restart of the server, once a client of the repository sends again what was not acknowledged.
- the liveness properties as theorems, when the prover has ENABLED. `NoMutualWait` and
  `NoWakeUpLost` are the invariants that such proofs need first.
