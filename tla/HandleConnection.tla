-------------------------- MODULE HandleConnection --------------------------
(***************************************************************************)
(* server/handler.go: one goroutine per TCP connection. It reads the IMEI  *)
(* of the tracker, answers 1, and then loops: read a data packet, spawn    *)
(* the goroutine that saves the raw buffer, parse, publish the last point  *)
(* to NATS, insert the points into ClickHouse, answer the number of points.*)
(*                                                                         *)
(* The peer is the stop-and-wait client of server/testhelper.go and of     *)
(* simulator/connection.go: it sends its IMEI, waits for 1, sends a packet *)
(* and waits for the count before it sends the next one. It may hang up at *)
(* any moment. The stream between them keeps order but not boundaries: a   *)
(* read may return any non-empty prefix of what was sent.                  *)
(*                                                                         *)
(* What the parser makes of such a prefix is the subject of PacketParts.   *)
(***************************************************************************)
EXTENDS AVLDataBase, PacketParts, Sequences

CONSTANTS
  Conns,       \* the TCP connections
  IMEIs,       \* identities of trackers
  Packets,     \* the data packets a tracker may send
  Cuts,        \* bound of the model: where the network cuts what it carries
  MaxPackets   \* bound of the model: packets a tracker sends per connection

ASSUME ConnsAssumption == IsFiniteSet(Conns)
ASSUME PacketsAssumption ==
  /\ Packets \subseteq [form : Forms, n : 1..256]
  /\ \A p \in Packets : p.n = 256 <=> p.form = "wrapped"
ASSUME MaxPacketsAssumption == MaxPackets \in Nat

ASSUME CutsAssumption == Cuts \subseteq Parts

NoIMEI == ""
NoPacket == [form |-> "none", n |-> 0]

(* A stretch of the stream, or what one read returned: a part of a packet, *)
(* or what an earlier read left of it. The IMEI message has NoPacket.      *)
Chunks == [packet : Packets \cup {NoPacket}, part : Parts \cup {"rest"}]
Whole(p) == [packet |-> p, part |-> "whole"]

VARIABLES
  proc,           \* the server process: "up", "panicking" or "down"
  peer,           \* what each client is doing
  id,             \* the identity of the tracker behind each connection
  sent,           \* how many packets it has sent
  last,           \* the packet it sent last
  wire,           \* bytes sent by the client and not read yet
  inbox,          \* answers written by the server and not read yet
  pc,             \* where the goroutine of each connection is
  authenticated,  \* HandleConnection's locals ...
  imei,
  heap,           \* the buffers it made, in order: the last one is buf
  received,       \* history: what each read returned
  points,         \* len(points)
  appended,       \* points of the batch in hand
  spawned,        \* goroutines that are about to save a raw buffer
  saving,         \* the rows that such goroutines hold a batch for
  published,      \* messages given to NATS
  errors,         \* failures that were logged
  acked,          \* packets answered with a count
  wg              \* the counter of ts.wg

clientVars == <<peer, id, sent, last>>
streamVars == <<wire, inbox>>
localVars == <<authenticated, imei, heap, received, points, appended>>
rawVars == <<spawned, saving>>
logVars == <<published, errors, acked>>
vars == <<dbVars, proc, clientVars, streamVars, pc, localVars, rawVars, logVars, wg>>

Init ==
  /\ DBInit
  /\ proc = "up"
  /\ peer = [c \in Conns |-> "off"]
  /\ id = [c \in Conns |-> NoIMEI]
  /\ sent = [c \in Conns |-> 0]
  /\ last = [c \in Conns |-> NoPacket]
  /\ wire = [c \in Conns |-> <<>>]
  /\ inbox = [c \in Conns |-> <<>>]
  /\ pc = [c \in Conns |-> "idle"]
  /\ authenticated = [c \in Conns |-> FALSE]
  /\ imei = [c \in Conns |-> NoIMEI]
  /\ heap = [c \in Conns |-> <<>>]
  /\ received = [c \in Conns |-> <<>>]
  /\ points = [c \in Conns |-> 0]
  /\ appended = [c \in Conns |-> 0]
  /\ spawned = {}
  /\ saving = {}
  /\ published = {}
  /\ errors = {}
  /\ acked = {}
  /\ wg = 0

-----------------------------------------------------------------------------
(* The client.                                                             *)

Dial(c) ==
  /\ peer[c] = "off"
  /\ peer' = [peer EXCEPT ![c] = "open"]
  /\ \E i \in IMEIs : id' = [id EXCEPT ![c] = i]
  /\ UNCHANGED <<dbVars, proc, sent, last, streamVars, pc, localVars, rawVars, logVars, wg>>

(* Until a panic has run the deferred calls of its goroutine and ends the  *)
(* process, the other goroutines go on.                                    *)
Running == proc # "down"

(* AcceptConnections: the connection is counted, then handled.             *)
Serve(c) ==
  /\ Running
  /\ peer[c] # "off" /\ pc[c] = "idle"
  /\ wg' = wg + 1
  /\ pc' = [pc EXCEPT ![c] = "read"]
  /\ UNCHANGED <<dbVars, proc, clientVars, streamVars, localVars, rawVars, logVars>>

SendIMEI(c) ==
  /\ peer[c] = "open"
  /\ peer' = [peer EXCEPT ![c] = "waitAccept"]
  /\ wire' = [wire EXCEPT ![c] = Append(@, Whole(NoPacket))]
  /\ UNCHANGED <<dbVars, proc, id, sent, last, inbox, pc, localVars, rawVars, logVars, wg>>

GetAccept(c) ==
  /\ peer[c] = "waitAccept" /\ inbox[c] # <<>>
  /\ peer' = [peer EXCEPT ![c] = IF Head(inbox[c]) = <<1>> THEN "ready" ELSE "closed"]
  /\ inbox' = [inbox EXCEPT ![c] = Tail(@)]
  /\ UNCHANGED <<dbVars, proc, id, sent, last, wire, pc, localVars, rawVars, logVars, wg>>

SendPacket(c) ==
  /\ peer[c] = "ready" /\ sent[c] < MaxPackets
  /\ \E p \in Packets :
       /\ last' = [last EXCEPT ![c] = p]
       /\ wire' = [wire EXCEPT ![c] = Append(@, Whole(p))]
  /\ sent' = [sent EXCEPT ![c] = @ + 1]
  /\ peer' = [peer EXCEPT ![c] = "waitAck"]
  /\ UNCHANGED <<dbVars, proc, id, inbox, pc, localVars, rawVars, logVars, wg>>

GetAck(c) ==
  /\ peer[c] = "waitAck" /\ inbox[c] # <<>>
  /\ peer' = [peer EXCEPT ![c] =
       IF Head(inbox[c]) = <<0, 0, 0, last[c].n>> THEN "ready" ELSE "closed"]
  /\ inbox' = [inbox EXCEPT ![c] = Tail(@)]
  /\ UNCHANGED <<dbVars, proc, id, sent, last, wire, pc, localVars, rawVars, logVars, wg>>

(* The client hangs up, or finds that the server did.                      *)
HangUp(c) ==
  /\ peer[c] \notin {"off", "closed"}
  /\ peer' = [peer EXCEPT ![c] = "closed"]
  /\ UNCHANGED <<dbVars, proc, id, sent, last, streamVars, pc, localVars, rawVars, logVars, wg>>

-----------------------------------------------------------------------------
(* HandleConnection. The definitions whose comment starts with "Fault" are *)
(* not part of the program: each is a variant of the definition below it   *)
(* with a plausible mistake, which some property of this module must tell. *)

At(c, label) == Running /\ pc[c] = label
Goto(c, label) == pc' = [pc EXCEPT ![c] = label]

(* No recover() anywhere: a panic runs the deferred calls of its handler,  *)
(* as a return does, and then ends the whole process (Dies).               *)
Panic(c) ==
  /\ proc' = "panicking"
  /\ Goto(c, "done")
  /\ UNCHANGED <<dbVars, clientVars, streamVars, localVars, rawVars, logVars, wg>>

(* The end of the process. The database takes back what it held.           *)
Crash ==
  /\ proc' = "down"
  /\ held' = {}
  /\ UNCHANGED <<rows, payloads, clientVars, streamVars, pc, localVars, rawVars, logVars, wg>>

(* Fault: the buffer is made once, before the loop.                        *)
ReadHoisted(c, part) ==
  LET first == Head(wire[c])
      got == IF first.part = "rest" THEN first ELSE [first EXCEPT !.part = part]
  IN /\ wire[c] # <<>>
     /\ heap' = [heap EXCEPT ![c] = <<got>>]
     /\ received' = [received EXCEPT ![c] = Append(@, got)]
     /\ wire' = [wire EXCEPT ![c] =
          IF got.part \in {"whole", "rest"} THEN Tail(@)
          ELSE <<[first EXCEPT !.part = "rest"]>> \o Tail(@)]

(* conn.Read into a buffer made for this turn of the loop.                 *)
Read(c, part) ==
  LET first == Head(wire[c])
      got == IF first.part = "rest" THEN first ELSE [first EXCEPT !.part = part]
  IN /\ wire[c] # <<>>
     /\ heap' = [heap EXCEPT ![c] = Append(@, got)]
     /\ received' = [received EXCEPT ![c] = Append(@, got)]
     /\ wire' = [wire EXCEPT ![c] =
          IF got.part \in {"whole", "rest"} THEN Tail(@)
          ELSE <<[first EXCEPT !.part = "rest"]>> \o Tail(@)]

Round(c) == Len(received[c])
Buf(c) == heap[c][Len(heap[c])]

(* Fault: the error of Read does not leave the loop.                       *)
ReadFailsContinues(c) ==
  At(c, "read") /\ peer[c] = "closed" /\ UNCHANGED vars

(* Fault: wg.Done is called on every return but this one.                  *)
ReadFailsNoDone(c) ==
  /\ At(c, "read") /\ peer[c] = "closed"
  /\ Goto(c, "close")
  /\ UNCHANGED <<dbVars, proc, clientVars, streamVars, localVars, rawVars, logVars, wg>>

(* io.EOF, or a reset that drops what was in flight.                       *)
ReadFails(c) ==
  /\ At(c, "read") /\ peer[c] = "closed"
  /\ Goto(c, "done")
  /\ UNCHANGED <<dbVars, proc, clientVars, streamVars, localVars, rawVars, logVars, wg>>

(* Fault: the IMEI is kept in ts instead of a local variable.              *)
ReadIMEIShared(c) ==
  /\ At(c, "read") /\ ~authenticated[c]
  /\ Read(c, "whole")
  /\ imei' = [d \in Conns |-> id[c]]
  /\ Goto(c, "accept")
  /\ UNCHANGED <<dbVars, proc, clientVars, inbox, authenticated, points, appended,
                 rawVars, logVars, wg>>

(* DecodeIMEI takes the bytes of this read only: a cut message is refused. *)
ReadIMEI(c) ==
  /\ At(c, "read") /\ ~authenticated[c]
  /\ \E part \in Cuts \cap {"header", "whole"} :
       /\ Read(c, part)
       /\ IF part = "whole" THEN /\ imei' = [imei EXCEPT ![c] = id[c]]
                                 /\ Goto(c, "accept")
                            ELSE /\ UNCHANGED imei
                                 /\ Goto(c, "done")
  /\ UNCHANGED <<dbVars, proc, clientVars, inbox, authenticated, points, appended,
                 rawVars, logVars, wg>>

(* conn.Write: what a client that is gone never reads is dropped, and an   *)
(* error of Write is only logged.                                          *)
Write(c, answer) ==
  inbox' = IF peer[c] = "closed" THEN inbox ELSE [inbox EXCEPT ![c] = Append(@, answer)]

ResponseAcceptIMEI(c) ==
  /\ At(c, "accept")
  /\ Write(c, <<1>>)
  /\ authenticated' = [authenticated EXCEPT ![c] = TRUE]
  /\ Goto(c, "read")
  /\ UNCHANGED <<dbVars, proc, clientVars, wire, imei, heap, received, points, appended,
                 rawVars, logVars, wg>>

ReadPacket(c) ==
  /\ At(c, "read") /\ authenticated[c]
  /\ \E part \in Cuts : Read(c, part)
  /\ spawned' = spawned \cup {[conn |-> c, round |-> Round(c) + 1, buf |-> Len(heap'[c])]}
  /\ UNCHANGED saving
  /\ Goto(c, "parse")
  /\ UNCHANGED <<dbVars, proc, clientVars, inbox, authenticated, imei, points, appended,
                 logVars, wg>>

ParseAccepts(c) ==
  /\ At(c, "parse") /\ Accepts(Buf(c))
  /\ points' = [points EXCEPT ![c] = Count(Buf(c))]
  /\ Goto(c, "publish")
  /\ UNCHANGED <<dbVars, proc, clientVars, streamVars, authenticated, imei, heap, received,
                 appended, rawVars, logVars, wg>>

(* Fault: a packet that does not parse is logged, and the loop goes on.    *)
ParseRefusesContinues(c) ==
  /\ At(c, "parse") /\ Refuses(Buf(c))
  /\ Goto(c, "read")
  /\ UNCHANGED <<dbVars, proc, clientVars, streamVars, localVars, rawVars, logVars, wg>>

(* An error of ParsePacket is logged and ends the handler.                 *)
ParseRefuses(c) ==
  /\ At(c, "parse") /\ Refuses(Buf(c))
  /\ Goto(c, "done")
  /\ UNCHANGED <<dbVars, proc, clientVars, streamVars, localVars, rawVars, logVars, wg>>

ParsePanics(c) ==
  /\ At(c, "parse") /\ Overruns(Buf(c))
  /\ Panic(c)

(* An element of published, errors or rows names the packet by the         *)
(* connection and the number of the read that returned it.                 *)
Message(c, i) == [conn |-> c, round |-> Round(c), imei |-> imei[c], index |-> i]
Failure(what, c) == <<what, c, Round(c)>>

(* Fault: the message is dropped without a word.                           *)
PublishForgets(c) ==
  /\ At(c, "publish") /\ points[c] > 0
  /\ Goto(c, "prepare")
  /\ UNCHANGED <<dbVars, proc, clientVars, streamVars, localVars, rawVars, logVars, wg>>

(* PublishLastPoint: points[len(points)-1], so no points is a panic. An    *)
(* error of Marshal or of Publish is logged, and the loop goes on.         *)
PublishLastPoint(c) ==
  /\ At(c, "publish") /\ points[c] > 0
  /\ \/ /\ published' = published \cup {Message(c, points[c])}
        /\ UNCHANGED errors
     \/ /\ errors' = errors \cup {Failure("publish", c)}
        /\ UNCHANGED published
  /\ Goto(c, "prepare")
  /\ UNCHANGED <<dbVars, proc, clientVars, streamVars, localVars, rawVars, acked, wg>>

PublishPanics(c) ==
  /\ At(c, "publish") /\ points[c] = 0
  /\ Panic(c)

-----------------------------------------------------------------------------
(* SaveAvlPoints, in the goroutine of the handler, and the answer.         *)

PointsJob(c) == <<"points", c, Round(c)>>

(* Every error return of SaveAvlPoints comes to this: logged, then acked.  *)
SaveReturns(c, ok) ==
  /\ Goto(c, "ack")
  /\ errors' = IF ok THEN errors ELSE errors \cup {Failure("save", c)}

PrepareAvlPoints(c) ==
  /\ At(c, "prepare")
  /\ PrepareBatch(PointsJob(c))
  /\ appended' = [appended EXCEPT ![c] = 0]
  /\ Goto(c, "append")
  /\ UNCHANGED <<proc, clientVars, streamVars, authenticated, imei, heap, received, points,
                 rawVars, logVars, wg>>

PrepareAvlPointsFails(c) ==
  /\ At(c, "prepare")
  /\ PrepareBatchFails
  /\ SaveReturns(c, FALSE)
  /\ UNCHANGED <<proc, clientVars, streamVars, localVars, rawVars, published, acked, wg>>

(* Fault: each point is inserted by itself.                                *)
AppendInserts(c) ==
  /\ At(c, "append") /\ appended[c] < points[c]
  /\ appended' = [appended EXCEPT ![c] = @ + 1]
  /\ rows' = rows \cup {Message(c, appended[c] + 1)}
  /\ UNCHANGED <<held, payloads, proc, clientVars, streamVars, pc, authenticated, imei, heap,
                 received, points, rawVars, logVars, wg>>

AppendPoint(c) ==
  /\ At(c, "append") /\ appended[c] < points[c]
  /\ appended' = [appended EXCEPT ![c] = @ + 1]
  /\ UNCHANGED <<dbVars, proc, clientVars, streamVars, pc, authenticated, imei, heap,
                 received, points, rawVars, logVars, wg>>

(* Fault: the batch of a failed Append keeps its connection.               *)
AppendPointLeaks(c) ==
  /\ At(c, "append") /\ appended[c] < points[c]
  /\ SaveReturns(c, FALSE)
  /\ UNCHANGED <<dbVars, proc, clientVars, streamVars, localVars, rawVars, published, acked, wg>>

AppendPointFails(c) ==
  /\ At(c, "append") /\ appended[c] < points[c]
  /\ AppendFails(PointsJob(c))
  /\ SaveReturns(c, FALSE)
  /\ UNCHANGED <<proc, clientVars, streamVars, localVars, rawVars, published, acked, wg>>

Batch(c) == {Message(c, i) : i \in 1..appended[c]}

(* Fault: a batch that failed is tried again, without end.                 *)
SendBatchRetries(c) ==
  /\ At(c, "append") /\ appended[c] = points[c]
  /\ \E ok \in BOOLEAN : /\ SendPoints(PointsJob(c), Batch(c), ok)
                         /\ Goto(c, IF ok THEN "ack" ELSE "prepare")
  /\ UNCHANGED <<proc, clientVars, streamVars, localVars, rawVars, logVars, wg>>

SendBatch(c) ==
  /\ At(c, "append") /\ appended[c] = points[c]
  /\ \E ok \in BOOLEAN : /\ SendPoints(PointsJob(c), Batch(c), ok)
                         /\ SaveReturns(c, ok)
  /\ UNCHANGED <<proc, clientVars, streamVars, localVars, rawVars, published, acked, wg>>

(* Fault: the answer does not wait for the save.                           *)
AnswerBeforeSave(c) ==
  /\ At(c, "prepare")
  /\ Write(c, <<0, 0, 0, points[c] % 256>>)
  /\ acked' = acked \cup {[conn |-> c, round |-> Round(c), n |-> points[c]]}
  /\ Goto(c, "read")
  /\ UNCHANGED <<dbVars, proc, clientVars, wire, localVars, rawVars, published, errors, wg>>

(* Fault: the answer counts the points of the batch, not of the packet.    *)
AnswerAppended(c) ==
  /\ At(c, "ack")
  /\ Write(c, <<0, 0, 0, appended[c] % 256>>)
  /\ acked' = acked \cup {[conn |-> c, round |-> Round(c), n |-> points[c]]}
  /\ Goto(c, "read")
  /\ UNCHANGED <<dbVars, proc, clientVars, wire, localVars, rawVars, published, errors, wg>>

(* Whatever became of the save, the count is answered.                     *)
ResponseAcceptDataPack(c) ==
  /\ At(c, "ack")
  /\ Write(c, <<0, 0, 0, points[c] % 256>>)
  /\ acked' = acked \cup {[conn |-> c, round |-> Round(c), n |-> points[c]]}
  /\ Goto(c, "read")
  /\ UNCHANGED <<dbVars, proc, clientVars, wire, localVars, rawVars, published, errors, wg>>

-----------------------------------------------------------------------------
(* The deferred calls, last in first out: wg.Done, then conn.Close.        *)

(* Fault: a return calls wg.Done itself, besides the deferred call.        *)
WgDoneTwice(c) ==
  /\ At(c, "done")
  /\ wg' = wg - 2
  /\ Goto(c, "close")
  /\ UNCHANGED <<dbVars, proc, clientVars, streamVars, localVars, rawVars, logVars>>

WgDone(c) ==
  /\ At(c, "done")
  /\ wg' = wg - 1
  /\ Goto(c, "close")
  /\ UNCHANGED <<dbVars, proc, clientVars, streamVars, localVars, rawVars, logVars>>

CloseConn(c) ==
  /\ At(c, "close")
  /\ Goto(c, "gone")
  /\ UNCHANGED <<dbVars, proc, clientVars, streamVars, localVars, rawVars, logVars, wg>>

-----------------------------------------------------------------------------
(* The goroutine that HandleConnection spawns for every packet: it reads   *)
(* imei and buf, which it captured, and calls SaveRawData with its own     *)
(* batch. Nothing waits for it, not even ts.wg.                            *)

RawJob(j) == <<"raw", j.conn, j.round>>
RawPayload(j) == [conn |-> j.conn, round |-> j.round, imei |-> imei[j.conn],
                  data |-> heap[j.conn][j.buf]]
RawErrors(j, ok) == errors' = IF ok THEN errors ELSE errors \cup {RawJob(j)}

SaveRawData(j) ==
  /\ Running /\ j \in spawned
  /\ PrepareBatch(RawJob(j))
  /\ spawned' = spawned \ {j}
  /\ saving' = saving \cup {RawPayload(j)}
  /\ UNCHANGED <<proc, clientVars, streamVars, pc, localVars, logVars, wg>>

(* Fault: the error of SaveRawData is not looked at.                       *)
SaveRawDataFailsSilently(j) ==
  /\ Running /\ j \in spawned
  /\ PrepareBatchFails
  /\ spawned' = spawned \ {j}
  /\ UNCHANGED <<proc, clientVars, streamVars, pc, localVars, saving, logVars, wg>>

SaveRawDataFails(j) ==
  /\ Running /\ j \in spawned
  /\ PrepareBatchFails
  /\ spawned' = spawned \ {j}
  /\ RawErrors(j, FALSE)
  /\ UNCHANGED <<proc, clientVars, streamVars, pc, localVars, saving, published, acked, wg>>

AppendRawDataFails(j) ==
  /\ Running /\ j \in saving
  /\ AppendFails(RawJob(j))
  /\ saving' = saving \ {j}
  /\ RawErrors(j, FALSE)
  /\ UNCHANGED <<proc, clientVars, streamVars, pc, localVars, spawned, published, acked, wg>>

(* Fault: a raw buffer that could not be sent is tried again, without end. *)
SendRawDataRetries(j) ==
  /\ Running /\ j \in saving
  /\ \E ok \in BOOLEAN :
       /\ SendPayload(RawJob(j), j, ok)
       /\ spawned' = IF ok THEN spawned
            ELSE spawned \cup {[conn |-> j.conn, round |-> j.round, buf |-> j.round]}
  /\ saving' = saving \ {j}
  /\ UNCHANGED <<proc, clientVars, streamVars, pc, localVars, logVars, wg>>

SendRawData(j) ==
  /\ Running /\ j \in saving
  /\ \E ok \in BOOLEAN : SendPayload(RawJob(j), j, ok) /\ RawErrors(j, ok)
  /\ saving' = saving \ {j}
  /\ UNCHANGED <<proc, clientVars, streamVars, pc, localVars, spawned, published, acked, wg>>

-----------------------------------------------------------------------------
Client(c) ==
  Dial(c) \/ SendIMEI(c) \/ GetAccept(c) \/ SendPacket(c) \/ GetAck(c) \/ HangUp(c)

SaveAvlPoints(c) ==
  \/ PrepareAvlPoints(c) \/ PrepareAvlPointsFails(c)
  \/ AppendPoint(c) \/ AppendPointFails(c) \/ SendBatch(c)

Handler(c) ==
  \/ ReadFails(c) \/ ReadIMEI(c) \/ ResponseAcceptIMEI(c) \/ ReadPacket(c)
  \/ ParseAccepts(c) \/ ParseRefuses(c) \/ ParsePanics(c)
  \/ PublishLastPoint(c) \/ PublishPanics(c)
  \/ SaveAvlPoints(c) \/ ResponseAcceptDataPack(c)
  \/ WgDone(c) \/ CloseConn(c)

RawSaver(c) ==
  \/ \E j \in spawned : j.conn = c /\ (SaveRawData(j) \/ SaveRawDataFails(j))
  \/ \E j \in saving : j.conn = c /\ (AppendRawDataFails(j) \/ SendRawData(j))

(* The process ends: it is killed, it panicked, or main returns from Stop. *)
Terminate == Running /\ Crash
Dies == proc = "panicking" /\ Crash

Next ==
  \/ \E c \in Conns : Client(c) \/ Serve(c) \/ Handler(c) \/ RawSaver(c)
  \/ Terminate

Spec == Init /\ [][Next]_vars

(* The Go scheduler runs every goroutine that can run, a panic among them, *)
(* and every call of the driver returns. Nothing is assumed of the clients.*)
Fairness ==
  /\ \A c \in Conns : WF_vars(Handler(c)) /\ WF_vars(RawSaver(c))
  /\ WF_vars(Dies)

FairSpec == Spec /\ Fairness

-----------------------------------------------------------------------------
(* Properties.                                                             *)

Identities == IMEIs \cup {NoIMEI}
Messages == [conn : Conns, round : Nat, imei : Identities, index : 1..255]
Payloads == [conn : Conns, round : Nat, imei : Identities, data : Chunks]
Answers == {<<1>>} \cup {<<0, 0, 0, n>> : n \in 0..255}

DBTypeOK ==
  /\ held \subseteq {"points", "raw"} \X Conns \X Nat
  /\ rows \subseteq Messages
  /\ payloads \subseteq Payloads

ClientTypeOK ==
  /\ peer \in [Conns -> {"off", "open", "waitAccept", "ready", "waitAck", "closed"}]
  /\ id \in [Conns -> Identities]
  /\ sent \in [Conns -> 0..MaxPackets]
  /\ last \in [Conns -> Packets \cup {NoPacket}]

StreamTypeOK ==
  /\ wire \in [Conns -> Seq(Chunks)]
  /\ inbox \in [Conns -> Seq(Answers)]

Labels == {"idle", "read", "accept", "parse", "publish", "prepare", "append", "ack", "done",
           "close", "gone"}

ControlTypeOK ==
  /\ proc \in {"up", "panicking", "down"}
  /\ pc \in [Conns -> Labels]
  /\ wg \in Nat

LocalTypeOK ==
  /\ authenticated \in [Conns -> BOOLEAN]
  /\ imei \in [Conns -> Identities]
  /\ heap \in [Conns -> Seq(Chunks)]
  /\ received \in [Conns -> Seq(Chunks)]
  /\ points \in [Conns -> 0..255]
  /\ appended \in [Conns -> 0..255]

RawTypeOK ==
  /\ spawned \subseteq [conn : Conns, round : Nat, buf : Nat]
  /\ saving \subseteq Payloads

LogTypeOK ==
  /\ published \subseteq Messages
  /\ errors \subseteq {"publish", "save", "raw"} \X Conns \X Nat
  /\ acked \subseteq [conn : Conns, round : Nat, n : 0..255]

(* Every variable keeps to its type: the values the goroutines, the driver *)
(* and the clients can store; ts.wg, in particular, is never negative.     *)
TypeOK ==
  /\ DBTypeOK /\ ClientTypeOK /\ StreamTypeOK /\ ControlTypeOK
  /\ LocalTypeOK /\ RawTypeOK /\ LogTypeOK

StoredIndices(c, r) == {m.index : m \in {x \in rows : x.conn = c /\ x.round = r}}

(* A count is answered only once the outcome of the insert is known: the   *)
(* points are all in the table, or the failure was logged. (handler.go     *)
(* 71-75: the goroutine that would let the answer overtake the save is     *)
(* commented out.)                                                         *)
AckedPacketsAccountedFor ==
  \A a \in acked :
    \/ StoredIndices(a.conn, a.round) = 1..a.n
    \/ <<"save", a.conn, a.round>> \in errors

(* The points of a packet are stored together or not at all, whatever call *)
(* of the driver fails and whenever the process dies (save_points.go).     *)
BatchesAreAtomic ==
  \A m \in rows :
    StoredIndices(m.conn, m.round) = 1..received[m.conn][m.round].packet.n

(* Handlers run at once and share ts, but nothing of one tracker is ever   *)
(* stored or published under the identity of another: rows, raw payloads   *)
(* and messages of a connection carry the IMEI its client sent.            *)
OneIdentityPerConnection ==
  \A m \in rows \cup payloads \cup published : m.imei = id[m.conn]

(* The goroutine that saves a raw buffer runs while the loop goes on to    *)
(* read the next packet; what it stores is still the packet it was         *)
(* spawned for (handler.go 23, 50-58: a new buffer for each read).         *)
RawPayloadsIntact ==
  \A p \in payloads : p.data = received[p.conn][p.round]

(* A raw buffer that was read is being saved, or was saved, or the failure *)
(* was logged: also when its packet is refused or its connection is gone.  *)
NoRawBufferForgotten ==
  \A c \in Conns : \A r \in 2..Len(received[c]) :
    \/ \E j \in spawned \cup saving \cup payloads : j.conn = c /\ j.round = r
    \/ <<"raw", c, r>> \in errors

(* The pool: every connection taken from it belongs to a call that is      *)
(* under way, each call has one, and there are never more than the limit,  *)
(* so an error path of SaveAvlPoints or SaveRawData that leaked one would  *)
(* be seen.                                                                *)
PoolSlotsBalanced ==
  /\ Cardinality(held) <= MaxOpenConns
  /\ Running => held = {PointsJob(c) : c \in {x \in Conns : pc[x] = "append"}}
                       \cup {RawJob(j) : j \in saving}

(* What reaches the table was announced first: the last point of a stored  *)
(* packet was published, or the failure to publish it was logged.          *)
StoreFollowsPublish ==
  \A m \in rows :
    \/ [m EXCEPT !.index = received[m.conn][m.round].packet.n] \in published
    \/ <<"publish", m.conn, m.round>> \in errors

(* A client that waits for an answer never finds another one than that to  *)
(* what it sent last, however its bytes were cut into reads: no answer is  *)
(* repeated, left over or ahead of its packet.                             *)
AnswersMatchRequests ==
  \A c \in Conns :
    /\ Len(inbox[c]) <= 1
    /\ peer[c] = "waitAccept" /\ inbox[c] # <<>> => inbox[c] = << <<1>> >>
    /\ peer[c] = "waitAck" /\ inbox[c] # <<>> =>
         /\ inbox[c] = << <<0, 0, 0, last[c].n>> >>
         /\ Buf(c).packet = last[c]
    /\ peer[c] \in {"open", "ready"} => inbox[c] = <<>>

(* ts.wg counts the handlers that have not run their deferred Done, no     *)
(* more and no less: on it depends what Stop waits for.                    *)
WaitGroupCounts ==
  wg = Cardinality({c \in Conns : pc[c] \notin {"idle", "close", "gone"}})

(* A packet that was read is answered or refused: whatever fails on the    *)
(* way, the handler comes back to its loop or leaves it.                   *)
RequestsSettle ==
  \A c \in Conns :
    pc[c] \in {"parse", "publish", "prepare", "append", "ack"}
      ~> pc[c] \in {"read", "gone"} \/ proc = "down"

(* The goroutines of the raw buffers end, although nothing waits for them. *)
RawSavesSettle ==
  \A c \in Conns :
    (\E j \in spawned \cup saving : j.conn = c)
      ~> (\A j \in spawned \cup saving : j.conn # c) \/ proc = "down"

(* A handler whose client is gone gives its connection back.               *)
ClosedPeersAreReleased ==
  \A c \in Conns :
    peer[c] = "closed" /\ pc[c] # "idle" ~> pc[c] = "gone" \/ proc = "down"

(* What server/testhelper.go:55-60 takes for granted of every packet that  *)
(* MakeCodec8Packet builds: the write is followed by a read of its count.  *)
(* While the server is up, it does not hang up on a client that sent a     *)
(* good packet and waits.                                                  *)
GoodPacketsAreAnswered ==
  \A c \in Conns :
    proc = "up" /\ peer[c] = "waitAck" /\ last[c].form = "codec8e" /\ inbox[c] = <<>>
      => pc[c] # "gone"
=============================================================================
