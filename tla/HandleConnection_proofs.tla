----------------------- MODULE HandleConnection_proofs -----------------------
(***************************************************************************)
(* Theorems about HandleConnection, for every set of connections, of       *)
(* identities, of packets and of cuts, and for every size of the pool.     *)
(***************************************************************************)
EXTENDS HandleConnection, FiniteSetTheorems, SequenceTheorems, TLAPS

(* What a turn of the loop knows of the packet in hand.                    *)
Parsed == {"publish", "prepare", "append", "ack"}
Working == Parsed \cup {"parse"}

TurnOK(c) ==
  /\ pc[c] \in Working => received[c] # <<>>
  /\ pc[c] \in Parsed => Accepts(Buf(c)) /\ points[c] = Count(Buf(c))
  /\ pc[c] \in Parsed \ {"publish"} => points[c] > 0

(* Every buffer is fresh: the n-th one holds what the n-th read returned,  *)
(* and the goroutine spawned after that read holds that one.               *)
BuffersFresh ==
  /\ heap = received
  /\ \A j \in spawned : j.buf = j.round /\ j.round \in 1..Len(received[j.conn])
  /\ \A p \in saving \cup payloads :
       p.round \in 1..Len(received[p.conn]) /\ p.data = received[p.conn][p.round]

Counted == {c \in Conns : pc[c] \notin {"idle", "close", "gone"}}

Base ==
  /\ TypeOK
  /\ BuffersFresh
  /\ \A c \in Conns : TurnOK(c)
  /\ wg = Cardinality(Counted)

-----------------------------------------------------------------------------

LEMMA ChunkFields ==
  ASSUME NEW k \in Chunks
  PROVE  /\ k.packet \in Packets \cup {NoPacket}
         /\ k.packet.n \in 0..256
         /\ k.part \in Parts \cup {"rest"}
         /\ Count(k) \in 0..255
<1>1. /\ k.packet \in Packets \cup {NoPacket}
      /\ k.packet \in [form : Forms, n : 1..256] \cup {[form |-> "none", n |-> 0]}
      /\ k.part \in Parts \cup {"rest"}
  BY PacketsAssumption DEF Chunks, NoPacket
<1>2. k.packet.n = 256 => k.packet.form = "wrapped"
  BY <1>1, PacketsAssumption DEF NoPacket
<1> QED BY <1>1, <1>2 DEF Count, ReadsNoRecords

LEMMA WholeType ==
  ASSUME NEW p \in Packets \cup {NoPacket}
  PROVE  Whole(p) \in Chunks
BY DEF Chunks, Whole, Parts

LEMMA WgPositive ==
  ASSUME Base, NEW c \in Conns, c \in Counted
  PROVE  wg > 0
<1>1. IsFiniteSet(Counted)
  BY ConnsAssumption, FS_Subset DEF Counted
<1>2. Cardinality(Counted) \in Nat
  BY <1>1, FS_CardinalityType
<1>3. Cardinality(Counted) # 0
  BY <1>1, FS_EmptySet
<1> QED BY <1>2, <1>3 DEF Base

LEMMA InitType == Init => TypeOK
<1> USE DEF Init, DBInit
<1> SUFFICES ASSUME Init PROVE TypeOK
  OBVIOUS
<1>1. DBTypeOK BY DEF DBTypeOK
<1>2. ClientTypeOK BY MaxPacketsAssumption DEF ClientTypeOK, Identities
<1>3. StreamTypeOK BY DEF StreamTypeOK
<1>4. ControlTypeOK BY DEF ControlTypeOK, Labels
<1>5. LocalTypeOK BY DEF LocalTypeOK, Identities
<1>6. RawTypeOK BY DEF RawTypeOK
<1>7. LogTypeOK BY DEF LogTypeOK
<1> QED BY <1>1, <1>2, <1>3, <1>4, <1>5, <1>6, <1>7 DEF TypeOK

(* What a step leaves alone keeps its type.                                *)
LEMMA UnchangedTypes ==
  ASSUME TypeOK
  PROVE  /\ UNCHANGED dbVars => DBTypeOK'
         /\ UNCHANGED clientVars => ClientTypeOK'
         /\ UNCHANGED streamVars => StreamTypeOK'
         /\ UNCHANGED <<proc, pc, wg>> => ControlTypeOK'
         /\ UNCHANGED localVars => LocalTypeOK'
         /\ UNCHANGED rawVars => RawTypeOK'
         /\ UNCHANGED logVars => LogTypeOK'
<1>1. UNCHANGED dbVars => DBTypeOK'
  BY DEF TypeOK, dbVars, DBTypeOK
<1>2. UNCHANGED clientVars => ClientTypeOK'
  BY DEF TypeOK, clientVars, ClientTypeOK
<1>3. UNCHANGED streamVars => StreamTypeOK'
  BY DEF TypeOK, streamVars, StreamTypeOK
<1>4. UNCHANGED <<proc, pc, wg>> => ControlTypeOK'
  BY DEF TypeOK, ControlTypeOK
<1>5. UNCHANGED localVars => LocalTypeOK'
  BY DEF TypeOK, localVars, LocalTypeOK
<1>6. UNCHANGED rawVars => RawTypeOK'
  BY DEF TypeOK, rawVars, RawTypeOK
<1>7. UNCHANGED logVars => LogTypeOK'
  BY DEF TypeOK, logVars, LogTypeOK
<1> QED BY <1>1, <1>2, <1>3, <1>4, <1>5, <1>6, <1>7

LEMMA ClientType ==
  ASSUME TypeOK, NEW c \in Conns, Client(c)
  PROVE  TypeOK'
<1>1. /\ UNCHANGED <<dbVars, localVars, rawVars, logVars>>
      /\ UNCHANGED <<proc, pc, wg>>
  BY DEF Client, Dial, SendIMEI, GetAccept, SendPacket, GetAck, HangUp
<1>2. ClientTypeOK'
  <2> USE DEF TypeOK, ClientTypeOK
  <2>1. CASE Dial(c) BY <2>1 DEF Dial, Identities
  <2>2. CASE SendIMEI(c) BY <2>2 DEF SendIMEI
  <2>3. CASE GetAccept(c) BY <2>3 DEF GetAccept
  <2>4. CASE SendPacket(c) BY <2>4, MaxPacketsAssumption DEF SendPacket
  <2>5. CASE GetAck(c) BY <2>5 DEF GetAck
  <2>6. CASE HangUp(c) BY <2>6 DEF HangUp
  <2> QED BY <2>1, <2>2, <2>3, <2>4, <2>5, <2>6 DEF Client
<1>3. StreamTypeOK'
  <2> USE DEF TypeOK, StreamTypeOK
  <2>1. CASE Dial(c) BY <2>1 DEF Dial, streamVars
  <2>2. CASE SendIMEI(c) BY <2>2, WholeType DEF SendIMEI
  <2>3. CASE GetAccept(c) BY <2>3 DEF GetAccept
  <2>4. CASE SendPacket(c) BY <2>4, WholeType DEF SendPacket
  <2>5. CASE GetAck(c) BY <2>5 DEF GetAck
  <2>6. CASE HangUp(c) BY <2>6 DEF HangUp, streamVars
  <2> QED BY <2>1, <2>2, <2>3, <2>4, <2>5, <2>6 DEF Client
<1> QED BY <1>1, <1>2, <1>3, UnchangedTypes DEF TypeOK

(* conn.Read keeps the types of what it touches.                           *)
LEMMA ReadType ==
  ASSUME TypeOK, NEW c \in Conns, NEW part \in Parts, Read(c, part)
  PROVE  /\ wire' \in [Conns -> Seq(Chunks)]
         /\ heap' \in [Conns -> Seq(Chunks)]
         /\ received' \in [Conns -> Seq(Chunks)]
<1> DEFINE first == Head(wire[c])
           got == IF first.part = "rest" THEN first ELSE [first EXCEPT !.part = part]
           left == [first EXCEPT !.part = "rest"]
<1>1. first \in Chunks /\ Tail(wire[c]) \in Seq(Chunks)
  BY DEF TypeOK, StreamTypeOK, Read
<1>2. got \in Chunks /\ left \in Chunks
  BY <1>1 DEF Chunks
<1>3. <<left>> \o Tail(wire[c]) \in Seq(Chunks)
  BY <1>1, <1>2
<1> HIDE DEF left, got, first
<1>4. /\ heap' = [heap EXCEPT ![c] = Append(@, got)]
      /\ received' = [received EXCEPT ![c] = Append(@, got)]
      /\ wire' = [wire EXCEPT ![c] =
           IF got.part \in {"whole", "rest"} THEN Tail(@) ELSE <<left>> \o Tail(@)]
  BY DEF Read, left, got, first
<1> QED BY <1>1, <1>2, <1>3, <1>4 DEF TypeOK, StreamTypeOK, LocalTypeOK

(* The answers are answers, whether the client is there to read them.      *)
LEMMA WriteType ==
  ASSUME TypeOK, NEW c \in Conns, NEW answer \in Answers, Write(c, answer)
  PROVE  inbox' \in [Conns -> Seq(Answers)]
BY DEF TypeOK, StreamTypeOK, Write

(* Names of messages, failures and jobs.                                   *)
LEMMA NameTypes ==
  ASSUME Base, NEW c \in Conns
  PROVE  /\ Round(c) \in Nat
         /\ \A i \in 1..255 : Message(c, i) \in Messages
         /\ \A what \in {"publish", "save"} :
              Failure(what, c) \in {"publish", "save", "raw"} \X Conns \X Nat
         /\ PointsJob(c) \in {"points", "raw"} \X Conns \X Nat
<1>1. Round(c) \in Nat
  BY DEF Base, TypeOK, LocalTypeOK, Round
<1> QED BY <1>1 DEF Base, TypeOK, LocalTypeOK, Message, Messages, Failure, PointsJob

LEMMA RawTypes ==
  ASSUME Base
  PROVE  /\ \A j \in spawned : RawPayload(j) \in Payloads
         /\ \A j \in spawned \cup saving : RawJob(j) \in {"points", "raw"} \X Conns \X Nat
         /\ \A j \in spawned \cup saving : RawJob(j) \in {"publish", "save", "raw"} \X Conns \X Nat
<1> USE DEF Base, TypeOK, RawTypeOK, Payloads
<1>1. ASSUME NEW j \in spawned PROVE RawPayload(j) \in Payloads
  <2>1. j.conn \in Conns /\ j.round \in Nat /\ j.buf \in 1..Len(heap[j.conn])
    BY DEF BuffersFresh
  <2>2. heap[j.conn] \in Seq(Chunks) /\ imei[j.conn] \in Identities
    BY <2>1 DEF LocalTypeOK
  <2>3. heap[j.conn][j.buf] \in Chunks
    BY <2>1, <2>2, ElementOfSeq
  <2> QED BY <2>1, <2>2, <2>3 DEF RawPayload
<1>2. ASSUME NEW j \in spawned \cup saving PROVE j.conn \in Conns /\ j.round \in Nat
  OBVIOUS
<1> QED BY <1>1, <1>2 DEF RawJob

LEMMA HandlerType ==
  ASSUME Base, NEW c \in Conns, Serve(c) \/ Handler(c)
  PROVE  TypeOK'
<1> USE DEF Base
<1>1. /\ ClientTypeOK' /\ Round(c) \in Nat
  BY UnchangedTypes, NameTypes
     DEF Serve, Handler, ReadFails, ReadIMEI, ResponseAcceptIMEI, ReadPacket, ParseAccepts,
         ParseRefuses, ParsePanics, PublishLastPoint, PublishPanics, SaveAvlPoints,
         PrepareAvlPoints, PrepareAvlPointsFails, AppendPoint, AppendPointFails, SendBatch,
         ResponseAcceptDataPack, WgDone, CloseConn, Panic
<1> points[c] \in 0..255 /\ appended[c] \in 0..255
  BY DEF TypeOK, LocalTypeOK
<1>2. CASE Serve(c)
  <2>1. ControlTypeOK' BY <1>2 DEF Serve, TypeOK, ControlTypeOK, Labels
  <2> QED BY <1>2, <2>1, UnchangedTypes DEF Serve, TypeOK
<1>3. CASE ReadFails(c) \/ ParseRefuses(c) \/ CloseConn(c)
  <2>1. ControlTypeOK'
    BY <1>3 DEF ReadFails, ParseRefuses, CloseConn, Goto, TypeOK, ControlTypeOK, Labels
  <2> QED BY <1>3, <2>1, UnchangedTypes DEF ReadFails, ParseRefuses, CloseConn, TypeOK
<1>4. CASE ReadIMEI(c)
  <2>1. PICK part \in Cuts \cap {"header", "whole"} : Read(c, part)
    BY <1>4 DEF ReadIMEI
  <2>2. part \in Parts
    BY CutsAssumption
  <2>3. ControlTypeOK' BY <1>4 DEF ReadIMEI, Goto, TypeOK, ControlTypeOK, Labels
  <2>4. StreamTypeOK' BY <1>4, <2>1, <2>2, ReadType DEF ReadIMEI, TypeOK, StreamTypeOK
  <2>5. imei' \in [Conns -> Identities]
    BY <1>4 DEF ReadIMEI, TypeOK, LocalTypeOK, ClientTypeOK
  <2>6. LocalTypeOK'
    BY <1>4, <2>1, <2>2, <2>5, ReadType DEF ReadIMEI, TypeOK, LocalTypeOK
  <2> QED BY <1>1, <1>4, <2>3, <2>4, <2>6, UnchangedTypes DEF ReadIMEI, TypeOK
<1>5. CASE ResponseAcceptIMEI(c)
  <2>1. ControlTypeOK' BY <1>5 DEF ResponseAcceptIMEI, Goto, TypeOK, ControlTypeOK, Labels
  <2>2. StreamTypeOK'
    BY <1>5, WriteType DEF ResponseAcceptIMEI, TypeOK, StreamTypeOK, Answers
  <2>3. LocalTypeOK' BY <1>5 DEF ResponseAcceptIMEI, TypeOK, LocalTypeOK
  <2> QED BY <1>1, <1>5, <2>1, <2>2, <2>3, UnchangedTypes DEF ResponseAcceptIMEI, TypeOK
<1>6. CASE ReadPacket(c)
  <2>1. PICK part \in Cuts : Read(c, part)
    BY <1>6 DEF ReadPacket
  <2>2. part \in Parts
    BY CutsAssumption
  <2>3. ControlTypeOK' BY <1>6 DEF ReadPacket, Goto, TypeOK, ControlTypeOK, Labels
  <2>4. StreamTypeOK' BY <1>6, <2>1, <2>2, ReadType DEF ReadPacket, TypeOK, StreamTypeOK
  <2>5. LocalTypeOK'
    BY <1>6, <2>1, <2>2, ReadType DEF ReadPacket, TypeOK, LocalTypeOK
  <2>6. Len(heap'[c]) \in Nat
    BY <2>5 DEF LocalTypeOK
  <2>7. RawTypeOK'
    BY <1>1, <1>6, <2>6 DEF ReadPacket, TypeOK, RawTypeOK
  <2> QED BY <1>1, <1>6, <2>3, <2>4, <2>5, <2>7, UnchangedTypes DEF ReadPacket, TypeOK
<1>7. CASE ParseAccepts(c)
  <2>1. ControlTypeOK' BY <1>7 DEF ParseAccepts, Goto, TypeOK, ControlTypeOK, Labels
  <2>2. Count(Buf(c)) \in 0..255
    <3>1. heap[c] \in Seq(Chunks) /\ heap[c] # <<>>
      BY <1>7 DEF ParseAccepts, At, TypeOK, LocalTypeOK, TurnOK, Working, BuffersFresh
    <3>2. Buf(c) \in Chunks
      BY <3>1, LenProperties, EmptySeq, ElementOfSeq DEF Buf
    <3> QED BY <3>2, ChunkFields
  <2>3. LocalTypeOK' BY <1>7, <2>2 DEF ParseAccepts, TypeOK, LocalTypeOK
  <2> QED BY <1>1, <1>7, <2>1, <2>3, UnchangedTypes DEF ParseAccepts, TypeOK
<1>8. CASE ParsePanics(c) \/ PublishPanics(c)
  <2>1. Panic(c) BY <1>8 DEF ParsePanics, PublishPanics
  <2>2. ControlTypeOK' BY <2>1 DEF Panic, Goto, TypeOK, ControlTypeOK, Labels
  <2> QED BY <2>1, <2>2, UnchangedTypes DEF Panic, TypeOK
<1>9. CASE PublishLastPoint(c)
  <2>1. ControlTypeOK' BY <1>9 DEF PublishLastPoint, Goto, TypeOK, ControlTypeOK, Labels
  <2>2. points[c] \in 1..255 BY <1>9 DEF PublishLastPoint
  <2>3. LogTypeOK'
    BY <1>9, <2>2, NameTypes DEF PublishLastPoint, TypeOK, LogTypeOK
  <2> QED BY <1>1, <1>9, <2>1, <2>3, UnchangedTypes DEF PublishLastPoint, TypeOK
<1>10. CASE PrepareAvlPoints(c)
  <2>1. ControlTypeOK' BY <1>10 DEF PrepareAvlPoints, Goto, TypeOK, ControlTypeOK, Labels
  <2>2. DBTypeOK'
    BY <1>10, NameTypes DEF PrepareAvlPoints, PrepareBatch, TypeOK, DBTypeOK
  <2>3. LocalTypeOK' BY <1>10 DEF PrepareAvlPoints, TypeOK, LocalTypeOK
  <2> QED BY <1>1, <1>10, <2>1, <2>2, <2>3, UnchangedTypes DEF PrepareAvlPoints, TypeOK
<1>11. CASE PrepareAvlPointsFails(c)
  <2>1. ControlTypeOK'
    BY <1>11 DEF PrepareAvlPointsFails, SaveReturns, Goto, TypeOK, ControlTypeOK, Labels
  <2>2. LogTypeOK'
    BY <1>11, NameTypes DEF PrepareAvlPointsFails, SaveReturns, TypeOK, LogTypeOK
  <2> QED
    BY <1>1, <1>11, <2>1, <2>2, UnchangedTypes
       DEF PrepareAvlPointsFails, PrepareBatchFails, TypeOK
<1>12. CASE AppendPoint(c)
  <2>0. appended[c] + 1 \in 0..255 BY <1>12 DEF AppendPoint
  <2>1. LocalTypeOK' BY <1>12, <2>0 DEF AppendPoint, TypeOK, LocalTypeOK
  <2>2. ControlTypeOK' BY <1>12 DEF AppendPoint, TypeOK, ControlTypeOK
  <2> QED BY <1>1, <1>12, <2>1, <2>2, UnchangedTypes DEF AppendPoint, TypeOK
<1>13. CASE AppendPointFails(c)
  <2>1. ControlTypeOK'
    BY <1>13 DEF AppendPointFails, SaveReturns, Goto, TypeOK, ControlTypeOK, Labels
  <2>2. DBTypeOK' BY <1>13 DEF AppendPointFails, AppendFails, TypeOK, DBTypeOK
  <2>3. LogTypeOK'
    BY <1>13, NameTypes DEF AppendPointFails, SaveReturns, TypeOK, LogTypeOK
  <2> QED BY <1>1, <1>13, <2>1, <2>2, <2>3, UnchangedTypes DEF AppendPointFails, TypeOK
<1>14. CASE SendBatch(c)
  <2>1. ControlTypeOK'
    BY <1>14 DEF SendBatch, SaveReturns, Goto, TypeOK, ControlTypeOK, Labels
  <2>2. Batch(c) \subseteq Messages
    BY NameTypes DEF Batch
  <2>3. DBTypeOK' BY <1>14, <2>2 DEF SendBatch, SendPoints, TypeOK, DBTypeOK
  <2>4. LogTypeOK'
    BY <1>14, NameTypes DEF SendBatch, SaveReturns, TypeOK, LogTypeOK
  <2> QED BY <1>1, <1>14, <2>1, <2>3, <2>4, UnchangedTypes DEF SendBatch, TypeOK
<1>15. CASE ResponseAcceptDataPack(c)
  <2>1. ControlTypeOK' BY <1>15 DEF ResponseAcceptDataPack, Goto, TypeOK, ControlTypeOK, Labels
  <2>3. <<0, 0, 0, points[c] % 256>> \in Answers BY DEF Answers
  <2>4. StreamTypeOK'
    BY <1>15, <2>3, WriteType DEF ResponseAcceptDataPack, TypeOK, StreamTypeOK
  <2>5. LogTypeOK'
    BY <1>1, <1>15 DEF ResponseAcceptDataPack, TypeOK, LogTypeOK
  <2> QED BY <1>1, <1>15, <2>1, <2>4, <2>5, UnchangedTypes DEF ResponseAcceptDataPack, TypeOK
<1>16. CASE WgDone(c)
  <2>1. wg > 0 BY <1>16, WgPositive DEF WgDone, At, Counted
  <2>2. ControlTypeOK' BY <1>16, <2>1 DEF WgDone, Goto, TypeOK, ControlTypeOK, Labels
  <2> QED BY <1>1, <1>16, <2>2, UnchangedTypes DEF WgDone, TypeOK
<1> QED
  BY <1>2, <1>3, <1>4, <1>5, <1>6, <1>7, <1>8, <1>9, <1>10, <1>11, <1>12, <1>13, <1>14,
     <1>15, <1>16 DEF Handler, SaveAvlPoints

LEMMA RawSaverType ==
  ASSUME Base, NEW c \in Conns, RawSaver(c)
  PROVE  TypeOK'
<1>1. TypeOK
  BY DEF Base
<1>2. ASSUME NEW j \in spawned, SaveRawData(j) \/ SaveRawDataFails(j) PROVE TypeOK'
  <2>1. DBTypeOK'
    BY <1>1, <1>2, RawTypes, UnchangedTypes
       DEF SaveRawData, SaveRawDataFails, PrepareBatch, PrepareBatchFails, TypeOK, DBTypeOK
  <2>2. RawTypeOK'
    BY <1>1, <1>2, RawTypes DEF SaveRawData, SaveRawDataFails, TypeOK, RawTypeOK
  <2>3. LogTypeOK'
    BY <1>1, <1>2, RawTypes
       DEF SaveRawData, SaveRawDataFails, RawErrors, TypeOK, LogTypeOK, logVars
  <2> QED
    BY <1>1, <1>2, <2>1, <2>2, <2>3, UnchangedTypes DEF SaveRawData, SaveRawDataFails, TypeOK
<1>3. ASSUME NEW j \in saving, AppendRawDataFails(j) \/ SendRawData(j) PROVE TypeOK'
  <2>1. DBTypeOK'
    <3> j \in Payloads BY <1>1 DEF TypeOK, RawTypeOK
    <3>1. CASE AppendRawDataFails(j)
      BY <1>1, <3>1 DEF AppendRawDataFails, AppendFails, TypeOK, DBTypeOK
    <3>2. CASE SendRawData(j)
      BY <1>1, <3>2 DEF SendRawData, SendPayload, TypeOK, DBTypeOK
    <3> QED BY <1>3, <3>1, <3>2
  <2>2. RawTypeOK'
    BY <1>1, <1>3 DEF AppendRawDataFails, SendRawData, TypeOK, RawTypeOK
  <2>3. LogTypeOK'
    BY <1>1, <1>3, RawTypes DEF AppendRawDataFails, SendRawData, RawErrors, TypeOK, LogTypeOK
  <2> QED
    BY <1>1, <1>3, <2>1, <2>2, <2>3, UnchangedTypes
       DEF AppendRawDataFails, SendRawData, TypeOK
<1> QED BY <1>2, <1>3 DEF RawSaver

LEMMA TerminateType ==
  ASSUME TypeOK, Terminate
  PROVE  TypeOK'
<1>1. ControlTypeOK' BY DEF Terminate, Crash, TypeOK, ControlTypeOK
<1>2. DBTypeOK' BY DEF Terminate, Crash, TypeOK, DBTypeOK
<1> QED BY <1>1, <1>2, UnchangedTypes DEF Terminate, Crash, TypeOK

LEMMA StutterType ==
  ASSUME TypeOK, UNCHANGED vars
  PROVE  TypeOK'
BY UnchangedTypes DEF vars, TypeOK

LEMMA NextType == Base /\ [Next]_vars => TypeOK'
<1> SUFFICES ASSUME Base, [Next]_vars PROVE TypeOK'
  OBVIOUS
<1>1. TypeOK
  BY DEF Base
<1>2. CASE UNCHANGED vars BY <1>1, <1>2, StutterType
<1>3. CASE Terminate BY <1>1, <1>3, TerminateType
<1>4. ASSUME NEW c \in Conns, Client(c) \/ Serve(c) \/ Handler(c) \/ RawSaver(c)
      PROVE  TypeOK'
  BY <1>1, <1>4, ClientType, HandlerType, RawSaverType
<1> QED BY <1>2, <1>3, <1>4 DEF Next

-----------------------------------------------------------------------------
(* How the history of reads grows, and what a step leaves alone.           *)

Extends(s, t) == Len(s) <= Len(t) /\ \A r \in 1..Len(s) : t[r] = s[r]

LEMMA ReadAppends ==
  ASSUME TypeOK, NEW c \in Conns, NEW part \in Parts, Read(c, part)
  PROVE  /\ \A d \in Conns \ {c} : received'[d] = received[d]
         /\ \E got \in Chunks : received'[c] = Append(received[c], got)
         /\ heap = received => heap' = received'
<1> DEFINE first == Head(wire[c])
           got == IF first.part = "rest" THEN first ELSE [first EXCEPT !.part = part]
<1>1. first \in Chunks
  BY DEF TypeOK, StreamTypeOK, Read
<1>2. got \in Chunks
  BY <1>1 DEF Chunks
<1> HIDE DEF got, first
<1>3. /\ heap' = [heap EXCEPT ![c] = Append(@, got)]
      /\ received' = [received EXCEPT ![c] = Append(@, got)]
  BY DEF Read, got, first
<1> QED BY <1>2, <1>3 DEF TypeOK, LocalTypeOK

(* A step reads at most once, and only in ReadIMEI and ReadPacket.         *)
LEMMA HistoryGrows ==
  ASSUME Base, [Next]_vars
  PROVE  \A d \in Conns : Extends(received[d], received'[d])
<1>1. TypeOK /\ \A d \in Conns : Len(received[d]) \in Nat
  BY DEF Base, TypeOK, LocalTypeOK
<1>2. CASE UNCHANGED received
  BY <1>1, <1>2 DEF Extends
<1>3. ASSUME NEW c \in Conns, NEW part \in Parts, Read(c, part)
      PROVE  \A d \in Conns : Extends(received[d], received'[d])
  <2>1. PICK got \in Chunks : received'[c] = Append(received[c], got)
    BY <1>1, <1>3, ReadAppends
  <2>2. received[c] \in Seq(Chunks)
    BY <1>1 DEF TypeOK, LocalTypeOK
  <2>3. Extends(received[c], received'[c])
    BY <2>1, <2>2 DEF Extends
  <2>4. ASSUME NEW d \in Conns \ {c} PROVE Extends(received[d], received'[d])
    BY <1>1, <1>3, ReadAppends DEF Extends
  <2> QED BY <2>3, <2>4
<1>4. ASSUME NEW c \in Conns, ReadIMEI(c) \/ ReadPacket(c)
      PROVE  \E part \in Parts : Read(c, part)
  BY <1>4, CutsAssumption DEF ReadIMEI, ReadPacket
<1>5. \/ UNCHANGED received
      \/ \E c \in Conns : ReadIMEI(c) \/ ReadPacket(c)
  <2>1. CASE UNCHANGED vars \/ Terminate
    BY <2>1 DEF vars, Terminate, Crash, localVars
  <2>2. ASSUME NEW c \in Conns, Client(c) \/ Serve(c) \/ RawSaver(c) PROVE UNCHANGED received
    BY <2>2 DEF Client, Dial, SendIMEI, GetAccept, SendPacket, GetAck, HangUp, Serve, RawSaver,
                SaveRawData, SaveRawDataFails, AppendRawDataFails, SendRawData, localVars
  <2>3. ASSUME NEW c \in Conns, Handler(c), ~ReadIMEI(c), ~ReadPacket(c)
        PROVE  UNCHANGED received
    BY <2>3 DEF Handler, ReadFails, ResponseAcceptIMEI, ParseAccepts, ParseRefuses, ParsePanics,
                PublishLastPoint, PublishPanics, SaveAvlPoints, PrepareAvlPoints,
                PrepareAvlPointsFails, AppendPoint, AppendPointFails, SendBatch,
                ResponseAcceptDataPack, WgDone, CloseConn, Panic, localVars
  <2> QED BY <2>1, <2>2, <2>3 DEF Next
<1> QED BY <1>2, <1>3, <1>4, <1>5

(* A handler works on its own connection only.                             *)
LEMMA HandlerFrame ==
  ASSUME Base, NEW c \in Conns, Handler(c), NEW d \in Conns \ {c}
  PROVE  /\ pc'[d] = pc[d]
         /\ received'[d] = received[d]
         /\ points'[d] = points[d]
         /\ authenticated'[d] = authenticated[d]
         /\ imei'[d] = imei[d]
<1>1. TypeOK
  BY DEF Base
<1>2. pc'[d] = pc[d]
  BY <1>1 DEF TypeOK, ControlTypeOK, Handler, ReadFails, ReadIMEI, ResponseAcceptIMEI,
              ReadPacket, ParseAccepts, ParseRefuses, ParsePanics, PublishLastPoint,
              PublishPanics, SaveAvlPoints, PrepareAvlPoints, PrepareAvlPointsFails, AppendPoint,
              AppendPointFails, SendBatch, SaveReturns, ResponseAcceptDataPack, WgDone,
              CloseConn, Panic, Goto
<1>3. CASE ReadIMEI(c) \/ ReadPacket(c)
  <2>1. PICK part \in Parts : Read(c, part)
    BY <1>3, CutsAssumption DEF ReadIMEI, ReadPacket
  <2>2. received'[d] = received[d]
    BY <1>1, <2>1, ReadAppends
  <2>3. /\ points'[d] = points[d]
        /\ authenticated'[d] = authenticated[d]
        /\ imei'[d] = imei[d]
    BY <1>1, <1>3 DEF ReadIMEI, ReadPacket, TypeOK, LocalTypeOK
  <2> QED BY <1>2, <2>2, <2>3
<1>4. CASE ~ReadIMEI(c) /\ ~ReadPacket(c)
  <2>1. /\ received'[d] = received[d]
        /\ points'[d] = points[d]
        /\ authenticated'[d] = authenticated[d]
        /\ imei'[d] = imei[d]
    BY <1>1, <1>4
       DEF TypeOK, LocalTypeOK, Handler, ReadFails, ResponseAcceptIMEI, ParseAccepts,
           ParseRefuses, ParsePanics, PublishLastPoint, PublishPanics, SaveAvlPoints,
           PrepareAvlPoints, PrepareAvlPointsFails, AppendPoint, AppendPointFails, SendBatch,
           ResponseAcceptDataPack, WgDone, CloseConn, Panic, localVars
  <2> QED BY <1>2, <2>1
<1> QED BY <1>3, <1>4

-----------------------------------------------------------------------------
(* The wait group.                                                         *)

LEMMA CountedFinite == IsFiniteSet(Counted)
BY ConnsAssumption, FS_Subset DEF Counted

LEMMA NextCounts == Base /\ [Next]_vars => wg' = Cardinality(Counted')
<1> SUFFICES ASSUME Base, [Next]_vars PROVE wg' = Cardinality(Counted')
  OBVIOUS
<1>1. wg = Cardinality(Counted) /\ pc \in [Conns -> Labels]
  BY DEF Base, TypeOK, ControlTypeOK
<1>2. CASE wg' = wg /\ Counted' = Counted
  BY <1>1, <1>2
<1>3. ASSUME NEW c \in Conns, Serve(c) PROVE wg' = Cardinality(Counted')
  <2>1. c \notin Counted /\ Counted' = Counted \cup {c} /\ wg' = wg + 1
    BY <1>1, <1>3 DEF Serve, Counted
  <2> QED BY <1>1, <2>1, CountedFinite, FS_AddElement
<1>4. ASSUME NEW c \in Conns, WgDone(c) PROVE wg' = Cardinality(Counted')
  <2>1. c \in Counted /\ Counted' = Counted \ {c} /\ wg' = wg - 1
    BY <1>1, <1>4 DEF WgDone, At, Goto, Counted
  <2> QED BY <1>1, <2>1, CountedFinite, FS_RemoveElement
<1>5. ASSUME NEW c \in Conns, Handler(c), ~WgDone(c)
      PROVE  wg' = wg /\ Counted' = Counted
  <2>1. wg' = wg
    BY <1>5 DEF Handler, ReadFails, ReadIMEI, ResponseAcceptIMEI, ReadPacket, ParseAccepts,
                ParseRefuses, ParsePanics, PublishLastPoint, PublishPanics, SaveAvlPoints,
                PrepareAvlPoints, PrepareAvlPointsFails, AppendPoint, AppendPointFails,
                SendBatch, ResponseAcceptDataPack, CloseConn, Panic
  <2>2. pc[c] \in {"idle", "close", "gone"} <=> pc'[c] \in {"idle", "close", "gone"}
    BY <1>1, <1>5
       DEF Handler, ReadFails, ReadIMEI, ResponseAcceptIMEI, ReadPacket, ParseAccepts,
           ParseRefuses, ParsePanics, PublishLastPoint, PublishPanics, SaveAvlPoints,
           PrepareAvlPoints, PrepareAvlPointsFails, AppendPoint, AppendPointFails,
           SendBatch, SaveReturns, ResponseAcceptDataPack, CloseConn, Panic, At, Goto
  <2>3. Counted' = Counted
    BY <1>5, <2>2, HandlerFrame DEF Counted
  <2> QED BY <2>1, <2>3
<1>6. ASSUME NEW c \in Conns, Client(c) \/ RawSaver(c) PROVE wg' = wg /\ Counted' = Counted
  BY <1>6 DEF Client, Dial, SendIMEI, GetAccept, SendPacket, GetAck, HangUp, RawSaver,
              SaveRawData, SaveRawDataFails, AppendRawDataFails, SendRawData, Counted
<1>7. CASE UNCHANGED vars \/ Terminate
  BY <1>2, <1>7 DEF vars, Terminate, Crash, Counted
<1> QED BY <1>2, <1>3, <1>4, <1>5, <1>6, <1>7 DEF Next

-----------------------------------------------------------------------------
(* The turn of the loop.                                                   *)

LEMMA NextTurn == Base /\ [Next]_vars => \A c \in Conns : TurnOK(c)'
<1> SUFFICES ASSUME Base, [Next]_vars, NEW d \in Conns PROVE TurnOK(d)'
  OBVIOUS
<1>1. /\ TypeOK /\ TypeOK' /\ TurnOK(d) /\ heap = received
      /\ received[d] \in Seq(Chunks) /\ pc \in [Conns -> Labels]
      /\ Extends(received[d], received'[d])
  BY NextType, HistoryGrows DEF Base, BuffersFresh, TypeOK, LocalTypeOK, ControlTypeOK
<1>2. CASE /\ pc'[d] = pc[d] /\ received'[d] = received[d] /\ points'[d] = points[d]
           /\ heap'[d] = heap[d]
  BY <1>1, <1>2 DEF TurnOK, Buf
<1>3. ASSUME NEW c \in Conns, Client(c) \/ RawSaver(c) \/ Terminate \/ UNCHANGED vars
      PROVE  TurnOK(d)'
  BY <1>2, <1>3
     DEF vars, Terminate, Crash, Client, Dial, SendIMEI, GetAccept, SendPacket, GetAck, HangUp,
         RawSaver, SaveRawData, SaveRawDataFails, AppendRawDataFails, SendRawData, localVars
<1>4. ASSUME NEW c \in Conns, Serve(c) PROVE TurnOK(d)'
  <2>1. UNCHANGED localVars /\ (pc'[d] = pc[d] \/ pc'[d] = "read")
    BY <1>1, <1>4 DEF Serve
  <2> QED BY <1>2, <2>1 DEF localVars, TurnOK, Working, Parsed
<1>5. ASSUME NEW c \in Conns \ {d}, Handler(c) PROVE TurnOK(d)'
  <2>1. heap' = received' \/ heap' = heap
    <3>1. ASSUME NEW part \in Parts, Read(c, part) PROVE heap' = received'
      BY <1>1, <3>1, ReadAppends
    <3> QED
      BY <1>5, <3>1, CutsAssumption
         DEF Handler, ReadFails, ReadIMEI, ResponseAcceptIMEI, ReadPacket, ParseAccepts,
             ParseRefuses, ParsePanics, PublishLastPoint, PublishPanics, SaveAvlPoints,
             PrepareAvlPoints, PrepareAvlPointsFails, AppendPoint, AppendPointFails, SendBatch,
             ResponseAcceptDataPack, WgDone, CloseConn, Panic, localVars
  <2>2. /\ pc'[d] = pc[d] /\ received'[d] = received[d] /\ points'[d] = points[d]
    BY <1>5, HandlerFrame
  <2>3. heap'[d] = heap[d]
    BY <1>1, <2>1, <2>2
  <2> QED BY <1>2, <2>2, <2>3
<1>6. CASE Handler(d)
  <2>1. CASE ReadPacket(d)
    <3>1. PICK part \in Parts : Read(d, part)
      BY <2>1, CutsAssumption DEF ReadPacket
    <3>2. PICK got \in Chunks : received'[d] = Append(received[d], got)
      BY <1>1, <3>1, ReadAppends
    <3>3. received'[d] # <<>>
      <4>1. Len(received'[d]) = Len(received[d]) + 1 /\ Len(received[d]) \in Nat
        BY <1>1, <3>2
      <4> QED BY <4>1, EmptySeq
    <3>4. pc'[d] = "parse"
      BY <1>1, <2>1 DEF ReadPacket, Goto
    <3> QED BY <3>3, <3>4 DEF TurnOK, Working, Parsed
  <2>2. CASE ParseAccepts(d)
    <3>1. /\ pc'[d] = "publish" /\ received'[d] = received[d] /\ heap'[d] = heap[d]
          /\ points'[d] = Count(Buf(d))
      BY <1>1, <2>2 DEF ParseAccepts, Goto, TypeOK, LocalTypeOK
    <3>2. Accepts(Buf(d)) /\ received[d] # <<>>
      BY <1>1, <2>2 DEF ParseAccepts, At, TurnOK, Working
    <3> QED BY <3>1, <3>2 DEF TurnOK, Working, Parsed, Buf
  <2>3. CASE PublishLastPoint(d)
    BY <1>1, <2>3 DEF PublishLastPoint, At, Goto, localVars, TurnOK, Working, Parsed, Buf
  <2>4. CASE SaveAvlPoints(d)
    <3>1. /\ pc[d] \in {"prepare", "append"} /\ pc'[d] \in {"append", "ack"}
          /\ received'[d] = received[d] /\ heap'[d] = heap[d] /\ points'[d] = points[d]
      BY <1>1, <2>4 DEF SaveAvlPoints, PrepareAvlPoints, PrepareAvlPointsFails, AppendPoint,
                        AppendPointFails, SendBatch, SaveReturns, At, Goto, localVars
    <3> QED BY <1>1, <3>1 DEF TurnOK, Working, Parsed, Buf
  <2>5. CASE \/ ReadFails(d) \/ ReadIMEI(d) \/ ResponseAcceptIMEI(d) \/ ParseRefuses(d)
             \/ ResponseAcceptDataPack(d) \/ WgDone(d) \/ CloseConn(d)
    <3>1. pc'[d] \in {"read", "accept", "done", "close", "gone"}
      BY <1>1, <2>5 DEF ReadFails, ReadIMEI, ResponseAcceptIMEI, ParseRefuses,
                        ResponseAcceptDataPack, WgDone, CloseConn, Goto
    <3> QED BY <3>1 DEF TurnOK, Working, Parsed
  <2>6. CASE ParsePanics(d) \/ PublishPanics(d)
    <3>1. pc'[d] = "done"
      BY <1>1, <2>6 DEF ParsePanics, PublishPanics, Panic, Goto
    <3> QED BY <3>1 DEF TurnOK, Working, Parsed
  <2> QED BY <1>6, <2>1, <2>2, <2>3, <2>4, <2>5, <2>6 DEF Handler
<1> QED BY <1>3, <1>4, <1>5, <1>6 DEF Next

(* The buffers.                                                            *)
LEMMA NextBuffers == Base /\ [Next]_vars => BuffersFresh'
<1> SUFFICES ASSUME Base, [Next]_vars PROVE BuffersFresh'
  OBVIOUS
<1>1. /\ TypeOK /\ TypeOK' /\ BuffersFresh
      /\ \A d \in Conns : received[d] \in Seq(Chunks)
      /\ \A d \in Conns : Extends(received[d], received'[d])
  BY NextType, HistoryGrows DEF Base, TypeOK, LocalTypeOK
<1>2. /\ \A j \in spawned : j.round \in 1..Len(received'[j.conn])
      /\ \A p \in saving \cup payloads :
           /\ p.round \in 1..Len(received'[p.conn])
           /\ p.data = received'[p.conn][p.round]
  <2>1. \A j \in spawned \cup saving \cup payloads : j.conn \in Conns
    BY <1>1 DEF TypeOK, RawTypeOK, DBTypeOK, Payloads
  <2>2. ASSUME NEW d \in Conns, NEW r \in 1..Len(received[d])
        PROVE  r \in 1..Len(received'[d]) /\ received'[d][r] = received[d][r]
    <3>1. /\ received'[d] \in Seq(Chunks)
          /\ Len(received[d]) <= Len(received'[d])
          /\ received'[d][r] = received[d][r]
      BY <1>1 DEF Extends, TypeOK, LocalTypeOK
    <3> QED BY <1>1, <3>1
  <2> QED BY <1>1, <2>1, <2>2 DEF BuffersFresh
<1>3. CASE UNCHANGED <<heap, received>> /\ spawned' \subseteq spawned
           /\ \A p \in saving' \cup payloads' : p \in saving \cup payloads
  BY <1>1, <1>2, <1>3 DEF BuffersFresh
<1>4. ASSUME NEW c \in Conns, NEW j \in spawned, SaveRawData(j) PROVE BuffersFresh'
  <2>1. /\ UNCHANGED localVars /\ payloads' = payloads /\ spawned' \subseteq spawned
        /\ saving' = saving \cup {RawPayload(j)}
    BY <1>4 DEF SaveRawData, PrepareBatch
  <2>2. /\ RawPayload(j).round \in 1..Len(received[RawPayload(j).conn])
        /\ RawPayload(j).data = received[RawPayload(j).conn][RawPayload(j).round]
    BY <1>1 DEF RawPayload, BuffersFresh
  <2> QED BY <1>1, <2>1, <2>2 DEF BuffersFresh, localVars
<1>5. ASSUME NEW c \in Conns, ReadIMEI(c) \/ ReadPacket(c) PROVE BuffersFresh'
  <2>1. PICK part \in Parts : Read(c, part)
    BY <1>5, CutsAssumption DEF ReadIMEI, ReadPacket
  <2>2. heap' = received'
    BY <1>1, <2>1, ReadAppends DEF BuffersFresh
  <2>3. UNCHANGED <<saving, payloads>>
    BY <1>5 DEF ReadIMEI, ReadPacket, rawVars, dbVars
  <2>4. \A j \in spawned' : j.buf = j.round /\ j.round \in 1..Len(received'[j.conn])
    <3>1. CASE spawned' = spawned
      BY <1>1, <1>2, <3>1 DEF BuffersFresh
    <3>2. CASE ReadPacket(c)
      <4>1. PICK got \in Chunks : received'[c] = Append(received[c], got)
        BY <1>1, <2>1, ReadAppends
      <4>2. Len(received'[c]) = Len(received[c]) + 1 /\ Len(received[c]) \in Nat
        BY <1>1, <4>1
      <4>3. spawned' = spawned \cup
              {[conn |-> c, round |-> Round(c) + 1, buf |-> Len(heap'[c])]}
        BY <3>2 DEF ReadPacket
      <4> QED BY <1>1, <1>2, <2>2, <4>2, <4>3 DEF BuffersFresh, Round
    <3> QED BY <1>5, <3>1, <3>2 DEF ReadIMEI, rawVars
  <2> QED BY <1>1, <1>2, <2>2, <2>3, <2>4 DEF BuffersFresh
<1>6. ASSUME NEW c \in Conns, NEW j \in saving, SendRawData(j) PROVE BuffersFresh'
  BY <1>3, <1>6 DEF SendRawData, SendPayload, localVars
<1>7. ASSUME NEW c \in Conns, RawSaver(c) PROVE BuffersFresh'
  <2>1. ASSUME NEW j \in spawned, SaveRawDataFails(j) PROVE BuffersFresh'
    BY <1>3, <2>1 DEF SaveRawDataFails, PrepareBatchFails, localVars, dbVars
  <2>2. ASSUME NEW j \in saving, AppendRawDataFails(j) PROVE BuffersFresh'
    BY <1>3, <2>2 DEF AppendRawDataFails, AppendFails, localVars
  <2> QED BY <1>4, <1>6, <1>7, <2>1, <2>2 DEF RawSaver
<1>8. ASSUME NEW c \in Conns, Client(c) \/ Serve(c) \/ Terminate \/ UNCHANGED vars
      PROVE  BuffersFresh'
  BY <1>3, <1>8
     DEF vars, Terminate, Crash, Client, Dial, SendIMEI, GetAccept, SendPacket, GetAck, HangUp,
         Serve, localVars, rawVars, dbVars
<1>9. ASSUME NEW c \in Conns, Handler(c), ~ReadIMEI(c), ~ReadPacket(c) PROVE BuffersFresh'
  BY <1>3, <1>9
     DEF Handler, ReadFails, ResponseAcceptIMEI, ParseAccepts, ParseRefuses, ParsePanics,
         PublishLastPoint, PublishPanics, SaveAvlPoints, PrepareAvlPoints,
         PrepareAvlPointsFails, AppendPoint, AppendPointFails, SendBatch, PrepareBatch,
         PrepareBatchFails, AppendFails, SendPoints, ResponseAcceptDataPack, WgDone, CloseConn,
         Panic, localVars, rawVars, dbVars
<1> QED BY <1>3, <1>5, <1>7, <1>8, <1>9 DEF Next, vars, localVars, rawVars, dbVars, Terminate, Crash

-----------------------------------------------------------------------------
(* The base of every proof below: types, buffers, turn and wait group are  *)
(* one inductive invariant, for each needs the others.                     *)
THEOREM BaseInvariant == Spec => []Base
<1>1. Init => Base
  <2> SUFFICES ASSUME Init PROVE Base
    OBVIOUS
  <2>1. TypeOK BY InitType
  <2>2. BuffersFresh BY DEF Init, DBInit, BuffersFresh
  <2>3. \A c \in Conns : TurnOK(c) BY DEF Init, TurnOK, Working, Parsed
  <2>4. wg = Cardinality(Counted)
    <3>1. Counted = {} BY DEF Init, Counted
    <3> QED BY <3>1, FS_EmptySet DEF Init
  <2> QED BY <2>1, <2>2, <2>3, <2>4 DEF Base
<1>2. Base /\ [Next]_vars => Base'
  <2> SUFFICES ASSUME Base, [Next]_vars PROVE Base'
    OBVIOUS
  <2>1. TypeOK' BY NextType
  <2>2. BuffersFresh' BY NextBuffers
  <2>3. (\A c \in Conns : TurnOK(c))' BY NextTurn
  <2>4. (wg = Cardinality(Counted))' BY NextCounts
  <2> QED BY <2>1, <2>2, <2>3, <2>4 DEF Base
<1> QED BY <1>1, <1>2, PTL DEF Spec

(* Every variable keeps to its type; ts.wg is never negative.              *)
THEOREM TypeCorrect == Spec => []TypeOK
<1>1. Base => TypeOK BY DEF Base
<1> QED BY <1>1, BaseInvariant, PTL

(* ts.wg counts the handlers that have not run their deferred Done, for    *)
(* any number of connections.                                              *)
THEOREM WaitGroupCorrect == Spec => []WaitGroupCounts
<1>1. Base => WaitGroupCounts BY DEF Base, WaitGroupCounts, Counted
<1> QED BY <1>1, BaseInvariant, PTL

(* A raw payload in the table is what its goroutine was spawned for,       *)
(* however late it ran.                                                    *)
THEOREM RawPayloadsCorrect == Spec => []RawPayloadsIntact
<1>1. Base => RawPayloadsIntact BY DEF Base, BuffersFresh, RawPayloadsIntact
<1> QED BY <1>1, BaseInvariant, PTL
=============================================================================
