----------------------- MODULE LedgerRefinement_proofs -----------------------
(***************************************************************************)
(* The handlers implement the abstract ledger, for any number of           *)
(* connections, packets, points and pooled connections.                    *)
(***************************************************************************)
EXTENDS LedgerRefinement, Ledger_proofs

AnsweredAt(c, r) == \E a \in acked : a.conn = c /\ a.round = r

(* Every packet up to read r was announced, and the last one answered.     *)
Closed(c, r) ==
  /\ AnnouncedRounds(c) = 2..r
  /\ r > 1 => AnsweredAt(c, r)

(* The packets of a connection are announced without a gap, the next one   *)
(* only when the one before it was answered.                               *)
LineOK(c) ==
  /\ authenticated[c] \/ pc[c] = "accept" => Round(c) > 0
  /\ ~authenticated[c] /\ pc[c] \in {"idle", "read"} => Round(c) = 0
  /\ pc[c] \in Working => authenticated[c] /\ Round(c) > 1
  /\ pc[c] \in {"idle", "read", "accept"} => Closed(c, Round(c))
  /\ pc[c] \in {"parse", "publish"} => Closed(c, Round(c) - 1)
  /\ pc[c] \in {"prepare", "append", "ack"} => AnnouncedRounds(c) = 2..Round(c)

(* A failed insert is logged for a packet that was read, and for the one   *)
(* in hand only when its insert is over.                                   *)
SavesOK ==
  \A e \in errors : e[1] = "save" =>
    /\ e[3] \in 1..Round(e[2])
    /\ pc[e[2]] \in Unsaved => e[3] < Round(e[2])

Line == SavesOK /\ \A c \in Conns : LineOK(c)

-----------------------------------------------------------------------------
(* What a step may do to what the ledger sees.                             *)

SaveFails(c) == PrepareAvlPointsFails(c) \/ AppendPointFails(c)

Quiet ==
  /\ published' = published /\ rows' = rows /\ acked' = acked
  /\ errors \subseteq errors' /\ \A e \in errors' : e \in errors \/ e[1] = "raw"

LEMMA Kinds ==
  ASSUME [Next]_vars
  PROVE  \/ Quiet
         \/ \E c \in Conns : \/ PublishLastPoint(c) \/ SaveFails(c) \/ SendBatch(c)
                             \/ ResponseAcceptDataPack(c)
<1>1. CASE UNCHANGED vars \/ Terminate
  BY <1>1 DEF vars, Terminate, Crash, logVars, dbVars, Quiet
<1>2. ASSUME NEW c \in Conns, Client(c) \/ Serve(c) PROVE Quiet
  BY <1>2 DEF Client, Dial, SendIMEI, GetAccept, SendPacket, GetAck, HangUp, Serve, logVars,
              dbVars, Quiet
<1>3. ASSUME NEW c \in Conns, RawSaver(c) PROVE Quiet
  <2>1. /\ published' = published /\ rows' = rows /\ acked' = acked
        /\ errors' = errors \/ \E j \in spawned \cup saving : errors' = errors \cup {RawJob(j)}
    BY <1>3 DEF RawSaver, SaveRawData, SaveRawDataFails, AppendRawDataFails, SendRawData,
                PrepareBatch, PrepareBatchFails, AppendFails, SendPayload, RawErrors, logVars,
                dbVars
  <2> QED BY <2>1 DEF Quiet, RawJob
<1>4. ASSUME NEW c \in Conns, Handler(c), ~PublishLastPoint(c), ~SaveFails(c), ~SendBatch(c),
             ~ResponseAcceptDataPack(c)
      PROVE  Quiet
  BY <1>4 DEF Handler, ReadFails, ReadIMEI, ResponseAcceptIMEI, ReadPacket, ParseAccepts,
              ParseRefuses, ParsePanics, PublishPanics, SaveAvlPoints, SaveFails,
              PrepareAvlPoints, AppendPoint, PrepareBatch, WgDone, CloseConn,
              Panic, logVars, dbVars, Quiet
<1> QED BY <1>1, <1>2, <1>3, <1>4 DEF Next

LEMMA QuietRounds ==
  ASSUME Quiet
  PROVE  \A d \in Conns : AnnouncedRounds(d)' = AnnouncedRounds(d)
BY DEF Quiet, AnnouncedRounds

(* Publishing, or failing to, announces the packet in hand.                *)
LEMMA PublishRounds ==
  ASSUME NEW c \in Conns, PublishLastPoint(c)
  PROVE  /\ AnnouncedRounds(c)' = AnnouncedRounds(c) \cup {Round(c)}
         /\ \A d \in Conns \ {c} : AnnouncedRounds(d)' = AnnouncedRounds(d)
         /\ rows' = rows /\ acked' = acked
         /\ errors \subseteq errors' /\ \A e \in errors' : e \in errors \/ e[1] = "publish"
<1>1. rows' = rows /\ acked' = acked
  BY DEF PublishLastPoint, dbVars
<1>2. CASE /\ published' = published \cup {Message(c, points[c])}
           /\ errors' = errors
  <2> DEFINE m == Message(c, points[c])
  <2>1. m.conn = c /\ m.round = Round(c)
    BY DEF Message
  <2> HIDE DEF m
  <2>2. published' = published \cup {m}
    BY <1>2 DEF m
  <2> QED BY <1>1, <1>2, <2>1, <2>2 DEF AnnouncedRounds
<1>3. CASE /\ errors' = errors \cup {Failure("publish", c)}
           /\ published' = published
  <2> DEFINE e == Failure("publish", c)
  <2>1. e[1] = "publish" /\ e[2] = c /\ e[3] = Round(c)
    BY DEF Failure
  <2> HIDE DEF e
  <2>2. errors' = errors \cup {e}
    BY <1>3 DEF e
  <2> QED BY <1>1, <1>3, <2>1, <2>2 DEF AnnouncedRounds
<1> QED BY <1>2, <1>3 DEF PublishLastPoint

(* What SaveAvlPoints returns is logged, and nothing else.                 *)
LEMMA SaveLogs ==
  ASSUME NEW c \in Conns, SaveFails(c) \/ SendBatch(c)
  PROVE  /\ published' = published /\ acked' = acked
         /\ errors' = errors \/ errors' = errors \cup {<<"save", c, Round(c)>>}
         /\ SaveFails(c) => errors' = errors \cup {<<"save", c, Round(c)>>} /\ rows' = rows
         /\ \A d \in Conns : AnnouncedRounds(d)' = AnnouncedRounds(d)
<1>1. /\ published' = published /\ acked' = acked
      /\ errors' = errors \/ errors' = errors \cup {<<"save", c, Round(c)>>}
      /\ SaveFails(c) => errors' = errors \cup {<<"save", c, Round(c)>>} /\ rows' = rows
  BY DEF SaveFails, PrepareAvlPointsFails, AppendPointFails, SendBatch, SaveReturns, Failure,
         PrepareBatchFails, AppendFails, dbVars
<1>2. \A e \in errors' : e \in errors \/ e[1] # "publish"
  BY <1>1
<1>3. \A d \in Conns : AnnouncedRounds(d)' = AnnouncedRounds(d)
  BY <1>1, <1>2 DEF AnnouncedRounds
<1> QED BY <1>1, <1>3

-----------------------------------------------------------------------------
(* The invariant.                                                          *)

(* The rounds of a connection change only when it publishes, and an answer *)
(* is never taken back.                                                    *)
LEMMA LineFrame ==
  ASSUME Base, [Next]_vars, NEW d \in Conns
  PROVE  /\ ~PublishLastPoint(d) => AnnouncedRounds(d)' = AnnouncedRounds(d)
         /\ acked \subseteq acked'
<1>1. ASSUME ~PublishLastPoint(d) PROVE AnnouncedRounds(d)' = AnnouncedRounds(d)
  <2>1. CASE Quiet
    BY <2>1, QuietRounds
  <2>2. ASSUME NEW c \in Conns, PublishLastPoint(c)
        PROVE  AnnouncedRounds(d)' = AnnouncedRounds(d)
    <3>1. d \in Conns \ {c}
      BY <1>1, <2>2
    <3> QED BY <2>2, <3>1, PublishRounds
  <2>3. ASSUME NEW c \in Conns, SaveFails(c) \/ SendBatch(c)
        PROVE  AnnouncedRounds(d)' = AnnouncedRounds(d)
    BY <2>3, SaveLogs
  <2>4. ASSUME NEW c \in Conns, ResponseAcceptDataPack(c)
        PROVE  AnnouncedRounds(d)' = AnnouncedRounds(d)
    BY <2>4 DEF ResponseAcceptDataPack, AnnouncedRounds
  <2> QED BY <2>1, <2>2, <2>3, <2>4, Kinds
<1>2. acked \subseteq acked'
  <2>1. ASSUME NEW c \in Conns, ResponseAcceptDataPack(c) PROVE acked \subseteq acked'
    BY <2>1 DEF ResponseAcceptDataPack
  <2> QED BY <2>1, LedgerSteps
<1> QED BY <1>1, <1>2

LEMMA NextLineOK ==
  ASSUME Base, Line, [Next]_vars, NEW d \in Conns
  PROVE  LineOK(d)'
<1>1. /\ TypeOK /\ pc \in [Conns -> Labels] /\ received[d] \in Seq(Chunks)
      /\ authenticated \in [Conns -> BOOLEAN]
      /\ LineOK(d) /\ Round(d) \in Nat
  BY NameTypes DEF Base, TypeOK, ControlTypeOK, LocalTypeOK, Line
<1>2. ASSUME pc'[d] = pc[d], received'[d] = received[d], authenticated'[d] = authenticated[d],
             ~PublishLastPoint(d)
      PROVE  LineOK(d)'
  BY <1>1, <1>2, LineFrame DEF LineOK, Closed, Round, AnsweredAt
<1>3. ASSUME NEW c \in Conns, Client(c) \/ RawSaver(c) \/ Terminate \/ UNCHANGED vars
      PROVE  LineOK(d)'
  <2>1. UNCHANGED <<pc, received, authenticated, published>> /\ ~PublishLastPoint(d)
    BY <1>1, <1>3
       DEF vars, Terminate, Crash, Client, Dial, SendIMEI, GetAccept, SendPacket, GetAck, HangUp,
           RawSaver, SaveRawData, SaveRawDataFails, AppendRawDataFails, SendRawData, localVars,
           logVars, PublishLastPoint, At, Goto
  <2> QED BY <1>2, <2>1
<1>4. ASSUME NEW c \in Conns, Serve(c) PROVE LineOK(d)'
  <2>1. UNCHANGED localVars /\ pc' = [pc EXCEPT ![c] = "read"] /\ pc[c] = "idle"
    BY <1>4 DEF Serve
  <2>2. ~PublishLastPoint(d)
    BY <1>1, <2>1 DEF PublishLastPoint, At, Goto
  <2>3. CASE c # d
    BY <1>1, <1>2, <2>1, <2>2, <2>3 DEF localVars
  <2>4. CASE c = d
    BY <1>1, <2>1, <2>2, <2>4, LineFrame DEF LineOK, Closed, AnsweredAt, Round, localVars,
                                                Working, Parsed
  <2> QED BY <2>3, <2>4
<1>5. ASSUME NEW c \in Conns \ {d}, Handler(c) PROVE LineOK(d)'
  <2>1. pc'[d] = pc[d] /\ received'[d] = received[d] /\ authenticated'[d] = authenticated[d]
    BY <1>5, HandlerFrame
  <2>2. ~PublishLastPoint(d)
    BY <1>1, <2>1 DEF PublishLastPoint, At, Goto
  <2> QED BY <1>2, <2>1, <2>2
<1>6. CASE Handler(d)
  <2>1. CASE ReadIMEI(d) \/ ReadPacket(d)
    <3>1. PICK part \in Parts : Read(d, part)
      BY <2>1, CutsAssumption DEF ReadIMEI, ReadPacket
    <3>2. PICK got \in Chunks : received'[d] = Append(received[d], got)
      BY <1>1, <3>1, ReadAppends
    <3>3. Round(d)' = Round(d) + 1
      BY <1>1, <3>2 DEF Round
    <3>4. ~PublishLastPoint(d) /\ authenticated' = authenticated
      BY <2>1 DEF ReadIMEI, ReadPacket, PublishLastPoint, At
    <3>5. AnnouncedRounds(d)' = AnnouncedRounds(d)
      BY <3>4, LineFrame
    <3>6. CASE ReadIMEI(d)
      <4>1. /\ ~authenticated[d] /\ pc[d] = "read" /\ pc'[d] \in {"accept", "done"}
        BY <1>1, <3>6 DEF ReadIMEI, At, Goto
      <4>2. Round(d) = 0 /\ AnnouncedRounds(d) = 2..0
        BY <1>1, <4>1 DEF LineOK, Closed
      <4>3. 2..0 = 2..1
        OBVIOUS
      <4> QED BY <3>3, <3>4, <3>5, <4>1, <4>2, <4>3 DEF LineOK, Closed, Working, Parsed
    <3>7. CASE ReadPacket(d)
      <4>1. authenticated[d] /\ pc[d] = "read" /\ pc'[d] = "parse"
        BY <1>1, <3>7 DEF ReadPacket, At, Goto
      <4>2. /\ Round(d) > 0 /\ AnnouncedRounds(d) = 2..Round(d)
            /\ Round(d) > 1 => AnsweredAt(d, Round(d))
        BY <1>1, <4>1 DEF LineOK, Closed
      <4>3. Round(d)' - 1 = Round(d) /\ Round(d)' > 1
        BY <1>1, <3>3, <4>2
      <4>4. Closed(d, Round(d) - 1)'
        BY <3>5, <4>2, <4>3, LineFrame DEF Closed, AnsweredAt
      <4>5. Round(d)' > 0 /\ authenticated'[d]
        BY <1>1, <3>3, <3>4, <4>1
      <4> QED BY <4>1, <4>3, <4>4, <4>5 DEF LineOK, Working, Parsed
    <3> QED BY <2>1, <3>6, <3>7
  <2>2. CASE PublishLastPoint(d)
    <3>1. /\ pc[d] = "publish" /\ pc'[d] = "prepare" /\ Round(d)' = Round(d)
          /\ authenticated' = authenticated
      BY <1>1, <2>2 DEF PublishLastPoint, At, Goto, localVars, Round
    <3>2. AnnouncedRounds(d) = 2..(Round(d) - 1) /\ Round(d) > 1
      BY <1>1, <3>1 DEF LineOK, Closed, Working, Parsed
    <3>3. AnnouncedRounds(d)' = 2..Round(d)
      <4>1. AnnouncedRounds(d)' = AnnouncedRounds(d) \cup {Round(d)}
        BY <2>2, PublishRounds
      <4> QED BY <1>1, <3>2, <4>1
    <3> QED BY <1>1, <3>1, <3>2, <3>3 DEF LineOK, Working, Parsed
  <2>3. CASE ResponseAcceptDataPack(d)
    <3>1. /\ pc[d] = "ack" /\ pc'[d] = "read" /\ Round(d)' = Round(d)
          /\ authenticated' = authenticated /\ ~PublishLastPoint(d)
      BY <1>1, <2>3 DEF ResponseAcceptDataPack, PublishLastPoint, At, Goto, localVars, Round
    <3>2. AnnouncedRounds(d)' = 2..Round(d) /\ Round(d) > 1
      BY <1>1, <3>1, LineFrame DEF LineOK, Working, Parsed
    <3>3. \E a \in acked' : a.conn = d /\ a.round = Round(d)
      <4> DEFINE a == [conn |-> d, round |-> Round(d), n |-> points[d]]
      <4>1. a \in acked' /\ a.conn = d /\ a.round = Round(d)
        BY <2>3 DEF ResponseAcceptDataPack
      <4> QED BY <4>1
    <3>4. AnsweredAt(d, Round(d))'
      BY <3>1, <3>3 DEF AnsweredAt
    <3>5. Closed(d, Round(d))'
      BY <3>1, <3>2, <3>4 DEF Closed
    <3> QED BY <1>1, <3>1, <3>2, <3>5 DEF LineOK, Working, Parsed
  <2>4. CASE ParseAccepts(d) \/ SaveAvlPoints(d)
    <3>1. /\ Round(d)' = Round(d) /\ authenticated' = authenticated
          /\ \/ pc[d] = "parse" /\ pc'[d] = "publish"
             \/ pc[d] \in {"prepare", "append"} /\ pc'[d] \in {"append", "ack"}
      BY <1>1, <2>4
         DEF ParseAccepts, SaveAvlPoints, PrepareAvlPoints, PrepareAvlPointsFails, AppendPoint,
             AppendPointFails, SendBatch, SaveReturns, At, Goto, localVars, Round
    <3>2. ~PublishLastPoint(d)
      BY <3>1 DEF PublishLastPoint, At, Goto
    <3> QED BY <1>1, <3>1, <3>2, LineFrame DEF LineOK, Closed, AnsweredAt, Working, Parsed
  <2>5. CASE ResponseAcceptIMEI(d)
    <3>1. /\ pc[d] = "accept" /\ pc'[d] = "read" /\ Round(d)' = Round(d)
          /\ authenticated'[d] /\ ~PublishLastPoint(d)
      BY <1>1, <2>5 DEF ResponseAcceptIMEI, PublishLastPoint, At, Goto, Round
    <3> QED BY <1>1, <3>1, LineFrame DEF LineOK, Closed, AnsweredAt, Working, Parsed
  <2>6. CASE \/ ReadFails(d) \/ ParseRefuses(d) \/ ParsePanics(d) \/ PublishPanics(d)
             \/ WgDone(d) \/ CloseConn(d)
    <3>1. /\ pc[d] \in {"read", "parse", "publish", "done", "close"}
          /\ pc'[d] \in {"done", "close", "gone"}
      BY <1>1, <2>6 DEF ReadFails, ParseRefuses, ParsePanics, PublishPanics, Panic, WgDone,
                        CloseConn, At, Goto
    <3>2. Round(d)' = Round(d) /\ authenticated' = authenticated
      BY <2>6 DEF ReadFails, ParseRefuses, ParsePanics, PublishPanics, Panic, WgDone, CloseConn,
                  localVars, Round
    <3> QED BY <1>1, <3>1, <3>2 DEF LineOK, Working, Parsed
  <2> QED BY <1>6, <2>1, <2>2, <2>3, <2>4, <2>5, <2>6 DEF Handler
<1> QED BY <1>3, <1>4, <1>5, <1>6 DEF Next, vars, Terminate, Crash

LEMMA NextSaves == Base /\ Line /\ [Next]_vars => SavesOK'
<1> SUFFICES ASSUME Base, Line, [Next]_vars, NEW e \in errors', e[1] = "save"
             PROVE  /\ (e[3] \in 1..Round(e[2]))'
                    /\ (pc[e[2]] \in Unsaved => e[3] < Round(e[2]))'
  BY DEF SavesOK
<1>1. e[2] \in Conns /\ e[3] \in Nat
  BY NextType DEF TypeOK, LogTypeOK
<1>2. TurnStep(e[2]) /\ Round(e[2]) \in Nat /\ Round(e[2])' \in Nat
  BY <1>1, TurnSteps, RoundGrows
<1>3. Round(e[2]) <= Round(e[2])'
  BY <1>1, RoundGrows
<1>4. CASE e \in errors
  <2>1. /\ e[3] \in 1..Round(e[2])
        /\ pc[e[2]] \in Unsaved => e[3] < Round(e[2])
    BY <1>4 DEF Line, SavesOK
  <2>2. ASSUME pc'[e[2]] \in Unsaved PROVE e[3] < Round(e[2])'
    BY <1>1, <1>2, <1>3, <2>1, <2>2 DEF TurnStep, Unsaved, Working, Parsed, Round
  <2> QED BY <1>1, <1>2, <1>3, <2>1, <2>2
<1>5. CASE e \notin errors
  <2>1. ~Quiet /\ \A c \in Conns : ~PublishLastPoint(c) /\ ~ResponseAcceptDataPack(c)
    BY <1>5, PublishRounds DEF Quiet, ResponseAcceptDataPack
  <2>2. PICK c \in Conns : SaveFails(c) \/ SendBatch(c)
    BY <2>1, Kinds
  <2>3. e[2] = c /\ e[3] = Round(c)
    BY <1>5, <2>2, SaveLogs
  <2>4. /\ pc[c] \in {"prepare", "append"} /\ pc'[c] = "ack" /\ Round(c)' = Round(c)
    BY <2>2 DEF SaveFails, PrepareAvlPointsFails, AppendPointFails, SendBatch, SaveReturns, At,
                Goto, localVars, Round, Base, TypeOK, ControlTypeOK
  <2>5. Round(c) > 1
    BY <2>4 DEF Line, LineOK, Working, Parsed
  <2> QED BY <1>2, <2>3, <2>4, <2>5 DEF Unsaved, Working, Parsed
<1> QED BY <1>4, <1>5

(* Reads, announcements and failures stay in line, however the handlers,   *)
(* their raw savers and crashes interleave.                                *)
THEOREM LineInvariant == Spec => []Line
<1>1. Init => Line
  <2> SUFFICES ASSUME Init, NEW c \in Conns PROVE LineOK(c)
    BY DEF Init, Line, SavesOK
  <2>1. pc[c] = "idle" /\ ~authenticated[c] /\ Round(c) = 0 /\ AnnouncedRounds(c) = {}
    BY DEF Init, Round, AnnouncedRounds
  <2>2. 2..0 = {}
    OBVIOUS
  <2> QED BY <2>1, <2>2 DEF LineOK, Closed, Working, Parsed
<1>2. Base /\ Line /\ [Next]_vars => Line'
  BY NextSaves, NextLineOK DEF Line
<1> QED BY <1>1, <1>2, BaseInvariant, PTL DEF Spec

-----------------------------------------------------------------------------
(* The mapping.                                                            *)

LEMMA Interval ==
  ASSUME NEW r \in Nat, r > 0
  PROVE  Cardinality(2..r) = r - 1
BY FS_Interval

(* Packet k of the ledger is read k+1 of the connection.                   *)
LEMMA MappedNames ==
  ASSUME Base, NEW c \in Conns, NEW k \in Nat
  PROVE  /\ TheLedger!Stored(c, k) = StoredIndices(c, k + 1)
         /\ <<c, k>> \in LedgerFailed <=> <<"save", c, k + 1>> \in errors
         /\ TheLedger!Acknowledged(c, k) <=> AnsweredAt(c, k + 1)
<1>1. TheLedger!Stored(c, k) = StoredIndices(c, k + 1)
  <2>1. \A m \in rows : m.round \in Nat
    BY DEF Base, TypeOK, DBTypeOK, Messages
  <2>2. \A i : i \in TheLedger!Stored(c, k) <=>
              \E m \in rows : m.conn = c /\ m.round - 1 = k /\ m.index = i
    <3>1. ASSUME NEW i, i \in TheLedger!Stored(c, k)
          PROVE  \E m \in rows : m.conn = c /\ m.round - 1 = k /\ m.index = i
      <4>1. PICK x \in LedgerTable : x[1] = c /\ x[2] = k /\ x[3] = i
        BY <3>1 DEF TheLedger!Stored
      <4>2. PICK m \in rows : x = <<m.conn, m.round - 1, m.index>>
        BY DEF LedgerTable
      <4> QED BY <4>1, <4>2
    <3>2. ASSUME NEW m \in rows, m.conn = c, m.round - 1 = k
          PROVE  m.index \in TheLedger!Stored(c, k)
      <4>1. <<c, k, m.index>> \in LedgerTable
        BY <3>2 DEF LedgerTable
      <4> QED BY <4>1 DEF TheLedger!Stored
    <3> QED BY <3>1, <3>2
  <2>3. \A m \in rows : m.round - 1 = k <=> m.round = k + 1
    BY <2>1
  <2>4. \A i : i \in StoredIndices(c, k + 1) <=>
              \E m \in rows : m.conn = c /\ m.round = k + 1 /\ m.index = i
    BY DEF StoredIndices
  <2> QED BY <2>2, <2>3, <2>4
<1>2. <<c, k>> \in LedgerFailed <=> <<"save", c, k + 1>> \in errors
  <2>1. \A e \in errors : e = <<e[1], e[2], e[3]>> /\ e[3] \in Nat
    BY DEF Base, TypeOK, LogTypeOK
  <2>2. <<c, k>> \in LedgerFailed <=>
          \E e \in errors : e[1] = "save" /\ e[2] = c /\ e[3] - 1 = k
    BY DEF LedgerFailed
  <2>3. \A e \in errors : e[3] - 1 = k <=> e[3] = k + 1
    BY <2>1
  <2> QED BY <2>1, <2>2, <2>3
<1>3. TheLedger!Acknowledged(c, k) <=> AnsweredAt(c, k + 1)
  <2>1. \A a \in acked : a.round \in Nat
    BY DEF Base, TypeOK, LogTypeOK
  <2>2. ASSUME TheLedger!Acknowledged(c, k) PROVE AnsweredAt(c, k + 1)
    <3>1. PICK x \in LedgerAcknowledged : x[1] = c /\ x[2] = k
      BY <2>2 DEF TheLedger!Acknowledged
    <3>2. PICK a \in acked : x = <<a.conn, a.round - 1, a.n>>
      BY DEF LedgerAcknowledged
    <3> QED BY <2>1, <3>1, <3>2 DEF AnsweredAt
  <2>3. ASSUME NEW a \in acked, a.conn = c, a.round = k + 1
        PROVE  TheLedger!Acknowledged(c, k)
    <3>1. <<c, k, a.n>> \in LedgerAcknowledged
      BY <2>3 DEF LedgerAcknowledged
    <3> QED BY <3>1 DEF TheLedger!Acknowledged
  <2> QED BY <2>2, <2>3 DEF AnsweredAt
<1> QED BY <1>1, <1>2, <1>3

(* The packet in hand is the last one announced, and what is known of it.  *)
LEMMA InHand ==
  ASSUME Base, Ledger, Line, NEW c \in Conns, pc[c] \in {"prepare", "append", "ack"}
  PROVE  /\ Round(c) - 1 \in Nat /\ Round(c) - 1 > 0
         /\ LedgerAnnounced[c] = Round(c) - 1
         /\ points[c] \in {p.n : p \in Packets}
         /\ pc[c] # "ack" => ~TheLedger!Settled(c, Round(c) - 1)
         /\ pc[c] = "ack" =>
              /\ TheLedger!Settled(c, Round(c) - 1)
              /\ TheLedger!Stored(c, Round(c) - 1) # {} =>
                   TheLedger!Stored(c, Round(c) - 1) = 1..points[c]
         /\ ~TheLedger!Acknowledged(c, Round(c) - 1)
<1> DEFINE r == Round(c)
           k == Round(c) - 1
<1>1. r \in Nat /\ r > 1 /\ AnnouncedRounds(c) = 2..r
  BY NameTypes DEF Line, LineOK, Working, Parsed
<1>2. k \in Nat /\ k > 0 /\ k + 1 = r
  BY <1>1
<1>3. LedgerAnnounced[c] = k
  BY <1>1, Interval DEF LedgerAnnounced
<1>4. /\ TheLedger!Stored(c, k) = StoredIndices(c, r)
      /\ <<c, k>> \in LedgerFailed <=> <<"save", c, r>> \in errors
      /\ TheLedger!Acknowledged(c, k) <=> AnsweredAt(c, r)
  <2> HIDE DEF r, k
  <2> QED BY <1>2, MappedNames
<1>5. /\ points[c] = received[c][r].packet.n /\ points[c] > 0
      /\ points[c] \in {p.n : p \in Packets}
  <2>1. points[c] = received[c][r].packet.n
    BY PointsOfPacket DEF Parsed
  <2>2. points[c] > 0
    BY DEF Base, TurnOK, Parsed
  <2>3. received[c][r].packet \in Packets \cup {NoPacket}
    <3>1. received[c] \in Seq(Chunks) /\ r = Len(received[c])
      BY DEF Base, TypeOK, LocalTypeOK, Round
    <3>2. received[c][r] \in Chunks
      BY <1>1, <3>1, ElementOfSeq
    <3> QED BY <3>2, ChunkFields
  <2> QED BY <2>1, <2>2, <2>3 DEF NoPacket
<1>6. ASSUME pc[c] # "ack" PROVE ~TheLedger!Settled(c, k)
  <2>1. pc[c] \in Unsaved
    BY <1>6 DEF Unsaved, Working, Parsed
  <2>2. StoredIndices(c, r) = {}
    BY <1>1, <2>1 DEF Ledger, RowsOK, StoredIndices
  <2>3. <<"save", c, r>> \notin errors
    BY <1>1, <2>1 DEF Line, SavesOK
  <2> QED BY <1>4, <2>2, <2>3 DEF TheLedger!Settled
<1>7. ASSUME pc[c] = "ack"
      PROVE  /\ TheLedger!Settled(c, k)
             /\ TheLedger!Stored(c, k) # {} => TheLedger!Stored(c, k) = 1..points[c]
  <2>1. StoredIndices(c, r) = 1..points[c] \/ <<"save", c, r>> \in errors
    BY <1>7 DEF Ledger, TurnSettled, Settled
  <2>2. StoredIndices(c, r) # {} => StoredIndices(c, r) = 1..points[c]
    BY <1>5 DEF Ledger, BatchesAreAtomic, StoredIndices
  <2>3. 1 \in 1..points[c]
    <3> DEFINE n == points[c]
    <3>1. n \in 0..255
      BY DEF Base, TypeOK, LocalTypeOK
    <3>2. n > 0
      BY <1>5
    <3> HIDE DEF n, r, k
    <3>3. 1 \in 1..n
      BY <3>1, <3>2
    <3> QED BY <3>3 DEF n
  <2> QED BY <1>4, <2>1, <2>2, <2>3 DEF TheLedger!Settled
<1>8. ~TheLedger!Acknowledged(c, k)
  <2>1. ~AnsweredAt(c, r)
    BY <1>1 DEF Ledger, AcksOK, AnsweredAt, Working, Parsed
  <2> QED BY <1>4, <2>1
<1> QED BY <1>2, <1>3, <1>5, <1>6, <1>7, <1>8

-----------------------------------------------------------------------------
(* The steps.                                                              *)

LedgerState == <<LedgerAnnounced, LedgerTable, LedgerFailed, LedgerAcknowledged>>

(* What was logged besides saves the ledger does not see.                  *)
LEMMA SameFailures ==
  ASSUME errors \subseteq errors', \A e \in errors' : e \in errors \/ e[1] # "save"
  PROVE  LedgerFailed' = LedgerFailed
BY DEF LedgerFailed

LEMMA OneMoreFailure ==
  ASSUME NEW c \in Conns, errors' = errors \cup {<<"save", c, Round(c)>>}
  PROVE  LedgerFailed' = LedgerFailed \cup {<<c, Round(c) - 1>>}
<1> DEFINE e == <<"save", c, Round(c)>>
<1>1. e[1] = "save" /\ e[2] = c /\ e[3] = Round(c)
  OBVIOUS
<1>2. errors' = errors \cup {e}
  OBVIOUS
<1> HIDE DEF e
<1>3. {x \in errors' : x[1] = "save"} = {x \in errors : x[1] = "save"} \cup {e}
  BY <1>1, <1>2
<1> QED BY <1>1, <1>3 DEF LedgerFailed

LEMMA SameAnnounced ==
  ASSUME \A d \in Conns : AnnouncedRounds(d)' = AnnouncedRounds(d)
  PROVE  LedgerAnnounced' = LedgerAnnounced
BY DEF LedgerAnnounced

LEMMA QuietMapped ==
  ASSUME Quiet
  PROVE  UNCHANGED LedgerState
<1>1. LedgerAnnounced' = LedgerAnnounced
  BY QuietRounds, SameAnnounced
<1>2. LedgerFailed' = LedgerFailed
  BY SameFailures DEF Quiet
<1> QED BY <1>1, <1>2 DEF Quiet, LedgerState, LedgerTable, LedgerAcknowledged

LEMMA PublishMapped ==
  ASSUME Base, Ledger, Line, NEW c \in Conns, PublishLastPoint(c)
  PROVE  TheLedger!Announce(c)
<1> DEFINE r == Round(c)
<1>1. /\ r \in Nat /\ r > 1 /\ AnnouncedRounds(c) = 2..(r - 1)
      /\ r - 1 > 1 => AnsweredAt(c, r - 1)
  BY NameTypes DEF PublishLastPoint, At, Line, LineOK, Closed, Working, Parsed
<1>2. LedgerAnnounced[c] = r - 2
  <2>1. r - 1 \in Nat /\ r - 1 > 0
    BY <1>1
  <2>2. Cardinality(2..(r - 1)) = (r - 1) - 1
    BY <2>1, Interval
  <2> QED BY <1>1, <2>2 DEF LedgerAnnounced
<1>3. Cardinality(AnnouncedRounds(c)') = r - 1
  <2>1. AnnouncedRounds(c)' = AnnouncedRounds(c) \cup {r}
    BY PublishRounds
  <2>2. AnnouncedRounds(c)' = 2..r
    BY <1>1, <2>1
  <2> QED BY <1>1, <2>2, Interval
<1>4. LedgerAnnounced' = [LedgerAnnounced EXCEPT ![c] = @ + 1]
  <2>1. \A d \in Conns \ {c} : AnnouncedRounds(d)' = AnnouncedRounds(d)
    BY PublishRounds
  <2>2. LedgerAnnounced[c] + 1 = r - 1
    BY <1>1, <1>2
  <2> QED BY <1>3, <2>1, <2>2 DEF LedgerAnnounced
<1>5. LedgerAnnounced[c] > 0 => TheLedger!Acknowledged(c, LedgerAnnounced[c])
  <2> HIDE DEF r
  <2> SUFFICES ASSUME r - 2 > 0 PROVE TheLedger!Acknowledged(c, r - 2)
    BY <1>2
  <2>1. r - 2 \in Nat /\ (r - 2) + 1 = r - 1 /\ r - 1 > 1
    BY <1>1
  <2>2. AnsweredAt(c, (r - 2) + 1)
    BY <1>1, <2>1
  <2> QED BY <2>1, <2>2, MappedNames
<1>6. LedgerFailed' = LedgerFailed
  BY PublishRounds, SameFailures
<1>7. LedgerTable' = LedgerTable /\ LedgerAcknowledged' = LedgerAcknowledged
  BY PublishRounds DEF LedgerTable, LedgerAcknowledged
<1> QED BY <1>4, <1>5, <1>6, <1>7 DEF TheLedger!Announce

LEMMA SaveMapped ==
  ASSUME Base, Ledger, Line, NEW c \in Conns, SaveFails(c) \/ SendBatch(c)
  PROVE  \/ TheLedger!InsertFails(c)
         \/ \E n \in {p.n : p \in Packets} : TheLedger!Insert(c, n)
<1> DEFINE k == Round(c) - 1
<1>1. pc[c] \in {"prepare", "append"}
  BY DEF SaveFails, PrepareAvlPointsFails, AppendPointFails, SendBatch, At
<1>2. /\ k > 0 /\ LedgerAnnounced[c] = k /\ ~TheLedger!Settled(c, k)
      /\ points[c] \in {p.n : p \in Packets}
  BY <1>1, InHand
<1>3. LedgerAnnounced' = LedgerAnnounced
  BY SaveLogs, SameAnnounced
<1>4. LedgerAcknowledged' = LedgerAcknowledged
  BY SaveLogs DEF LedgerAcknowledged
<1>5. CASE rows' = rows /\ errors' = errors \cup {<<"save", c, Round(c)>>}
  <2>1. LedgerTable' = LedgerTable
    BY <1>5 DEF LedgerTable
  <2>2. LedgerFailed' = LedgerFailed \cup {<<c, k>>}
    BY <1>5, OneMoreFailure
  <2> QED BY <1>2, <1>3, <1>4, <2>1, <2>2 DEF TheLedger!InsertFails
<1>6. CASE /\ rows' = rows \cup Batch(c) /\ appended[c] = points[c]
           /\ errors' = errors \/ errors' = errors \cup {<<"save", c, Round(c)>>}
  <2>1. LedgerTable' = LedgerTable \cup {<<c, k, i>> : i \in 1..points[c]}
    <3>1. Batch(c) = {Message(c, i) : i \in 1..points[c]}
      BY <1>6 DEF Batch
    <3>2. \A i \in 1..points[c] : /\ Message(c, i).conn = c /\ Message(c, i).round = Round(c)
                                  /\ Message(c, i).index = i
      BY DEF Message
    <3>3. {<<m.conn, m.round - 1, m.index>> : m \in Batch(c)}
            = {<<c, k, i>> : i \in 1..points[c]}
      BY <3>1, <3>2
    <3> QED BY <1>6, <3>3 DEF LedgerTable
  <2>2. LedgerFailed' \in {LedgerFailed, LedgerFailed \cup {<<c, k>>}}
    <3>1. CASE errors' = errors
      BY <3>1 DEF LedgerFailed
    <3>2. CASE errors' = errors \cup {<<"save", c, Round(c)>>}
      BY <3>2, OneMoreFailure
    <3> QED BY <1>6, <3>1, <3>2
  <2>3. TheLedger!Insert(c, points[c])
    BY <1>2, <1>3, <1>4, <2>1, <2>2 DEF TheLedger!Insert
  <2> QED BY <1>2, <2>3
<1>7. CASE SaveFails(c)
  BY <1>5, <1>7, SaveLogs
<1>8. CASE SendBatch(c)
  <2>1. /\ appended[c] = points[c]
        /\ \/ rows' = rows /\ errors' = errors \cup {<<"save", c, Round(c)>>}
           \/ rows' = rows \cup Batch(c) /\ errors' = errors \cup {<<"save", c, Round(c)>>}
           \/ rows' = rows \cup Batch(c) /\ errors' = errors
    BY <1>8 DEF SendBatch, SendPoints, SaveReturns, Failure
  <2> QED BY <1>5, <1>6, <2>1
<1> QED BY <1>7, <1>8

LEMMA AnswerMapped ==
  ASSUME Base, Ledger, Line, NEW c \in Conns, ResponseAcceptDataPack(c)
  PROVE  \E n \in {p.n : p \in Packets} : TheLedger!Acknowledge(c, n)
<1> DEFINE k == Round(c) - 1
<1>1. pc[c] = "ack"
  BY DEF ResponseAcceptDataPack, At
<1>2. /\ k > 0 /\ LedgerAnnounced[c] = k /\ points[c] \in {p.n : p \in Packets}
      /\ TheLedger!Settled(c, k) /\ ~TheLedger!Acknowledged(c, k)
      /\ TheLedger!Stored(c, k) # {} => TheLedger!Stored(c, k) = 1..points[c]
  BY <1>1, InHand
<1>3. UNCHANGED <<rows, published, errors>>
  BY DEF ResponseAcceptDataPack, dbVars
<1>4. UNCHANGED <<LedgerAnnounced, LedgerTable, LedgerFailed>>
  <2>1. \A d \in Conns : AnnouncedRounds(d)' = AnnouncedRounds(d)
    BY <1>3 DEF AnnouncedRounds
  <2> QED BY <1>3, <2>1, SameAnnounced DEF LedgerTable, LedgerFailed
<1>5. LedgerAcknowledged' = LedgerAcknowledged \cup {<<c, k, points[c]>>}
  <2> DEFINE a == [conn |-> c, round |-> Round(c), n |-> points[c]]
  <2>1. acked' = acked \cup {a}
    BY DEF ResponseAcceptDataPack
  <2>2. a.conn = c /\ a.round = Round(c) /\ a.n = points[c]
    OBVIOUS
  <2> HIDE DEF a
  <2> QED BY <2>1, <2>2 DEF LedgerAcknowledged
<1>6. TheLedger!Acknowledge(c, points[c])
  BY <1>2, <1>4, <1>5 DEF TheLedger!Acknowledge
<1> QED BY <1>2, <1>6

(* Handlers, clients, savers and crashes do to the packets of a connection *)
(* only what the ledger allows: announced in order and one at a time, then *)
(* stored at once or reported, then acknowledged; nothing is taken back.   *)
THEOREM HandlersImplementLedger == Spec => ImplementsLedger
<1>1. Init => TheLedger!Init
  <2> SUFFICES ASSUME Init PROVE TheLedger!Init
    OBVIOUS
  <2>1. \A c \in Conns : AnnouncedRounds(c) = {}
    BY DEF Init, AnnouncedRounds
  <2>2. \A c \in Conns : Cardinality(AnnouncedRounds(c)) = 0
    BY <2>1, FS_EmptySet
  <2> QED BY <2>2 DEF Init, DBInit, TheLedger!Init, LedgerAnnounced, LedgerTable, LedgerFailed,
                      LedgerAcknowledged
<1>2. Base /\ Ledger /\ Line /\ [Next]_vars => [TheLedger!Next]_(TheLedger!vars)
  <2> SUFFICES ASSUME Base, Ledger, Line, [Next]_vars
               PROVE  TheLedger!Next \/ UNCHANGED LedgerState
    BY DEF TheLedger!vars, LedgerState
  <2>1. CASE Quiet
    BY <2>1, QuietMapped
  <2>2. ASSUME NEW c \in Conns, PublishLastPoint(c) PROVE TheLedger!Next
    BY <2>2, PublishMapped DEF TheLedger!Next
  <2>3. ASSUME NEW c \in Conns, SaveFails(c) \/ SendBatch(c) PROVE TheLedger!Next
    BY <2>3, SaveMapped DEF TheLedger!Next
  <2>4. ASSUME NEW c \in Conns, ResponseAcceptDataPack(c) PROVE TheLedger!Next
    BY <2>4, AnswerMapped DEF TheLedger!Next
  <2> QED BY <2>1, <2>2, <2>3, <2>4, Kinds
<1> QED BY <1>1, <1>2, BaseInvariant, LedgerInvariant, LineInvariant, PTL
        DEF Spec, ImplementsLedger, TheLedger!Spec
=============================================================================
