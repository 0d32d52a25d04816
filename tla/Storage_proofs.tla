--------------------------- MODULE Storage_proofs ---------------------------
(***************************************************************************)
(* What HandleConnection promises of its storage: no raw buffer is         *)
(* forgotten, the pool is balanced, and nothing reaches the table that was *)
(* not announced. Proved from the invariants of Ledger_proofs.             *)
(***************************************************************************)
EXTENDS Ledger_proofs

(* The first read of a connection is that of the IMEI.                     *)
FirstRead ==
  \A c \in Conns : pc[c] \in {"idle", "read"} /\ ~authenticated[c] => received[c] = <<>>

(* The calls that have a batch in hand.                                    *)
PointsJobs == {PointsJob(c) : c \in {x \in Conns : pc[x] = "append"}}
RawJobs == {RawJob(j) : j \in saving}

Pool ==
  /\ IsFiniteSet(held)
  /\ PoolSlotsBalanced

(* From PublishLastPoint on, the last point of the packet in hand was      *)
(* published, or the failure was logged.                                   *)
IsAnnounced(c) == Message(c, points[c]) \in published \/ Failure("publish", c) \in errors
Announced == \A c \in Conns : pc[c] \in {"prepare", "append", "ack"} => IsAnnounced(c)

Storage ==
  /\ FirstRead
  /\ NoRawBufferForgotten
  /\ Pool
  /\ Announced
  /\ StoreFollowsPublish
-----------------------------------------------------------------------------
(* Raw buffers.                                                            *)

LEMMA NextFirstRead == Base /\ Identity /\ FirstRead /\ [Next]_vars => FirstRead'
<1> SUFFICES ASSUME Base, Identity, FirstRead, [Next]_vars, NEW d \in Conns,
                    pc'[d] \in {"idle", "read"}, ~authenticated'[d]
             PROVE  received'[d] = <<>>
  BY DEF FirstRead
<1>1. pc \in [Conns -> Labels] /\ authenticated \in [Conns -> BOOLEAN]
  BY DEF Base, TypeOK, ControlTypeOK, LocalTypeOK
<1>2. CASE UNCHANGED <<pc, localVars>>
  BY <1>2 DEF FirstRead, localVars
<1>3. ASSUME NEW c \in Conns, Client(c) \/ RawSaver(c) \/ Terminate \/ UNCHANGED vars
      PROVE  UNCHANGED <<pc, localVars>>
  BY <1>3 DEF vars, Terminate, Crash, Client, Dial, SendIMEI, GetAccept, SendPacket, GetAck,
              HangUp, RawSaver, SaveRawData, SaveRawDataFails, AppendRawDataFails, SendRawData
<1>4. ASSUME NEW c \in Conns, Serve(c) PROVE received'[d] = <<>>
  BY <1>1, <1>4 DEF Serve, FirstRead, localVars
<1>5. ASSUME NEW c \in Conns \ {d}, Handler(c) PROVE received'[d] = <<>>
  BY <1>5, HandlerFrame DEF FirstRead
<1>6. ASSUME Handler(d) PROVE UNCHANGED <<pc, localVars>>
  <2>1. CASE ResponseAcceptIMEI(d)
    BY <1>1, <2>1 DEF ResponseAcceptIMEI
  <2>2. CASE ResponseAcceptDataPack(d)
    <3>1. authenticated[d] /\ authenticated' = authenticated
      BY <2>2 DEF ResponseAcceptDataPack, At, localVars, Identity, Working, Parsed
    <3> QED BY <3>1
  <2>3. CASE \/ ReadFails(d) \/ ReadIMEI(d) \/ ReadPacket(d) \/ ParseAccepts(d)
             \/ ParseRefuses(d) \/ PublishLastPoint(d) \/ SaveAvlPoints(d) \/ WgDone(d)
             \/ CloseConn(d) \/ ParsePanics(d) \/ PublishPanics(d)
    <3>1. pc'[d] \notin {"idle", "read"}
      BY <1>1, <2>3
         DEF ParsePanics, PublishPanics, Panic,
             ReadFails, ReadIMEI, ReadPacket, ParseAccepts, ParseRefuses, PublishLastPoint,
             SaveAvlPoints, PrepareAvlPoints, PrepareAvlPointsFails, AppendPoint,
             AppendPointFails, SendBatch, SaveReturns, WgDone, CloseConn, At, Goto
    <3> QED BY <3>1
  <2> QED BY <1>6, <2>1, <2>2, <2>3 DEF Handler
<1> QED BY <1>2, <1>3, <1>4, <1>5, <1>6 DEF Next, vars, Terminate, Crash

Remembered(c, r) ==
  \/ \E j \in spawned \cup saving \cup payloads : j.conn = c /\ j.round = r
  \/ <<"raw", c, r>> \in errors

(* A raw buffer passes from spawned to saving to payloads, and leaves this *)
(* path only for the log of errors.                                        *)
LEMMA StaysRemembered ==
  ASSUME Base, [Next]_vars, NEW c, NEW r, Remembered(c, r)
  PROVE  Remembered(c, r)'
<1>1. errors \subseteq errors'
  BY LedgerSteps
<1>2. ASSUME spawned \subseteq spawned', saving \subseteq saving', payloads \subseteq payloads'
      PROVE  Remembered(c, r)'
  BY <1>1, <1>2 DEF Remembered
<1>3. CASE UNCHANGED <<rawVars, payloads>>
  BY <1>2, <1>3 DEF rawVars
<1>4. ASSUME NEW d \in Conns, Client(d) \/ Serve(d) PROVE UNCHANGED <<rawVars, payloads>>
  BY <1>4 DEF Client, Dial, SendIMEI, GetAccept, SendPacket, GetAck, HangUp, Serve, dbVars
<1>10. CASE UNCHANGED vars \/ Terminate
  BY <1>3, <1>10 DEF vars, Terminate, Crash, dbVars
<1>5. ASSUME NEW d \in Conns, Handler(d) PROVE Remembered(c, r)'
  <2>1. CASE ReadPacket(d)
    BY <1>2, <2>1 DEF ReadPacket, dbVars
  <2>2. CASE ~ReadPacket(d)
    <3>1. UNCHANGED <<rawVars, payloads>>
      BY <1>5, <2>2
         DEF Handler, ReadFails, ReadIMEI, ResponseAcceptIMEI, ParseAccepts, ParseRefuses,
             ParsePanics, PublishLastPoint, PublishPanics, SaveAvlPoints, PrepareAvlPoints,
             PrepareAvlPointsFails, AppendPoint, AppendPointFails, SendBatch, PrepareBatch,
             PrepareBatchFails, AppendFails, SendPoints, ResponseAcceptDataPack, WgDone,
             CloseConn, Panic, dbVars
    <3> QED BY <1>3, <3>1
  <2> QED BY <2>1, <2>2
<1>6. ASSUME NEW j \in spawned, SaveRawData(j) PROVE Remembered(c, r)'
  <2>1. /\ spawned' = spawned \ {j} /\ saving' = saving \cup {RawPayload(j)}
        /\ payloads' = payloads
    BY <1>6 DEF SaveRawData, PrepareBatch
  <2>2. RawPayload(j).conn = j.conn /\ RawPayload(j).round = j.round
    BY DEF RawPayload
  <2> QED BY <1>1, <2>1, <2>2 DEF Remembered
<1>7. ASSUME NEW j \in spawned, SaveRawDataFails(j) PROVE Remembered(c, r)'
  <2>1. /\ spawned' = spawned \ {j} /\ UNCHANGED <<saving, payloads>>
        /\ <<"raw", j.conn, j.round>> \in errors'
    BY <1>7 DEF SaveRawDataFails, PrepareBatchFails, RawErrors, RawJob, dbVars
  <2> QED BY <1>1, <2>1 DEF Remembered
<1>8. ASSUME NEW j \in saving, AppendRawDataFails(j) PROVE Remembered(c, r)'
  <2>1. /\ saving' = saving \ {j} /\ UNCHANGED <<spawned, payloads>>
        /\ <<"raw", j.conn, j.round>> \in errors'
    BY <1>8 DEF AppendRawDataFails, AppendFails, RawErrors, RawJob
  <2> QED BY <1>1, <2>1 DEF Remembered
<1>9. ASSUME NEW j \in saving, SendRawData(j) PROVE Remembered(c, r)'
  <2>1. /\ saving' = saving \ {j} /\ spawned' = spawned /\ payloads \subseteq payloads'
        /\ j \in payloads' \/ <<"raw", j.conn, j.round>> \in errors'
    BY <1>9 DEF SendRawData, SendPayload, RawErrors, RawJob
  <2> QED BY <1>1, <2>1 DEF Remembered
<1> QED BY <1>3, <1>4, <1>5, <1>6, <1>7, <1>8, <1>9, <1>10 DEF Next, RawSaver

LEMMA NextRemembers ==
  Base /\ FirstRead /\ NoRawBufferForgotten /\ [Next]_vars => NoRawBufferForgotten'
<1> SUFFICES ASSUME Base, FirstRead, NoRawBufferForgotten, [Next]_vars,
                    NEW c \in Conns, NEW r \in 2..Len(received'[c])
             PROVE  Remembered(c, r)'
  BY DEF NoRawBufferForgotten, Remembered
<1>1. /\ received[c] \in Seq(Chunks) /\ Len(received[c]) \in Nat /\ TypeOK
      /\ heap = received
  BY DEF Base, BuffersFresh, TypeOK, LocalTypeOK
<1>2. CASE r <= Len(received[c])
  BY <1>1, <1>2, StaysRemembered DEF NoRawBufferForgotten, Remembered
<1>3. CASE r > Len(received[c])
  <2>1. received'[c] # received[c]
    BY <1>1, <1>3
  <2>2. ReadIMEI(c) \/ ReadPacket(c)
    <3>1. ASSUME NEW d \in Conns \ {c}, Handler(d) PROVE received'[c] = received[c]
      BY <3>1, HandlerFrame
    <3>2. ASSUME NEW d \in Conns, Client(d) \/ Serve(d) \/ RawSaver(d)
          PROVE  received' = received
      BY <3>2 DEF Client, Dial, SendIMEI, GetAccept, SendPacket, GetAck, HangUp, Serve, RawSaver,
                  SaveRawData, SaveRawDataFails, AppendRawDataFails, SendRawData, localVars
    <3>3. ASSUME Handler(c), ~ReadIMEI(c), ~ReadPacket(c) PROVE received' = received
      BY <3>3
         DEF Handler, ReadFails, ResponseAcceptIMEI, ParseAccepts, ParseRefuses, ParsePanics,
             PublishLastPoint, PublishPanics, SaveAvlPoints, PrepareAvlPoints,
             PrepareAvlPointsFails, AppendPoint, AppendPointFails, SendBatch,
             ResponseAcceptDataPack, WgDone, CloseConn, Panic, localVars
    <3>4. CASE UNCHANGED vars \/ Terminate
      BY <2>1, <3>4 DEF vars, Terminate, Crash, localVars
    <3> QED BY <2>1, <3>1, <3>2, <3>3, <3>4 DEF Next
  <2>3. PICK part \in Parts : Read(c, part)
    BY <2>2, CutsAssumption DEF ReadIMEI, ReadPacket
  <2>4. Len(received'[c]) = Len(received[c]) + 1
    BY <1>1, <2>3, ReadAppends
  <2>5. r = Len(received[c]) + 1
    BY <1>1, <1>3, <2>4
  <2>6. ReadPacket(c)
    <3>1. CASE ReadIMEI(c)
      <4>1. received[c] = <<>>
        BY <3>1 DEF ReadIMEI, At, FirstRead
      <4> QED BY <2>4, <4>1
    <3> QED BY <2>2, <3>1
  <2>7. [conn |-> c, round |-> Round(c) + 1, buf |-> Len(heap'[c])] \in spawned'
    BY <2>6 DEF ReadPacket
  <2> QED BY <2>5, <2>7 DEF Remembered, Round
<1> QED BY <1>1, <1>2, <1>3
-----------------------------------------------------------------------------
(* The pool.                                                               *)

(* The jobs of handlers other than that of c, and of c's, if it has one.   *)
Others(c) == {PointsJob(d) : d \in {x \in Conns \ {c} : pc[x] = "append"}}
Own(c) == IF pc[c] = "append" THEN {PointsJob(c)} ELSE {}

LEMMA OwnAndOthers ==
  ASSUME NEW c \in Conns
  PROVE  /\ PointsJobs = Others(c) \cup Own(c)
         /\ PointsJob(c) \notin Others(c)
         /\ PointsJob(c) \notin RawJobs
         /\ \A j \in saving : RawJob(j) \notin PointsJobs
<1>1. PointsJobs = Others(c) \cup Own(c)
  BY DEF PointsJobs, Others, Own
<1>2. PointsJob(c) \notin Others(c)
  BY DEF Others, PointsJob
<1>3. \A d, j : PointsJob(d) # RawJob(j)
  BY DEF PointsJob, RawJob
<1> QED BY <1>1, <1>2, <1>3 DEF PointsJobs, RawJobs

(* Two savers of one read hold the same row: its data is what the read     *)
(* returned, its identity that of the connection.                          *)
LEMMA OneSaverPerRead ==
  ASSUME Base, Identity, NEW i \in saving, NEW j \in saving, RawJob(i) = RawJob(j)
  PROVE  i = j
<1>1. i \in Payloads /\ j \in Payloads
  BY DEF Base, TypeOK, RawTypeOK
<1>2. i.conn = j.conn /\ i.round = j.round
  BY DEF RawJob
<1>3. i.data = j.data /\ i.imei = j.imei
  BY <1>2 DEF Base, BuffersFresh, Identity
<1> QED BY <1>1, <1>2, <1>3 DEF Payloads

LEMMA PoolTakes ==
  ASSUME Pool, NEW job, Cardinality(held) < MaxOpenConns, held' = held \cup {job}
  PROVE  IsFiniteSet(held') /\ Cardinality(held') <= MaxOpenConns
<1>1. IsFiniteSet(held) /\ Cardinality(held) \in Nat /\ MaxOpenConns \in Nat
  BY FS_CardinalityType, MaxOpenConnsAssumption DEF Pool
<1>2. /\ IsFiniteSet(held')
      /\ Cardinality(held') = Cardinality(held) \/ Cardinality(held') = Cardinality(held) + 1
  BY <1>1, FS_AddElement
<1> QED BY <1>1, <1>2

LEMMA PoolGives ==
  ASSUME Pool, held' \subseteq held
  PROVE  IsFiniteSet(held') /\ Cardinality(held') <= MaxOpenConns
<1>1. /\ IsFiniteSet(held) /\ Cardinality(held) \in Nat /\ MaxOpenConns \in Nat
      /\ Cardinality(held) <= MaxOpenConns
  BY FS_CardinalityType, MaxOpenConnsAssumption DEF Pool, PoolSlotsBalanced
<1>2. /\ IsFiniteSet(held') /\ Cardinality(held') \in Nat
      /\ Cardinality(held') <= Cardinality(held)
  BY <1>1, FS_Subset, FS_CardinalityType
<1> QED BY <1>1, <1>2

Balanced == Running => held = PointsJobs \cup RawJobs

LEMMA HandlerBalances ==
  ASSUME Base, Pool, NEW c \in Conns, Handler(c)
  PROVE  Pool'
<1>1. /\ Balanced /\ pc \in [Conns -> Labels] /\ Running
      /\ PointsJobs = Others(c) \cup Own(c)
      /\ (PointsJobs = Others(c) \cup Own(c))'
      /\ PointsJob(c) \notin Others(c) /\ PointsJob(c) \notin RawJobs
  <2>1. pc \in [Conns -> Labels] /\ Balanced
    BY DEF Base, TypeOK, ControlTypeOK, Pool, PoolSlotsBalanced, Balanced, PointsJobs, RawJobs
  <2>2. Running
    BY DEF Handler, ReadFails, ReadIMEI, ResponseAcceptIMEI, ReadPacket, ParseAccepts,
           ParseRefuses, ParsePanics, PublishLastPoint, PublishPanics, SaveAvlPoints,
           PrepareAvlPoints, PrepareAvlPointsFails, AppendPoint, AppendPointFails, SendBatch,
           ResponseAcceptDataPack, WgDone, CloseConn, At
  <2>3. (PointsJobs = Others(c) \cup Own(c))'
    BY DEF PointsJobs, Others, Own
  <2> QED BY <2>1, <2>2, <2>3, OwnAndOthers
<1>2. Others(c)' = Others(c)
  <2>1. \A d \in Conns \ {c} : /\ pc'[d] = pc[d]
                                /\ PointsJob(d)' = PointsJob(d)
    BY HandlerFrame DEF PointsJob, Round
  <2> QED BY <2>1 DEF Others
<1>3. UNCHANGED saving
  BY DEF Handler, ReadFails, ReadIMEI, ResponseAcceptIMEI, ReadPacket, ParseAccepts, ParseRefuses,
         ParsePanics, PublishPanics, Panic,
         PublishLastPoint, SaveAvlPoints, PrepareAvlPoints, PrepareAvlPointsFails, AppendPoint,
         AppendPointFails, SendBatch, ResponseAcceptDataPack, WgDone, CloseConn, rawVars
<1>4. ASSUME IsFiniteSet(held') /\ Cardinality(held') <= MaxOpenConns,
             held' = Others(c) \cup Own(c)' \cup RawJobs, UNCHANGED saving
      PROVE  Pool'
  <2>1. RawJobs' = RawJobs
    BY <1>4 DEF RawJobs, RawJob
  <2>2. Balanced'
    BY <1>1, <1>2, <1>4, <2>1 DEF Balanced
  <2>3. PoolSlotsBalanced'
    BY <1>4, <2>2 DEF PoolSlotsBalanced, Balanced, PointsJobs, RawJobs
  <2> QED BY <1>4, <2>3 DEF Pool
<1>5. CASE PrepareAvlPoints(c)
  <2>1. /\ pc[c] = "prepare" /\ pc'[c] = "append" /\ received' = received
        /\ held' = held \cup {PointsJob(c)} /\ Cardinality(held) < MaxOpenConns
    BY <1>1, <1>5 DEF PrepareAvlPoints, PrepareBatch, At, Goto
  <2>2. Own(c) = {} /\ Own(c)' = {PointsJob(c)}
    BY <2>1 DEF Own, PointsJob, Round
  <2>3. held' = Others(c) \cup Own(c)' \cup RawJobs
    BY <1>1, <2>1, <2>2 DEF Balanced
  <2> QED BY <1>3, <1>4, <1>5, <2>1, <2>3, PoolTakes DEF PrepareAvlPoints, rawVars
<1>6. CASE AppendPointFails(c) \/ SendBatch(c)
  <2>1. /\ pc[c] = "append" /\ pc'[c] = "ack" /\ UNCHANGED saving
        /\ held' = held \ {PointsJob(c)}
    BY <1>1, <1>6 DEF AppendPointFails, AppendFails, SendBatch, SendPoints, SaveReturns, At, Goto,
                      rawVars
  <2>2. Own(c) = {PointsJob(c)} /\ Own(c)' = {}
    BY <2>1 DEF Own
  <2>3. held' = Others(c) \cup Own(c)' \cup RawJobs
    BY <1>1, <2>1, <2>2 DEF Balanced
  <2> QED BY <1>4, <2>1, <2>3, PoolGives
<1>7. CASE \/ ReadFails(c) \/ ReadIMEI(c) \/ ResponseAcceptIMEI(c) \/ ReadPacket(c)
           \/ ParseAccepts(c) \/ ParseRefuses(c) \/ PublishLastPoint(c)
           \/ PrepareAvlPointsFails(c) \/ AppendPoint(c) \/ ResponseAcceptDataPack(c)
           \/ ParsePanics(c) \/ PublishPanics(c) \/ WgDone(c) \/ CloseConn(c)
  <2>1. held' = held /\ UNCHANGED saving
    BY <1>7 DEF ParsePanics, PublishPanics, Panic,
                ReadFails, ReadIMEI, ResponseAcceptIMEI, ReadPacket, ParseAccepts, ParseRefuses,
                PublishLastPoint, PrepareAvlPointsFails, PrepareBatchFails, AppendPoint,
                ResponseAcceptDataPack, WgDone, CloseConn, dbVars, rawVars
  <2>2. \/ pc[c] # "append" /\ pc'[c] # "append"
        \/ pc'[c] = pc[c] /\ received' = received
    BY <1>1, <1>7 DEF ParsePanics, PublishPanics, Panic,
                ReadFails, ReadIMEI, ResponseAcceptIMEI, ReadPacket, ParseAccepts,
                ParseRefuses, PublishLastPoint, PrepareAvlPointsFails, SaveReturns, AppendPoint,
                ResponseAcceptDataPack, WgDone, CloseConn, At, Goto
  <2>3. Own(c)' = Own(c)
    BY <2>2 DEF Own, PointsJob, Round
  <2> QED BY <1>1, <1>4, <2>1, <2>3, PoolGives DEF Balanced
<1> QED BY <1>5, <1>6, <1>7 DEF Handler, SaveAvlPoints

LEMMA RawSaverBalances ==
  ASSUME Base, Identity, Pool, NEW c \in Conns, RawSaver(c)
  PROVE  Pool'
<1>1. UNCHANGED <<pc, received>> /\ Running
  BY DEF RawSaver, SaveRawData, SaveRawDataFails, AppendRawDataFails, SendRawData, localVars
<1>2. /\ Balanced
      /\ PointsJobs' = PointsJobs
      /\ \A j \in saving : RawJob(j) \notin PointsJobs
  BY <1>1, OwnAndOthers
     DEF Pool, PoolSlotsBalanced, Balanced, PointsJobs, RawJobs, PointsJob, Round
<1>3. ASSUME IsFiniteSet(held') /\ Cardinality(held') <= MaxOpenConns,
             held' = PointsJobs \cup RawJobs'
      PROVE  Pool'
  <2>1. PoolSlotsBalanced'
    BY <1>2, <1>3 DEF PoolSlotsBalanced, PointsJobs, RawJobs
  <2> QED BY <1>3, <2>1 DEF Pool
<1>4. ASSUME NEW j \in spawned, SaveRawData(j) PROVE Pool'
  <2>1. /\ saving' = saving \cup {RawPayload(j)}
        /\ held' = held \cup {RawJob(j)} /\ Cardinality(held) < MaxOpenConns
    BY <1>4 DEF SaveRawData, PrepareBatch
  <2>2. RawJob(RawPayload(j)) = RawJob(j)
    BY DEF RawJob, RawPayload
  <2>3. RawJobs' = RawJobs \cup {RawJob(j)}
    <3>1. RawJobs' = {RawJob(x) : x \in saving'}
      BY DEF RawJobs, RawJob
    <3> QED BY <2>1, <2>2, <3>1 DEF RawJobs
  <2> QED BY <1>1, <1>2, <1>3, <2>1, <2>3, PoolTakes DEF Balanced
<1>5. ASSUME NEW j \in saving, AppendRawDataFails(j) \/ SendRawData(j) PROVE Pool'
  <2>1. saving' = saving \ {j} /\ held' = held \ {RawJob(j)}
    BY <1>5 DEF AppendRawDataFails, AppendFails, SendRawData, SendPayload
  <2>2. RawJobs' = RawJobs \ {RawJob(j)}
    <3>1. RawJobs' = {RawJob(x) : x \in saving'}
      BY DEF RawJobs, RawJob
    <3>2. \A x \in saving : RawJob(x) = RawJob(j) => x = j
      BY OneSaverPerRead
    <3> QED BY <2>1, <3>1, <3>2 DEF RawJobs
  <2> QED BY <1>1, <1>2, <1>3, <2>1, <2>2, PoolGives DEF Balanced
<1>6. ASSUME NEW j \in spawned, SaveRawDataFails(j) PROVE Pool'
  <2>1. held' = held /\ saving' = saving
    BY <1>6 DEF SaveRawDataFails, PrepareBatchFails, dbVars
  <2>2. RawJobs' = RawJobs
    BY <2>1 DEF RawJobs, RawJob
  <2> QED BY <1>1, <1>2, <1>3, <2>1, <2>2, PoolGives DEF Balanced
<1> QED BY <1>4, <1>5, <1>6 DEF RawSaver

LEMMA NextPool == Base /\ Identity /\ Pool /\ [Next]_vars => Pool'
<1> SUFFICES ASSUME Base, Identity, Pool, [Next]_vars PROVE Pool'
  OBVIOUS
<1>1. ASSUME UNCHANGED <<held, proc, saving, received>>,
             \A d \in Conns : pc'[d] = "append" <=> pc[d] = "append"
      PROVE  Pool'
  <2>1. PointsJobs' = PointsJobs /\ RawJobs' = RawJobs
    BY <1>1 DEF PointsJobs, RawJobs, PointsJob, RawJob, Round
  <2> QED BY <1>1, <2>1 DEF Pool, PoolSlotsBalanced, PointsJobs, RawJobs, Running
<1>2. CASE UNCHANGED vars
  BY <1>1, <1>2 DEF vars, dbVars, localVars, rawVars
<1>3. CASE Terminate
  <2>1. held' = {} /\ proc' = "down"
    BY <1>3 DEF Terminate, Crash
  <2> QED BY <2>1, PoolGives DEF Pool, PoolSlotsBalanced, Running
<1>4. ASSUME NEW c \in Conns, Client(c) PROVE Pool'
  BY <1>1, <1>4 DEF Client, Dial, SendIMEI, GetAccept, SendPacket, GetAck, HangUp, dbVars,
                    localVars, rawVars
<1>5. ASSUME NEW c \in Conns, Serve(c) PROVE Pool'
  <2>1. \A d \in Conns : pc'[d] = "append" <=> pc[d] = "append"
    BY <1>5 DEF Serve, Base, TypeOK, ControlTypeOK
  <2> QED BY <1>1, <1>5, <2>1 DEF Serve, dbVars, localVars, rawVars
<1> QED BY <1>2, <1>3, <1>4, <1>5, HandlerBalances, RawSaverBalances DEF Next
-----------------------------------------------------------------------------
(* Announcements.                                                          *)

LEMMA NextAnnounced == Base /\ Announced /\ [Next]_vars => Announced'
<1> SUFFICES ASSUME Base, Announced, [Next]_vars, NEW d \in Conns,
                    pc'[d] \in {"prepare", "append", "ack"}
             PROVE  IsAnnounced(d)'
  BY DEF Announced
<1>1. /\ pc \in [Conns -> Labels] /\ errors \subseteq errors' /\ published \subseteq published'
  BY LedgerSteps DEF Base, TypeOK, ControlTypeOK
<1>2. ASSUME pc[d] \in {"prepare", "append", "ack"},
             received'[d] = received[d], points'[d] = points[d], imei'[d] = imei[d]
      PROVE  IsAnnounced(d)'
  <2>1. /\ Message(d, points[d])' = Message(d, points[d])
        /\ Failure("publish", d)' = Failure("publish", d)
    BY <1>2 DEF Message, Failure, Round
  <2>2. IsAnnounced(d)
    BY <1>2 DEF Announced
  <2> QED BY <1>1, <2>1, <2>2 DEF IsAnnounced
<1>3. ASSUME NEW c \in Conns, Client(c) \/ RawSaver(c) \/ Terminate \/ UNCHANGED vars
      PROVE  IsAnnounced(d)'
  <2>1. UNCHANGED <<pc, localVars>>
    BY <1>3 DEF vars, Terminate, Crash, Client, Dial, SendIMEI, GetAccept, SendPacket, GetAck,
                HangUp, RawSaver, SaveRawData, SaveRawDataFails, AppendRawDataFails, SendRawData
  <2> QED BY <1>2, <2>1 DEF localVars
<1>4. ASSUME NEW c \in Conns, Serve(c) PROVE IsAnnounced(d)'
  BY <1>1, <1>2, <1>4 DEF Serve, localVars
<1>5. ASSUME NEW c \in Conns \ {d}, Handler(c) PROVE IsAnnounced(d)'
  BY <1>2, <1>5, HandlerFrame
<1>6. CASE Handler(d)
  <2>1. CASE PublishLastPoint(d)
    <3>1. /\ Message(d, points[d])' = Message(d, points[d])
          /\ Failure("publish", d)' = Failure("publish", d)
      BY <2>1 DEF PublishLastPoint, localVars, Message, Failure, Round
    <3>2. Message(d, points[d]) \in published' \/ Failure("publish", d) \in errors'
      BY <2>1 DEF PublishLastPoint
    <3> QED BY <3>1, <3>2 DEF IsAnnounced
  <2>2. CASE SaveAvlPoints(d)
    <3>1. pc[d] \in {"prepare", "append"} /\ UNCHANGED <<received, points, imei>>
      BY <2>2 DEF SaveAvlPoints, PrepareAvlPoints, PrepareAvlPointsFails, AppendPoint,
                  AppendPointFails, SendBatch, At, localVars
    <3> QED BY <1>2, <3>1
  <2>3. CASE ~PublishLastPoint(d) /\ ~SaveAvlPoints(d)
    <3>1. pc'[d] \notin {"prepare", "append", "ack"}
      BY <1>1, <1>6, <2>3
         DEF Handler, ReadFails, ReadIMEI, ResponseAcceptIMEI, ReadPacket, ParseAccepts,
             ParseRefuses, ParsePanics, PublishPanics, ResponseAcceptDataPack, WgDone, CloseConn,
             Panic, At, Goto
    <3> QED BY <3>1
  <2> QED BY <2>1, <2>2, <2>3
<1> QED BY <1>3, <1>4, <1>5, <1>6 DEF Next, vars, localVars, Terminate, Crash

LEMMA NextFollows ==
  Base /\ Ledger /\ Announced /\ StoreFollowsPublish /\ [Next]_vars => StoreFollowsPublish'
<1> DEFINE Last(m) == [m EXCEPT !.index = received[m.conn][m.round].packet.n]
<1> SUFFICES ASSUME Base, Ledger, Announced, StoreFollowsPublish, [Next]_vars, NEW m \in rows'
             PROVE  \/ Last(m)' \in published'
                    \/ <<"publish", m.conn, m.round>> \in errors'
  BY DEF StoreFollowsPublish
<1>1. errors \subseteq errors' /\ published \subseteq published'
  BY LedgerSteps
<1>2. m.conn \in Conns /\ m.round \in Nat
  BY NextType DEF TypeOK, DBTypeOK, Messages
<1>3. CASE m \in rows
  <2>1. m.round \in 1..Len(received[m.conn])
    BY <1>3 DEF Ledger, RowsOK, Round
  <2>2. Last(m)' = Last(m)
    BY <1>2, <2>1, HistoryGrows DEF Extends
  <2>3. Last(m) \in published \/ <<"publish", m.conn, m.round>> \in errors
    BY <1>3 DEF StoreFollowsPublish
  <2> QED BY <1>1, <2>2, <2>3
<1>4. CASE m \notin rows
  <2>1. PICK c \in Conns : SendBatch(c)
    BY <1>4, LedgerSteps
  <2>2. PICK i \in 1..appended[c] : m = Message(c, i)
    BY <1>4, <2>1, SendBatchRows DEF Ledger, Batch
  <2>3. received' = received /\ points[c] = received[c][Round(c)].packet.n
    BY <2>1, PointsOfPacket DEF SendBatch, At, Parsed, localVars
  <2>4. Last(m)' = Message(c, points[c])
    BY <2>2, <2>3 DEF Message
  <2>5. IsAnnounced(c)
    BY <2>1 DEF SendBatch, At, Announced
  <2>6. <<"publish", m.conn, m.round>> = Failure("publish", c)
    BY <2>2 DEF Message, Failure
  <2> QED BY <1>1, <2>4, <2>5, <2>6 DEF IsAnnounced
<1> QED BY <1>3, <1>4

-----------------------------------------------------------------------------
(* The inductive invariant of the storage, on top of base, ledger and      *)
(* identities.                                                             *)
THEOREM StorageInvariant == Spec => []Storage
<1>1. Init => Storage
  <2> SUFFICES ASSUME Init PROVE Storage
    OBVIOUS
  <2>1. FirstRead /\ Announced /\ StoreFollowsPublish
    BY DEF Init, DBInit, FirstRead, Announced, StoreFollowsPublish
  <2>2. NoRawBufferForgotten
    BY DEF Init, NoRawBufferForgotten
  <2>3. IsFiniteSet(held) /\ Cardinality(held) <= MaxOpenConns
    BY FS_EmptySet, MaxOpenConnsAssumption DEF Init, DBInit
  <2>4. held = PointsJobs \cup RawJobs
    BY DEF Init, DBInit, PointsJobs, RawJobs
  <2> QED BY <2>1, <2>2, <2>3, <2>4
          DEF Storage, Pool, PoolSlotsBalanced, PointsJobs, RawJobs
<1>2. Base /\ Ledger /\ Identity /\ Storage /\ [Next]_vars => Storage'
  BY NextFirstRead, NextRemembers, NextPool, NextAnnounced, NextFollows DEF Storage
<1> QED BY <1>1, <1>2, BaseInvariant, LedgerInvariant, IdentityInvariant, PTL DEF Spec

(* Every connection of the pool belongs to a call that is under way, each  *)
(* call has one, and there are never more than the limit, for any number   *)
(* of handlers and savers that compete for a pool of any size.             *)
THEOREM PoolCorrect == Spec => []PoolSlotsBalanced
<1>1. Storage => PoolSlotsBalanced BY DEF Storage, Pool
<1> QED BY <1>1, StorageInvariant, PTL

(* A raw buffer that was read is being saved, was saved, or its failure    *)
(* was logged.                                                             *)
THEOREM RawBuffersCorrect == Spec => []NoRawBufferForgotten
<1>1. Storage => NoRawBufferForgotten BY DEF Storage
<1> QED BY <1>1, StorageInvariant, PTL

(* The last point of a stored packet was published before, or the failure  *)
(* to publish it was logged.                                               *)
THEOREM AnnouncedFirst == Spec => []StoreFollowsPublish
<1>1. Storage => StoreFollowsPublish BY DEF Storage
<1> QED BY <1>1, StorageInvariant, PTL
=============================================================================
