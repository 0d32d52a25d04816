---------------------------- MODULE Ledger_proofs ----------------------------
(***************************************************************************)
(* What HandleConnection acknowledges, stores and publishes agrees: the    *)
(* safety properties that relate acked, rows, published and errors, proved *)
(* from the base invariant of HandleConnection_proofs.                     *)
(***************************************************************************)
EXTENDS HandleConnection_proofs

Settled(c, r, n) == StoredIndices(c, r) = 1..n \/ <<"save", c, r>> \in errors
Unsaved == Working \ {"ack"}

(* Rows of the packet in hand appear only when it is sent, its answer only *)
(* after that; all rows of a packet appear in one step.                    *)
RowsOK ==
  \A m \in rows : /\ m.round \in 1..Round(m.conn)
                  /\ pc[m.conn] \in Unsaved => m.round < Round(m.conn)
AcksOK ==
  \A a \in acked : /\ a.round \in 1..Round(a.conn)
                   /\ pc[a.conn] \in Working => a.round < Round(a.conn)
                   /\ Settled(a.conn, a.round, a.n)
TurnSettled == \A c \in Conns : pc[c] = "ack" => Settled(c, Round(c), points[c])

Ledger == RowsOK /\ AcksOK /\ TurnSettled /\ BatchesAreAtomic

-----------------------------------------------------------------------------

(* Where a step takes the turn of a connection.                            *)
TurnStep(d) ==
  \/ pc'[d] = pc[d] /\ received'[d] = received[d] /\ points'[d] = points[d]
  \/ /\ pc[d] = "read" /\ pc'[d] = "parse"
     /\ Len(received'[d]) = Len(received[d]) + 1
  \/ /\ pc[d] = "parse" /\ pc'[d] = "publish"
     /\ received'[d] = received[d]
  \/ /\ pc[d] = "publish" /\ pc'[d] = "prepare"
     /\ received'[d] = received[d] /\ points'[d] = points[d]
  \/ /\ pc[d] = "prepare" /\ pc'[d] = "append"
     /\ received'[d] = received[d] /\ points'[d] = points[d]
  \/ /\ pc[d] \in {"prepare", "append"} /\ pc'[d] = "ack"
     /\ received'[d] = received[d] /\ points'[d] = points[d]
     /\ <<"save", d, Round(d)>> \in errors' \/ SendBatch(d)
  \/ pc'[d] \notin Working

LEMMA TurnSteps == Base /\ [Next]_vars => \A d \in Conns : TurnStep(d)
<1> SUFFICES ASSUME Base, [Next]_vars, NEW d \in Conns PROVE TurnStep(d)
  OBVIOUS
<1>1. TypeOK /\ pc \in [Conns -> Labels] /\ received[d] \in Seq(Chunks)
  BY DEF Base, TypeOK, ControlTypeOK, LocalTypeOK
<1>2. CASE UNCHANGED <<pc, localVars>>
  BY <1>2 DEF TurnStep, localVars
<1>3. ASSUME NEW c \in Conns, Client(c) \/ RawSaver(c) \/ Terminate \/ UNCHANGED vars
      PROVE  TurnStep(d)
  BY <1>2, <1>3
     DEF vars, Terminate, Crash, Client, Dial, SendIMEI, GetAccept, SendPacket, GetAck, HangUp,
         RawSaver, SaveRawData, SaveRawDataFails, AppendRawDataFails, SendRawData
<1>4. ASSUME NEW c \in Conns, Serve(c) PROVE TurnStep(d)
  BY <1>1, <1>4 DEF Serve, TurnStep, localVars, Working, Parsed
<1>5. ASSUME NEW c \in Conns \ {d}, Handler(c) PROVE TurnStep(d)
  BY <1>5, HandlerFrame DEF TurnStep
<1>6. CASE Handler(d)
  <2>1. CASE ReadPacket(d)
    <3>1. PICK part \in Parts : Read(d, part)
      BY <2>1, CutsAssumption DEF ReadPacket
    <3>2. PICK got \in Chunks : received'[d] = Append(received[d], got)
      BY <1>1, <3>1, ReadAppends
    <3> QED BY <1>1, <2>1, <3>2 DEF ReadPacket, At, Goto, TurnStep
  <2>2. CASE ParseAccepts(d)
    BY <1>1, <2>2 DEF ParseAccepts, At, Goto, TurnStep
  <2>3. CASE PublishLastPoint(d)
    BY <1>1, <2>3 DEF PublishLastPoint, At, Goto, localVars, TurnStep
  <2>4. CASE PrepareAvlPoints(d)
    BY <1>1, <2>4 DEF PrepareAvlPoints, At, Goto, localVars, TurnStep
  <2>5. CASE PrepareAvlPointsFails(d) \/ AppendPointFails(d)
    BY <1>1, <2>5 DEF PrepareAvlPointsFails, AppendPointFails, SaveReturns, Failure, At, Goto,
                      localVars, TurnStep
  <2>6. CASE AppendPoint(d)
    BY <1>1, <2>6 DEF AppendPoint, TurnStep
  <2>7. CASE SendBatch(d)
    BY <1>1, <2>7 DEF SendBatch, SaveReturns, At, Goto, localVars, TurnStep
  <2>8. CASE \/ ReadFails(d) \/ ReadIMEI(d) \/ ResponseAcceptIMEI(d) \/ ParseRefuses(d)
             \/ ResponseAcceptDataPack(d) \/ WgDone(d) \/ CloseConn(d)
    <3>1. pc'[d] \in {"read", "accept", "done", "close", "gone"}
      BY <1>1, <2>8 DEF ReadFails, ReadIMEI, ResponseAcceptIMEI, ParseRefuses,
                        ResponseAcceptDataPack, WgDone, CloseConn, Goto
    <3> QED BY <3>1 DEF TurnStep, Working, Parsed
  <2>9. CASE ParsePanics(d) \/ PublishPanics(d)
    <3>1. pc'[d] = "done"
      BY <1>1, <2>9 DEF ParsePanics, PublishPanics, Panic, Goto
    <3> QED BY <3>1 DEF TurnStep, Working, Parsed
  <2> QED BY <1>6, <2>1, <2>2, <2>3, <2>4, <2>5, <2>6, <2>7, <2>8, <2>9
          DEF Handler, SaveAvlPoints
<1> QED BY <1>3, <1>4, <1>5, <1>6 DEF Next, vars, localVars, Terminate, Crash

(* Only SendBatch inserts rows, only ResponseAcceptDataPack answers, and   *)
(* nothing that was logged is taken back.                                  *)
LEMMA LedgerSteps ==
  ASSUME Base, [Next]_vars
  PROVE  /\ errors \subseteq errors'
         /\ published \subseteq published'
         /\ rows' = rows \/ \E c \in Conns : SendBatch(c)
         /\ acked' = acked \/ \E c \in Conns : ResponseAcceptDataPack(c)
<1>1. CASE UNCHANGED vars \/ Terminate
  BY <1>1 DEF vars, Terminate, Crash, logVars, dbVars
<1>2. ASSUME NEW c \in Conns, Client(c) \/ Serve(c)
      PROVE  UNCHANGED <<errors, published, rows, acked>>
  BY <1>2 DEF Client, Dial, SendIMEI, GetAccept, SendPacket, GetAck, HangUp, Serve, logVars,
              dbVars
<1>3. ASSUME NEW c \in Conns, RawSaver(c)
      PROVE  errors \subseteq errors' /\ UNCHANGED <<published, rows, acked>>
  BY <1>3 DEF RawSaver, SaveRawData, SaveRawDataFails, AppendRawDataFails, SendRawData,
              PrepareBatch, PrepareBatchFails, AppendFails, SendPayload, RawErrors, logVars,
              dbVars
<1>4. ASSUME NEW c \in Conns, Handler(c), ~SendBatch(c), ~ResponseAcceptDataPack(c)
      PROVE  /\ errors \subseteq errors' /\ published \subseteq published'
             /\ UNCHANGED <<rows, acked>>
  BY <1>4 DEF Handler, ReadFails, ReadIMEI, ResponseAcceptIMEI, ReadPacket, ParseAccepts,
              ParseRefuses, ParsePanics, PublishLastPoint, PublishPanics, SaveAvlPoints,
              PrepareAvlPoints, PrepareAvlPointsFails, AppendPoint, AppendPointFails,
              SaveReturns, PrepareBatch, PrepareBatchFails, AppendFails, WgDone, CloseConn,
              Panic, logVars, dbVars
<1>5. ASSUME NEW c \in Conns, SendBatch(c)
      PROVE  errors \subseteq errors' /\ UNCHANGED <<published, acked>>
  BY <1>5 DEF SendBatch, SaveReturns
<1>6. ASSUME NEW c \in Conns, ResponseAcceptDataPack(c)
      PROVE  UNCHANGED <<errors, published, rows>>
  BY <1>6 DEF ResponseAcceptDataPack, dbVars
<1> QED BY <1>1, <1>2, <1>3, <1>4, <1>5, <1>6 DEF Next

-----------------------------------------------------------------------------

(* SendBatch inserts all points of the packet in hand, or none.            *)
LEMMA SendBatchRows ==
  ASSUME Base, RowsOK, NEW c \in Conns, SendBatch(c)
  PROVE  /\ StoredIndices(c, Round(c))' = {} \/ StoredIndices(c, Round(c))' = 1..points[c]
         /\ \/ StoredIndices(c, Round(c))' = 1..points[c]
            \/ <<"save", c, Round(c)>> \in errors'
         /\ \A d \in Conns, r \in Nat :
              d # c \/ r # Round(c) => StoredIndices(d, r)' = StoredIndices(d, r)
         /\ rows' = rows \/ rows' = rows \cup Batch(c)
         /\ UNCHANGED <<received, points>>
<1>1. /\ pc[c] = "append" /\ appended[c] = points[c]
      /\ UNCHANGED localVars
  BY DEF SendBatch, At
<1>2. \A m \in rows : ~(m.conn = c /\ m.round = Round(c))
  <2> SUFFICES ASSUME NEW m \in rows, m.conn = c PROVE m.round # Round(c)
    OBVIOUS
  <2>1. Round(c) \in Nat /\ m.round < Round(c)
    BY <1>1, NameTypes DEF RowsOK, Unsaved, Working, Parsed
  <2>2. m.round \in Nat
    BY DEF Base, TypeOK, DBTypeOK, Messages
  <2> QED BY <2>1, <2>2
<1>3. Batch(c) = {Message(c, i) : i \in 1..points[c]}
  BY <1>1 DEF Batch
<1>4. \A i \in 1..points[c] : /\ Message(c, i).conn = c /\ Message(c, i).round = Round(c)
                              /\ Message(c, i).index = i
  BY DEF Message
<1>5. \/ rows' = rows /\ <<"save", c, Round(c)>> \in errors'
      \/ rows' = rows \cup Batch(c)
  BY DEF SendBatch, SendPoints, SaveReturns, Failure
<1>6. CASE rows' = rows /\ <<"save", c, Round(c)>> \in errors'
  <2>1. StoredIndices(c, Round(c))' = {}
    BY <1>1, <1>2, <1>6 DEF StoredIndices, Round, localVars
  <2>2. \A d \in Conns, r \in Nat : StoredIndices(d, r)' = StoredIndices(d, r)
    BY <1>6 DEF StoredIndices
  <2> QED BY <1>1, <1>6, <2>1, <2>2 DEF localVars
<1>7. CASE rows' = rows \cup Batch(c)
  <2>1. StoredIndices(c, Round(c))' = 1..points[c]
    <3>1. {x \in rows' : x.conn = c /\ x.round = Round(c)} = Batch(c)
      BY <1>2, <1>3, <1>4, <1>7
    <3>2. {m.index : m \in Batch(c)} = 1..points[c]
      BY <1>3, <1>4
    <3>3. Round(c)' = Round(c)
      BY <1>1 DEF Round, localVars
    <3> QED BY <3>1, <3>2, <3>3 DEF StoredIndices
  <2>2. ASSUME NEW d \in Conns, NEW r \in Nat, d # c \/ r # Round(c)
        PROVE  StoredIndices(d, r)' = StoredIndices(d, r)
    <3>1. {x \in rows' : x.conn = d /\ x.round = r} = {x \in rows : x.conn = d /\ x.round = r}
      BY <1>3, <1>4, <1>7, <2>2
    <3> QED BY <3>1 DEF StoredIndices
  <2> QED BY <1>1, <1>7, <2>1, <2>2 DEF localVars
<1> QED BY <1>5, <1>6, <1>7

LEMMA RoundGrows ==
  ASSUME Base, [Next]_vars
  PROVE  \A d \in Conns : Round(d) \in Nat /\ Round(d)' \in Nat /\ Round(d) <= Round(d)'
<1>1. \A d \in Conns : Round(d) \in Nat
  BY NameTypes
<1>2. \A d \in Conns : Round(d)' \in Nat
  BY NextType DEF TypeOK, LocalTypeOK, Round
<1> QED BY <1>1, <1>2, HistoryGrows DEF Extends, Round

LEMMA NextRows == Base /\ Ledger /\ [Next]_vars => RowsOK'
<1> SUFFICES ASSUME Base, Ledger, [Next]_vars, NEW m \in rows'
             PROVE  /\ (m.round \in 1..Round(m.conn))'
                    /\ (pc[m.conn] \in Unsaved => m.round < Round(m.conn))'
  BY DEF RowsOK
<1>1. m.conn \in Conns /\ m.round \in Nat
  BY NextType DEF TypeOK, DBTypeOK, Messages
<1>2. TurnStep(m.conn) /\ Round(m.conn) \in Nat /\ Round(m.conn)' \in Nat
  BY <1>1, TurnSteps, RoundGrows
<1>3. Round(m.conn) <= Round(m.conn)'
  BY <1>1, RoundGrows
<1>4. CASE m \in rows
  <2>1. /\ m.round \in 1..Round(m.conn)
        /\ pc[m.conn] \in Unsaved => m.round < Round(m.conn)
    BY <1>4 DEF Ledger, RowsOK
  <2>2. ASSUME pc'[m.conn] \in Unsaved PROVE m.round < Round(m.conn)'
    BY <1>1, <1>2, <1>3, <2>1, <2>2 DEF TurnStep, Unsaved, Working, Parsed, Round
  <2> QED BY <1>1, <1>2, <1>3, <2>1, <2>2
<1>5. CASE m \notin rows
  <2>1. PICK c \in Conns : SendBatch(c)
    BY <1>5, LedgerSteps
  <2>2. m \in Batch(c)
    BY <1>5, <2>1, SendBatchRows DEF Ledger
  <2>3. m.conn = c /\ m.round = Round(c)
    BY <2>2 DEF Batch, Message
  <2>4. pc'[c] = "ack" /\ Round(c)' = Round(c) /\ received[c] # <<>>
    BY <2>1 DEF SendBatch, SaveReturns, At, Goto, localVars, Round, Base, TypeOK, ControlTypeOK,
                TurnOK, Working, Parsed
  <2>5. Round(c) > 0
    BY <2>4, EmptySeq DEF Base, TypeOK, LocalTypeOK, Round
  <2> QED BY <1>1, <1>2, <2>3, <2>4, <2>5 DEF Unsaved, Working, Parsed
<1> QED BY <1>4, <1>5

(* A verdict on a packet that is not in hand does not change.              *)
LEMMA SettledStays ==
  ASSUME Base, Ledger, [Next]_vars, NEW d \in Conns, NEW r \in Nat, NEW n,
         Settled(d, r, n), pc[d] \in Unsaved => r < Round(d)
  PROVE  Settled(d, r, n)'
<1>1. errors \subseteq errors'
  BY LedgerSteps
<1>2. CASE rows' = rows
  BY <1>1, <1>2 DEF Settled, StoredIndices
<1>3. ASSUME NEW c \in Conns, SendBatch(c) PROVE Settled(d, r, n)'
  <2>1. d # c \/ r # Round(c)
    BY <1>3, NameTypes DEF SendBatch, At, Unsaved, Working, Parsed
  <2>2. StoredIndices(d, r)' = StoredIndices(d, r)
    BY <1>3, <2>1, SendBatchRows DEF Ledger
  <2> QED BY <1>1, <2>2 DEF Settled
<1> QED BY <1>2, <1>3, LedgerSteps

LEMMA NextTurnSettled == Base /\ Ledger /\ [Next]_vars => TurnSettled'
<1> SUFFICES ASSUME Base, Ledger, [Next]_vars, NEW d \in Conns, pc'[d] = "ack"
             PROVE  Settled(d, Round(d), points[d])'
  BY DEF TurnSettled
<1>1. Round(d) \in Nat
  BY NameTypes
<1>2. TurnStep(d)
  BY TurnSteps
<1>3. Round(d)' = Round(d) /\ points'[d] = points[d]
  BY <1>2 DEF TurnStep, Working, Parsed, Round
<1>4. CASE pc[d] = "ack"
  <2>1. Settled(d, Round(d), points[d])
    BY <1>4 DEF Ledger, TurnSettled
  <2>2. Settled(d, Round(d), points[d])' <=>
          \/ StoredIndices(d, Round(d))' = 1..points[d]
          \/ <<"save", d, Round(d)>> \in errors'
    BY <1>3 DEF Settled
  <2>3. \/ StoredIndices(d, Round(d)) = 1..points[d]
        \/ <<"save", d, Round(d)>> \in errors
    BY <2>1 DEF Settled
  <2>4. StoredIndices(d, Round(d))' = StoredIndices(d, Round(d))
    <3>1. CASE rows' = rows
      BY <1>3, <3>1 DEF StoredIndices
    <3>2. ASSUME NEW c \in Conns, SendBatch(c)
          PROVE  StoredIndices(d, Round(d))' = StoredIndices(d, Round(d))
      <4>1. d # c
        BY <1>4, <3>2 DEF SendBatch, At
      <4>2. \A r \in Nat : StoredIndices(d, r)' = StoredIndices(d, r)
        BY <3>2, <4>1, SendBatchRows DEF Ledger
      <4> QED BY <1>1, <1>3, <4>2 DEF StoredIndices
    <3> QED BY <3>1, <3>2, LedgerSteps
  <2> QED BY <2>2, <2>3, <2>4, LedgerSteps
<1>5. CASE pc[d] # "ack"
  <2>1. <<"save", d, Round(d)>> \in errors' \/ SendBatch(d)
    BY <1>2, <1>5 DEF TurnStep, Working, Parsed
  <2>2. CASE SendBatch(d)
    BY <1>3, <2>2, SendBatchRows DEF Ledger, Settled
  <2> QED BY <1>3, <2>1, <2>2 DEF Settled
<1> QED BY <1>4, <1>5

LEMMA NextAcks == Base /\ Ledger /\ [Next]_vars => AcksOK'
<1> SUFFICES ASSUME Base, Ledger, [Next]_vars, NEW a \in acked'
             PROVE  /\ (a.round \in 1..Round(a.conn))'
                    /\ (pc[a.conn] \in Working => a.round < Round(a.conn))'
                    /\ Settled(a.conn, a.round, a.n)'
  BY DEF AcksOK
<1>1. a.conn \in Conns /\ a.round \in Nat
  BY NextType DEF TypeOK, LogTypeOK
<1>2. TurnStep(a.conn) /\ Round(a.conn) \in Nat /\ Round(a.conn)' \in Nat
  BY <1>1, TurnSteps, RoundGrows
<1>3. Round(a.conn) <= Round(a.conn)'
  BY <1>1, RoundGrows
<1>4. CASE a \in acked
  <2>1. /\ a.round \in 1..Round(a.conn)
        /\ pc[a.conn] \in Working => a.round < Round(a.conn)
        /\ Settled(a.conn, a.round, a.n)
    BY <1>4 DEF Ledger, AcksOK
  <2>2. ASSUME pc'[a.conn] \in Working PROVE a.round < Round(a.conn)'
    BY <1>1, <1>2, <1>3, <2>1, <2>2 DEF TurnStep, Working, Parsed, Round
  <2>3. Settled(a.conn, a.round, a.n)'
    BY <1>1, <2>1, SettledStays DEF Unsaved
  <2> QED BY <1>1, <1>2, <1>3, <2>1, <2>2, <2>3
<1>5. CASE a \notin acked
  <2>1. PICK c \in Conns : ResponseAcceptDataPack(c)
    BY <1>5, LedgerSteps
  <2>2. a.conn = c /\ a.round = Round(c) /\ a.n = points[c]
    BY <1>5, <2>1 DEF ResponseAcceptDataPack
  <2>3. pc[c] = "ack" /\ pc'[c] = "read" /\ Round(c)' = Round(c) /\ received[c] # <<>>
    BY <2>1 DEF ResponseAcceptDataPack, At, Goto, localVars, Round, Base, TypeOK,
                ControlTypeOK, TurnOK, Working, Parsed
  <2>4. Round(c) > 0
    BY <2>3, EmptySeq DEF Base, TypeOK, LocalTypeOK, Round
  <2>5. Settled(c, Round(c), points[c])
    BY <2>3 DEF Ledger, TurnSettled
  <2>6. Settled(c, Round(c), points[c]) => Settled(a.conn, a.round, a.n)'
    BY <2>1, <2>2, LedgerSteps DEF ResponseAcceptDataPack, dbVars, Settled, StoredIndices
  <2> QED BY <1>1, <1>2, <2>2, <2>3, <2>4, <2>5, <2>6 DEF Working, Parsed
<1> QED BY <1>4, <1>5

(* The points of the packet in hand are as many as its count says.         *)
LEMMA PointsOfPacket ==
  ASSUME Base, NEW c \in Conns, pc[c] \in Parsed \ {"publish"}
  PROVE  points[c] = received[c][Round(c)].packet.n
<1>1. points[c] = Count(Buf(c)) /\ points[c] > 0
  BY DEF Base, TurnOK
<1>2. Buf(c) = received[c][Round(c)]
  BY DEF Base, BuffersFresh, Buf, Round
<1>3. points[c] = Buf(c).packet.n
  BY <1>1 DEF Count, ReadsNoRecords
<1> QED BY <1>2, <1>3

LEMMA NextAtomic == Base /\ Ledger /\ [Next]_vars => BatchesAreAtomic'
<1> SUFFICES ASSUME Base, Ledger, [Next]_vars, NEW m \in rows'
             PROVE  StoredIndices(m.conn, m.round)' =
                      1..received'[m.conn][m.round].packet.n
  BY DEF BatchesAreAtomic
<1>1. m.conn \in Conns /\ m.round \in Nat
  BY NextType DEF TypeOK, DBTypeOK, Messages
<1>2. ASSUME m \in rows, StoredIndices(m.conn, m.round)' = StoredIndices(m.conn, m.round)
      PROVE  StoredIndices(m.conn, m.round)' = 1..received'[m.conn][m.round].packet.n
  <2>1. StoredIndices(m.conn, m.round) = 1..received[m.conn][m.round].packet.n
    BY <1>2 DEF Ledger, BatchesAreAtomic
  <2>2. m.round \in 1..Len(received[m.conn])
    BY <1>2 DEF Ledger, RowsOK, Round
  <2>3. received'[m.conn][m.round] = received[m.conn][m.round]
    BY <1>1, <2>2, HistoryGrows DEF Extends
  <2> QED BY <1>2, <2>1, <2>3
<1>3. CASE rows' = rows
  BY <1>2, <1>3 DEF StoredIndices
<1>4. ASSUME NEW c \in Conns, SendBatch(c)
      PROVE  StoredIndices(m.conn, m.round)' = 1..received'[m.conn][m.round].packet.n
  <2>1. /\ points[c] = received[c][Round(c)].packet.n
        /\ received' = received
    BY <1>4, PointsOfPacket DEF SendBatch, At, Parsed, localVars
  <2>2. CASE m.conn = c /\ m.round = Round(c)
    <3>1. m.index \in StoredIndices(c, Round(c))'
      BY <2>1, <2>2 DEF StoredIndices, Round
    <3>2. StoredIndices(c, Round(c))' = 1..points[c]
      BY <1>4, <3>1, SendBatchRows DEF Ledger
    <3>3. Round(c)' = Round(c)
      BY <2>1 DEF Round
    <3>4. StoredIndices(m.conn, m.round)' = StoredIndices(c, Round(c))'
      BY <2>2, <3>3 DEF StoredIndices
    <3> QED BY <2>1, <2>2, <3>2, <3>4
  <2>3. CASE m.conn # c \/ m.round # Round(c)
    <3>1. StoredIndices(m.conn, m.round)' = StoredIndices(m.conn, m.round)
      BY <1>1, <1>4, <2>3, SendBatchRows DEF Ledger
    <3>2. m \in rows
      <4>1. CASE rows' = rows
        BY <4>1
      <4>2. CASE rows' = rows \cup Batch(c)
        BY <2>3, <4>2 DEF Batch, Message
      <4> QED BY <1>4, <4>1, <4>2, SendBatchRows DEF Ledger
    <3> QED BY <1>2, <3>1, <3>2
  <2> QED BY <2>2, <2>3
<1> QED BY <1>3, <1>4, LedgerSteps

-----------------------------------------------------------------------------
(* The inductive invariant of the ledger, on top of the base.              *)
THEOREM LedgerInvariant == Spec => []Ledger
<1>1. Init => Ledger
  BY DEF Init, DBInit, Ledger, RowsOK, AcksOK, TurnSettled, BatchesAreAtomic
<1>2. Base /\ Ledger /\ [Next]_vars => Ledger'
  BY NextRows, NextAcks, NextTurnSettled, NextAtomic DEF Ledger
<1> QED BY <1>1, <1>2, BaseInvariant, PTL DEF Spec

(* A count is answered only once the outcome of the insert is known,       *)
(* whatever else runs: all its points are in the table, or the failure     *)
(* was logged.                                                             *)
THEOREM AcksCorrect == Spec => []AckedPacketsAccountedFor
<1>1. Ledger => AckedPacketsAccountedFor
  BY DEF Ledger, AcksOK, Settled, AckedPacketsAccountedFor
<1> QED BY <1>1, LedgerInvariant, PTL

(* The points of a packet are stored together or not at all.               *)
THEOREM BatchesCorrect == Spec => []BatchesAreAtomic
<1>1. Ledger => BatchesAreAtomic BY DEF Ledger
<1> QED BY <1>1, LedgerInvariant, PTL

-----------------------------------------------------------------------------
(* Identities. A connection has one handler, which learns the identity of  *)
(* its client before it works on a packet and never learns another.        *)

Known(c) == imei[c] = id[c] /\ pc[c] # "idle"

Identity ==
  /\ \A c \in Conns : /\ pc[c] # "idle" => peer[c] # "off"
                      /\ authenticated[c] \/ pc[c] = "accept" => Known(c)
                      /\ pc[c] \in Working => authenticated[c]
  /\ \A j \in spawned : authenticated[j.conn]
  /\ \A m \in rows \cup payloads \cup published \cup saving :
       m.imei = id[m.conn] /\ pc[m.conn] # "idle"

(* A step that names no new message keeps the identities, if it keeps the  *)
(* turn of the loop and the locals that they depend on.                    *)
LEMMA ClientIdentity ==
  ASSUME Base, Identity, NEW c \in Conns, Client(c)
  PROVE  Identity'
<1>1. UNCHANGED <<pc, localVars, rawVars, logVars, dbVars>>
  BY DEF Client, Dial, SendIMEI, GetAccept, SendPacket, GetAck, HangUp
<1>2. \A d \in Conns : /\ peer[d] # "off" => peer'[d] # "off"
                       /\ id'[d] = id[d] \/ peer[d] = "off"
  BY DEF Client, Dial, SendIMEI, GetAccept, SendPacket, GetAck, HangUp, Base, TypeOK,
         ClientTypeOK
<1>3. \A d \in Conns : pc[d] # "idle" => peer'[d] # "off" /\ id'[d] = id[d]
  BY <1>2 DEF Identity
<1>4. \A m \in rows \cup payloads \cup published \cup saving : m.conn \in Conns
  BY DEF Base, TypeOK, DBTypeOK, LogTypeOK, RawTypeOK, Messages, Payloads
<1> QED BY <1>1, <1>3, <1>4 DEF Identity, Known, localVars, rawVars, logVars, dbVars

LEMMA HandlerIdentity ==
  ASSUME Base, Identity, NEW c \in Conns, Serve(c) \/ Handler(c)
  PROVE  Identity'
<1>1. /\ TypeOK /\ pc \in [Conns -> Labels] /\ imei \in [Conns -> Identities]
      /\ authenticated \in [Conns -> BOOLEAN]
      /\ \A m \in rows \cup payloads \cup published \cup saving : m.conn \in Conns
      /\ \A j \in spawned : j.conn \in Conns
  BY DEF Base, TypeOK, ControlTypeOK, LocalTypeOK, DBTypeOK, LogTypeOK, RawTypeOK, Messages,
         Payloads
<1>2. UNCHANGED <<peer, id>>
  BY DEF Serve, Handler, ReadFails, ReadIMEI, ResponseAcceptIMEI, ReadPacket, ParseAccepts,
         ParseRefuses, ParsePanics, PublishLastPoint, PublishPanics, SaveAvlPoints,
         PrepareAvlPoints, PrepareAvlPointsFails, AppendPoint, AppendPointFails, SendBatch,
         ResponseAcceptDataPack, WgDone, CloseConn, Panic, clientVars
<1>3. CASE Serve(c)
  BY <1>1, <1>2, <1>3 DEF Serve, Identity, Known, Working, Parsed, localVars, rawVars, logVars,
                         dbVars
<1> DEFINE SameTurns ==
             \A d \in Conns : /\ pc'[d] = "idle" <=> pc[d] = "idle"
                              /\ pc'[d] = "accept" => pc[d] = "accept"
                              /\ pc'[d] \in Working => pc[d] \in Working
           Own(m) == m.conn = c /\ m.imei = imei[c] /\ pc[c] \in Working
<1>4. ASSUME UNCHANGED <<authenticated, imei, payloads, rawVars>>, SameTurns,
             \A m \in rows' \cup published' : m \in rows \cup published \/ Own(m)
      PROVE  Identity'
  <2>1. \A d \in Conns : /\ (pc[d] # "idle" => peer[d] # "off")'
                         /\ (authenticated[d] \/ pc[d] = "accept" => Known(d))'
                         /\ (pc[d] \in Working => authenticated[d])'
    BY <1>2, <1>4 DEF Identity, Known
  <2>2. pc[c] \in Working => Known(c)
    BY DEF Identity
  <2>3. \A m \in rows' \cup published' : m.imei = id'[m.conn] /\ pc'[m.conn] # "idle"
    BY <1>1, <1>2, <1>4, <2>2 DEF Identity, Known
  <2>4. \A m \in payloads' \cup saving' : m.imei = id'[m.conn] /\ pc'[m.conn] # "idle"
    BY <1>1, <1>2, <1>4 DEF Identity, rawVars
  <2>5. \A j \in spawned' : authenticated'[j.conn]
    BY <1>4 DEF Identity, rawVars
  <2> QED BY <2>1, <2>3, <2>4, <2>5 DEF Identity
<1> HIDE DEF SameTurns, Own
<1>5. CASE ReadIMEI(c)
  <2>1. /\ UNCHANGED <<authenticated, dbVars, rawVars, logVars>> /\ ~authenticated[c]
        /\ pc[c] = "read"
        /\ \/ imei' = [imei EXCEPT ![c] = id[c]] /\ pc' = [pc EXCEPT ![c] = "accept"]
           \/ imei' = imei /\ pc' = [pc EXCEPT ![c] = "done"]
    BY <1>5 DEF ReadIMEI, At, Goto
  <2> QED
    BY <1>1, <1>2, <2>1 DEF Identity, Known, Working, Parsed, rawVars, logVars, dbVars
<1>6. CASE ResponseAcceptIMEI(c)
  BY <1>1, <1>2, <1>6 DEF ResponseAcceptIMEI, At, Goto, Identity, Known, Working, Parsed,
                          rawVars, logVars, dbVars
<1>7. CASE ReadPacket(c)
  <2>1. /\ UNCHANGED <<authenticated, imei, dbVars, saving, logVars>> /\ authenticated[c]
        /\ pc' = [pc EXCEPT ![c] = "parse"]
        /\ \A j \in spawned' : j \in spawned \/ j.conn = c
    BY <1>7 DEF ReadPacket, At, Goto
  <2> QED BY <1>1, <1>2, <2>1 DEF Identity, Known, Working, Parsed, logVars, dbVars
<1>8. CASE SendBatch(c)
  <2>1. \A m \in Batch(c) : m.conn = c /\ m.imei = imei[c]
    BY DEF Batch, Message
  <2>2. /\ rows' \subseteq rows \cup Batch(c)
        /\ UNCHANGED <<authenticated, imei, payloads, rawVars, published>>
        /\ pc[c] = "append" /\ pc' = [pc EXCEPT ![c] = "ack"]
    BY <1>8 DEF SendBatch, SendPoints, SaveReturns, At, Goto, localVars
  <2>3. SameTurns
    BY <1>1, <2>2 DEF SameTurns, Working, Parsed
  <2>4. \A m \in rows' \cup published' : m \in rows \cup published \/ Own(m)
    BY <2>1, <2>2 DEF Own, Working, Parsed
  <2> QED BY <1>4, <2>2, <2>3, <2>4
<1>9. CASE PublishLastPoint(c)
  <2>1. Message(c, points[c]).conn = c /\ Message(c, points[c]).imei = imei[c]
    BY DEF Message
  <2>2. /\ published' \subseteq published \cup {Message(c, points[c])}
        /\ UNCHANGED <<authenticated, imei, payloads, rawVars, rows>>
        /\ pc[c] = "publish" /\ pc' = [pc EXCEPT ![c] = "prepare"]
    BY <1>9 DEF PublishLastPoint, At, Goto, localVars, dbVars
  <2>3. SameTurns
    BY <1>1, <2>2 DEF SameTurns, Working, Parsed
  <2>4. \A m \in rows' \cup published' : m \in rows \cup published \/ Own(m)
    BY <2>1, <2>2 DEF Own, Working, Parsed
  <2> QED BY <1>4, <2>2, <2>3, <2>4
<1>10. CASE ParsePanics(c) \/ PublishPanics(c)
  <2>1. /\ UNCHANGED <<rows, published, authenticated, imei, payloads, rawVars>>
        /\ pc[c] # "idle" /\ pc' = [pc EXCEPT ![c] = "done"]
    BY <1>10 DEF ParsePanics, PublishPanics, Panic, At, Goto, dbVars, localVars, logVars
  <2>2. SameTurns
    BY <1>1, <2>1 DEF SameTurns, Working, Parsed
  <2> QED BY <1>4, <2>1, <2>2
<1>11. CASE \/ ReadFails(c) \/ ParseAccepts(c) \/ ParseRefuses(c) \/ PrepareAvlPoints(c)
            \/ PrepareAvlPointsFails(c) \/ AppendPoint(c) \/ AppendPointFails(c)
            \/ ResponseAcceptDataPack(c) \/ WgDone(c) \/ CloseConn(c)
  <2>1. /\ UNCHANGED <<authenticated, imei, payloads, rawVars, rows, published>>
    BY <1>11 DEF ReadFails, ParseAccepts, ParseRefuses, PrepareAvlPoints, PrepareAvlPointsFails,
                 AppendPoint, AppendPointFails, ResponseAcceptDataPack, WgDone, CloseConn,
                 PrepareBatch, PrepareBatchFails, AppendFails, localVars, logVars, dbVars
  <2>2. \/ pc' = pc
        \/ pc' = [pc EXCEPT ![c] = "done"] /\ pc[c] # "idle"
        \/ pc' = [pc EXCEPT ![c] = "close"] /\ pc[c] # "idle"
        \/ pc' = [pc EXCEPT ![c] = "gone"] /\ pc[c] # "idle"
        \/ pc' = [pc EXCEPT ![c] = "read"] /\ pc[c] # "idle"
        \/ pc' = [pc EXCEPT ![c] = "publish"] /\ pc[c] = "parse"
        \/ pc' = [pc EXCEPT ![c] = "append"] /\ pc[c] = "prepare"
        \/ pc' = [pc EXCEPT ![c] = "ack"] /\ pc[c] \in {"prepare", "append"}
    BY <1>11 DEF ReadFails, ParseAccepts, ParseRefuses, PrepareAvlPoints, PrepareAvlPointsFails,
                 AppendPoint, AppendPointFails, SaveReturns, ResponseAcceptDataPack, WgDone,
                 CloseConn, At, Goto
  <2>3. SameTurns
    BY <1>1, <2>2 DEF SameTurns, Working, Parsed
  <2> QED BY <1>4, <2>1, <2>3
<1> QED BY <1>3, <1>5, <1>6, <1>7, <1>8, <1>9, <1>10, <1>11 DEF Handler, SaveAvlPoints

LEMMA RawSaverIdentity ==
  ASSUME Base, Identity, NEW c \in Conns, RawSaver(c)
  PROVE  Identity'
<1>1. UNCHANGED <<pc, peer, id, authenticated, imei, rows, published>>
  <2>1. UNCHANGED <<pc, clientVars, localVars, published>>
    BY DEF RawSaver, SaveRawData, SaveRawDataFails, AppendRawDataFails, SendRawData, logVars
  <2>2. rows' = rows
    BY DEF RawSaver, SaveRawData, SaveRawDataFails, AppendRawDataFails, SendRawData,
           PrepareBatch, PrepareBatchFails, AppendFails, SendPayload, dbVars
  <2> QED BY <2>1, <2>2 DEF clientVars, localVars
<1>2. /\ spawned' \subseteq spawned
      /\ \A m \in saving' \cup payloads' :
           m \in saving \cup payloads \/ \E j \in spawned : m = RawPayload(j)
  <2>1. ASSUME NEW j \in spawned, SaveRawData(j)
        PROVE  /\ spawned' \subseteq spawned /\ payloads' = payloads
               /\ saving' = saving \cup {RawPayload(j)}
    BY <2>1 DEF SaveRawData, PrepareBatch
  <2>2. ASSUME NEW j \in spawned, SaveRawDataFails(j)
        PROVE  spawned' \subseteq spawned /\ payloads' = payloads /\ saving' = saving
    BY <2>2 DEF SaveRawDataFails, PrepareBatchFails, dbVars
  <2>3. ASSUME NEW j \in saving, AppendRawDataFails(j)
        PROVE  spawned' = spawned /\ payloads' = payloads /\ saving' \subseteq saving
    BY <2>3 DEF AppendRawDataFails, AppendFails
  <2>4. ASSUME NEW j \in saving, SendRawData(j)
        PROVE  /\ spawned' = spawned /\ payloads' \subseteq payloads \cup {j}
               /\ saving' \subseteq saving
    BY <2>4 DEF SendRawData, SendPayload
  <2> QED BY <2>1, <2>2, <2>3, <2>4 DEF RawSaver
<1>3. \A j \in spawned : /\ RawPayload(j).imei = id[RawPayload(j).conn]
                         /\ pc[RawPayload(j).conn] # "idle"
  BY DEF RawPayload, Identity, Known, Base, TypeOK, RawTypeOK
<1> QED BY <1>1, <1>2, <1>3 DEF Identity, Known

(* The inductive invariant of the identities, on top of the base.          *)
THEOREM IdentityInvariant == Spec => []Identity
<1>1. Init => Identity
  BY DEF Init, DBInit, Identity, Known, Working, Parsed
<1>2. Base /\ Identity /\ [Next]_vars => Identity'
  <2> SUFFICES ASSUME Base, Identity, [Next]_vars PROVE Identity'
    OBVIOUS
  <2>1. CASE UNCHANGED vars \/ Terminate
    BY <2>1 DEF vars, Terminate, Crash, Identity, Known, clientVars, localVars, rawVars, logVars,
                dbVars
  <2>2. ASSUME NEW c \in Conns, Client(c) \/ Serve(c) \/ Handler(c) \/ RawSaver(c)
        PROVE  Identity'
    BY <2>2, ClientIdentity, HandlerIdentity, RawSaverIdentity
  <2> QED BY <2>1, <2>2 DEF Next
<1> QED BY <1>1, <1>2, BaseInvariant, PTL DEF Spec

(* Nothing of one tracker is stored or published under the identity of     *)
(* another, for any number of trackers served at once.                     *)
THEOREM IdentityCorrect == Spec => []OneIdentityPerConnection
<1>1. Identity => OneIdentityPerConnection
  BY DEF Identity, OneIdentityPerConnection
<1> QED BY <1>1, IdentityInvariant, PTL
=============================================================================
