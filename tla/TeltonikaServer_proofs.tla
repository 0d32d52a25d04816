----------------------- MODULE TeltonikaServer_proofs -----------------------
(***************************************************************************)
(* The server implements the handlers' specification, so what was proved   *)
(* of HandleConnection holds inside it; Stop waits for the handlers that   *)
(* were at work when it was called, and leaves one connection behind at    *)
(* most, for any number of connections.                                    *)
(***************************************************************************)
EXTENDS TeltonikaServer, Storage_proofs, StopAndWait_proofs, LedgerRefinement_proofs

(* Every step of the server is a step of its handlers, or none.            *)
LEMMA ServerStep == [ServerNext]_allVars => [Next]_vars
<1> SUFFICES ASSUME [ServerNext]_allVars PROVE [Next]_vars
  OBVIOUS
<1>1. CASE Boot \/ Signal \/ CheckLn \/ CloseLn \/ CloseQuitChan \/ Wait \/ Start
  BY <1>1 DEF Boot, Signal, CheckLn, CloseLn, CloseQuitChan, Wait, Start, Listen, ListenFails,
              SetLn, SpawnAcceptor, StartReturns
<1>2. CASE BootFails \/ Exit
  BY <1>2 DEF BootFails, Exit, Next
<1>3. CASE AcceptConnections
  BY <1>3 DEF AcceptConnections, AcceptClosed, Accept, HandOver, AddPanics, Next
<1>4. ASSUME NEW c \in Conns, ClientStep(c) \/ HandlerStep(c) \/ RawSaverStep(c)
      PROVE  [Next]_vars
  BY <1>4 DEF ClientStep, HandlerStep, RawSaverStep, Next
<1>5. CASE PanicEnds
  BY <1>5 DEF PanicEnds, Dies, Terminate, Running, Next
<1>6. CASE UNCHANGED allVars
  BY <1>6 DEF allVars
<1> QED BY <1>1, <1>2, <1>3, <1>4, <1>5, <1>6 DEF ServerNext, Stop

(* The handlers inside the server behave as HandleConnection says.         *)
THEOREM ServerImplementsHandlers == ServerSpec => HandlersRefine
<1>1. ServerInit => Init
  BY DEF ServerInit
<1> QED BY <1>1, ServerStep, PTL DEF ServerSpec, HandlersRefine, Spec

(* So a server that boots, accepts and stops in any order acknowledges     *)
(* only what it accounts for, stores whole batches and mixes no identity.  *)
(* It keeps no pooled connection, forgets no raw buffer, stores nothing    *)
(* that it did not announce, answers what it was asked, and never waits    *)
(* for a tracker that waits for it.                                        *)
THEOREM ServerKeepsLedger ==
  ServerSpec => []( /\ AckedPacketsAccountedFor /\ BatchesAreAtomic
                    /\ OneIdentityPerConnection /\ RawPayloadsIntact
                    /\ PoolSlotsBalanced /\ NoRawBufferForgotten
                    /\ StoreFollowsPublish /\ AnswersMatchRequests
                    /\ NeverBothWait )
BY ServerImplementsHandlers, AcksCorrect, BatchesCorrect, IdentityCorrect, RawPayloadsCorrect,
   PoolCorrect, RawBuffersCorrect, AnnouncedFirst, AnswersCorrect, NoMutualWait, PTL
   DEF HandlersRefine

(* And it is an implementation of the abstract ledger, from boot to stop:  *)
(* a signal, a listener that is closed under the acceptor or a command     *)
(* that returns while handlers run adds nothing that a ledger with crashes *)
(* does not do.                                                            *)
THEOREM ServerImplementsLedger == ServerSpec => ImplementsLedger
BY ServerImplementsHandlers, HandlersImplementLedger, PTL DEF HandlersRefine

-----------------------------------------------------------------------------

(* Why Stop is right: the connections it has to wait for were handed over  *)
(* before, main leaves wg.Wait only when the counter was zero, and the     *)
(* counter is the number of handlers at work.                              *)
Past == {"released", "return", "exited"}

Drained ==
  /\ main \in {"connect", "serving"} => atStop = {}
  /\ atStop \subseteq Conns
  /\ \A c \in atStop : pc[c] # "idle"
  /\ main \in Past => \A c \in atStop : pc[c] \in {"close", "gone"}

(* No step takes a handler back into service.                              *)
LEMMA NeverBack ==
  ASSUME Base, [Next]_vars, NEW d \in Conns
  PROVE  /\ pc[d] # "idle" => pc'[d] # "idle"
         /\ pc[d] \in {"close", "gone"} => pc'[d] \in {"close", "gone"}
<1>1. pc \in [Conns -> Labels]
  BY DEF Base, TypeOK, ControlTypeOK
<1>2. ASSUME NEW c \in Conns, Client(c) \/ RawSaver(c) \/ Terminate \/ UNCHANGED vars
      PROVE  pc' = pc
  BY <1>2 DEF vars, Terminate, Crash, Client, Dial, SendIMEI, GetAccept, SendPacket, GetAck,
              HangUp, RawSaver, SaveRawData, SaveRawDataFails, AppendRawDataFails, SendRawData
<1>3. ASSUME NEW c \in Conns, Serve(c)
      PROVE  /\ pc[d] # "idle" => pc'[d] # "idle"
             /\ pc[d] \in {"close", "gone"} => pc'[d] \in {"close", "gone"}
  BY <1>1, <1>3 DEF Serve
<1>4. ASSUME NEW c \in Conns \ {d}, Handler(c) PROVE pc'[d] = pc[d]
  BY <1>4, HandlerFrame
<1>5. CASE Handler(d)
  <2>1. /\ pc'[d] # "idle"
        /\ pc[d] \in {"close", "gone"} => pc'[d] \in {"close", "gone"}
    BY <1>1, <1>5
       DEF Handler, ReadFails, ReadIMEI, ResponseAcceptIMEI, ReadPacket, ParseAccepts,
           ParseRefuses, ParsePanics, PublishLastPoint, PublishPanics, SaveAvlPoints,
           PrepareAvlPoints, PrepareAvlPointsFails, AppendPoint, AppendPointFails,
           SendBatch, SaveReturns, ResponseAcceptDataPack, WgDone, CloseConn, Panic, At, Goto
  <2> QED BY <2>1
<1> QED BY <1>2, <1>3, <1>4, <1>5 DEF Next, vars, Terminate, Crash

(* At zero, nobody is at work.                                             *)
LEMMA ZeroMeansIdle ==
  ASSUME Base, wg = 0, NEW c \in Conns
  PROVE  pc[c] \in {"idle", "close", "gone"}
<1>1. Counted = {}
  BY CountedFinite, FS_EmptySet DEF Base
<1> QED BY <1>1 DEF Counted

LEMMA ZeroLeavesIdle ==
  ASSUME Base', wg' = 0
  PROVE  \A d \in Conns : pc'[d] \in {"idle", "close", "gone"}
<1>1. wg' = Cardinality(Counted') /\ IsFiniteSet(Counted')
  BY ConnsAssumption, FS_Subset DEF Base, Counted
<1>2. Counted' = {}
  BY <1>1, FS_EmptySet
<1>3. pc' \in [Conns -> Labels]
  BY DEF Base, TypeOK, ControlTypeOK
<1> QED BY <1>2, <1>3 DEF Counted

LEMMA StepDrains == Base /\ Base' /\ Drained /\ [ServerNext]_allVars => Drained'
<1> SUFFICES ASSUME Base, Base', Drained, [ServerNext]_allVars PROVE Drained'
  OBVIOUS
<1>1. \A d \in Conns : /\ pc[d] # "idle" => pc'[d] # "idle"
                       /\ pc[d] \in {"close", "gone"} => pc'[d] \in {"close", "gone"}
  BY ServerStep, NeverBack
<1>2. ASSUME atStop' = atStop, main' = main PROVE Drained'
  BY <1>1, <1>2 DEF Drained, Past
<1>3. CASE Signal
  <2>1. main' = "checkLn" /\ atStop' = {c \in Conns : InService(c)} /\ pc' = pc
    BY <1>3 DEF Signal, vars
  <2> QED BY <2>1 DEF Drained, Past, InService
<1>4. CASE Boot
  BY <1>1, <1>4 DEF Boot, Drained, Past, history
<1>5. CASE BootFails
  BY <1>1, <1>5 DEF BootFails, Drained, Past, history
<1>6. CASE CheckLn \/ CloseLn \/ CloseQuitChan
  BY <1>1, <1>6 DEF CheckLn, CloseLn, CloseQuitChan, Drained, Past, history
<1>7. CASE Wait
  <2>1. CASE wg = 0
    <3>1. pc' = pc /\ atStop' = atStop /\ main' = "return"
      BY <1>7, <2>1 DEF Wait, vars, history
    <3>2. \A c \in atStop : pc[c] \in {"close", "gone"}
      BY <2>1, ZeroMeansIdle DEF Drained
    <3> QED BY <1>1, <3>1, <3>2 DEF Drained
  <2>2. CASE wg # 0
    BY <1>1, <1>7, <2>2 DEF Wait, Drained, Past, history
  <2> QED BY <2>1, <2>2
<1>8. CASE Exit
  BY <1>1, <1>8 DEF Exit, Drained, Past, history
<1>9. ASSUME NEW c \in Conns, HandlerStep(c) PROVE Drained'
  <2>1. atStop' = atStop /\ Released
    BY <1>9 DEF HandlerStep, history
  <2>2. CASE main' = main
    BY <1>2, <2>1, <2>2
  <2>3. CASE main = "drain" /\ wg' = 0 /\ main' = "released"
    <3>1. \A d \in Conns : pc'[d] \in {"idle", "close", "gone"}
      BY <2>3, ZeroLeavesIdle
    <3> QED BY <1>1, <2>1, <2>3, <3>1 DEF Drained, Past
  <2> QED BY <2>1, <2>2, <2>3 DEF Released
<1>10. CASE Start \/ AcceptConnections
  BY <1>2, <1>10 DEF Start, Listen, ListenFails, SetLn, SpawnAcceptor, StartReturns,
                     AcceptConnections, AcceptClosed, Accept, HandOver, AddPanics, serverVars,
                     history
<1>11. ASSUME NEW c \in Conns, ClientStep(c) \/ RawSaverStep(c) PROVE Drained'
  BY <1>2, <1>11 DEF ClientStep, RawSaverStep, serverVars, history
<1>12. CASE UNCHANGED allVars
  BY <1>2, <1>12 DEF allVars, serverVars, history
<1>13. CASE PanicEnds
  BY <1>2, <1>13 DEF PanicEnds, serverVars, history
<1> QED
  BY <1>3, <1>4, <1>5, <1>6, <1>7, <1>8, <1>9, <1>10, <1>11, <1>12, <1>13 DEF ServerNext, Stop

(* A handler that was at work when the signal came has run its Done before *)
(* wg.Wait returns.                                                        *)
THEOREM StopCorrect == ServerSpec => []StopDrainsHandlers
<1>1. ServerInit => Drained
  BY DEF ServerInit, Drained, Past
<1>2. Drained => StopDrainsHandlers
  BY DEF Drained, Past, StopDrainsHandlers, InService
<1> QED
  BY <1>1, <1>2, StepDrains, ServerImplementsHandlers, BaseInvariant, PTL
     DEF ServerSpec, HandlersRefine

-----------------------------------------------------------------------------

(* The types of what the server adds to the handlers.                      *)
Flags ==
  /\ main \in {"connect", "serving", "checkLn", "closeLn", "quit", "wait", "drain",
               "released", "return", "exited"}
  /\ start \in {"none", "listen", "setLn", "spawn", "serving", "returned"}
  /\ lnSet \in BOOLEAN /\ quit \in BOOLEAN
  /\ listener \in {"none", "listening", "closed"}
  /\ acceptor \in {"none", "accept", "returned"}
  /\ inHand \subseteq Conns /\ seen \in BOOLEAN

LEMMA StepFlags == Flags /\ [ServerNext]_allVars => Flags'
<1> SUFFICES ASSUME Flags, [ServerNext]_allVars PROVE Flags'
  OBVIOUS
<1> USE DEF Flags, history
<1>1. CASE Boot \/ BootFails \/ Signal
  BY <1>1 DEF Boot, BootFails, Signal
<1>2. CASE Stop
  BY <1>2 DEF Stop, CheckLn, CloseLn, CloseQuitChan, Wait, Exit
<1>3. CASE Start
  BY <1>3 DEF Start, Listen, ListenFails, SetLn, SpawnAcceptor, StartReturns
<1>4. CASE AcceptConnections
  BY <1>4 DEF AcceptConnections, AcceptClosed, Accept, HandOver, AddPanics, serverVars
<1>5. ASSUME NEW c \in Conns, ClientStep(c) \/ HandlerStep(c) \/ RawSaverStep(c) PROVE Flags'
  BY <1>5 DEF ClientStep, HandlerStep, Released, RawSaverStep, serverVars
<1>6. CASE PanicEnds \/ UNCHANGED allVars
  BY <1>6 DEF PanicEnds, allVars, serverVars
<1> QED BY <1>1, <1>2, <1>3, <1>4, <1>5, <1>6 DEF ServerNext

(* Every variable of the server keeps to its type, and ts.wg is never      *)
(* negative, in whatever order the three goroutines boot, accept and stop. *)
THEOREM ServerTypeCorrect == ServerSpec => []ServerTypeOK
<1>1. ServerInit => Flags /\ Drained
  BY DEF ServerInit, Flags, Drained, Past
<1>2. TypeOK /\ Flags /\ Drained => ServerTypeOK
  BY DEF Flags, Drained, ServerTypeOK
<1> QED
  BY <1>1, <1>2, StepFlags, StepDrains, ServerImplementsHandlers, BaseInvariant, TypeCorrect,
     PTL DEF ServerSpec, HandlersRefine

-----------------------------------------------------------------------------

(* Whoever closes the listener does so after Start opened it, so that it   *)
(* is not opened again.                                                    *)
Opened ==
  /\ main = "connect" => start = "none"
  /\ main = "closeLn" => lnSet
  /\ lnSet \/ listener = "closed" => start \notin {"none", "listen"}

LEMMA StepOpened == Opened /\ [ServerNext]_allVars => Opened'
<1> SUFFICES ASSUME Opened, [ServerNext]_allVars PROVE Opened'
  OBVIOUS
<1> USE DEF Opened
<1>1. CASE Boot \/ BootFails \/ Signal
  BY <1>1 DEF Boot, BootFails, Signal
<1>2. CASE Stop
  BY <1>2 DEF Stop, CheckLn, CloseLn, CloseQuitChan, Wait, Exit
<1>3. CASE Start
  BY <1>3 DEF Start, Listen, ListenFails, SetLn, SpawnAcceptor, StartReturns
<1>4. CASE AcceptConnections
  BY <1>4 DEF AcceptConnections, AcceptClosed, Accept, HandOver, AddPanics, serverVars
<1>5. ASSUME NEW c \in Conns, ClientStep(c) \/ HandlerStep(c) \/ RawSaverStep(c) PROVE Opened'
  BY <1>5 DEF ClientStep, HandlerStep, Released, RawSaverStep, serverVars
<1>6. CASE PanicEnds \/ UNCHANGED allVars
  BY <1>6 DEF PanicEnds, allVars, serverVars
<1> QED BY <1>1, <1>2, <1>3, <1>4, <1>5, <1>6 DEF ServerNext

(* A listener that was closed stays so, and no connection is accepted from *)
(* it. Stop breaks its promise (NoAcceptAfterClose) when it finds ts.ln    *)
(* nil and closes nothing, and in no other way.                            *)
ClosedIsFinal ==
  [][listener = "closed" => listener' = "closed" /\ inHand' \subseteq inHand]_allVars

LEMMA StepClosed ==
  Opened /\ [ServerNext]_allVars =>
    [listener = "closed" => listener' = "closed" /\ inHand' \subseteq inHand]_allVars
<1> SUFFICES ASSUME Opened, [ServerNext]_allVars, listener = "closed"
             PROVE  listener' = "closed" /\ inHand' \subseteq inHand
  OBVIOUS
<1>1. CASE Boot \/ BootFails \/ Signal
  BY <1>1 DEF Boot, BootFails, Signal
<1>2. CASE Stop
  BY <1>2 DEF Stop, CheckLn, CloseLn, CloseQuitChan, Wait, Exit
<1>3. CASE Start
  BY <1>3 DEF Start, Listen, ListenFails, SetLn, SpawnAcceptor, StartReturns, Opened
<1>4. CASE AcceptConnections
  BY <1>4 DEF AcceptConnections, AcceptClosed, Accept, HandOver, AddPanics, serverVars
<1>5. ASSUME NEW c \in Conns, ClientStep(c) \/ HandlerStep(c) \/ RawSaverStep(c)
      PROVE  listener' = "closed" /\ inHand' \subseteq inHand
  BY <1>5 DEF ClientStep, HandlerStep, RawSaverStep, serverVars
<1>6. CASE PanicEnds \/ UNCHANGED allVars
  BY <1>6 DEF PanicEnds, allVars, serverVars
<1> QED BY <1>1, <1>2, <1>3, <1>4, <1>5, <1>6 DEF ServerNext

(* So the acceptor takes nothing more once Close was called, by Stop or by *)
(* the deferred call of Start (server.go 61-102).                          *)
THEOREM ClosedForGood == ServerSpec => ClosedIsFinal
<1>1. ServerInit => Opened
  BY DEF ServerInit, Opened
<1> QED BY <1>1, StepClosed, StepOpened, PTL DEF ServerSpec, ClosedIsFinal

-----------------------------------------------------------------------------

(* Who may still be served when main returns: the connections in service,  *)
(* and the one that Accept returned and that is not counted yet. Once the  *)
(* listener is closed nobody joins them, and at wg = 0 nobody is in        *)
(* service: the wait is over when only the hand of the acceptor can hold a *)
(* connection, and it holds one at most.                                   *)
Late == inHand \cup {c \in Conns : InService(c)}
AtMostOne(S) == S = {} \/ \E c \in Conns : S = {c}

LeftBehind ==
  /\ AtMostOne(inHand)
  /\ main \in {"connect", "serving", "checkLn"} => ~seen
  /\ seen /\ main # "closeLn" => listener = "closed"
  /\ seen /\ main \in Past => AtMostOne(Late)

(* A handler that runs was handed over before.                             *)
LEMMA HandlerWasServed ==
  ASSUME NEW c \in Conns, Handler(c)
  PROVE  pc[c] # "idle"
BY DEF Handler, ReadFails, ReadIMEI, ResponseAcceptIMEI, ReadPacket, ParseAccepts,
       ParseRefuses, ParsePanics, PublishLastPoint, PublishPanics, SaveAvlPoints,
       PrepareAvlPoints, PrepareAvlPointsFails, AppendPoint, AppendPointFails,
       SendBatch, ResponseAcceptDataPack, WgDone, CloseConn, At

(* A handler starts with the connection that was in hand.                  *)
LEMMA OnlyFromHand ==
  ASSUME Base, [ServerNext]_allVars, NEW d \in Conns, InService(d)', d \notin inHand
  PROVE  InService(d)
<1> SUFFICES ASSUME pc[d] = "idle" PROVE pc'[d] = "idle"
  BY ServerStep, NeverBack DEF InService
<1>1. ASSUME pc' = pc PROVE pc'[d] = "idle"
  BY <1>1
<1>2. CASE Boot \/ BootFails \/ Signal \/ Stop \/ Start
  BY <1>2 DEF Boot, BootFails, Signal, Stop, CheckLn, CloseLn, CloseQuitChan, Wait, Exit, Start,
              Listen, ListenFails, SetLn, SpawnAcceptor, StartReturns, Terminate, Crash, vars
<1>3. ASSUME NEW c \in Conns, AcceptClosed \/ Accept(c) \/ AddPanics(c)
      PROVE  pc'[d] = "idle"
  BY <1>3 DEF AcceptClosed, Accept, AddPanics, Terminate, Crash, vars
<1>4. ASSUME NEW c \in Conns, HandOver(c) PROVE pc'[d] = "idle"
  <2>1. c # d /\ pc' = [pc EXCEPT ![c] = "read"]
    BY <1>4 DEF HandOver, Serve
  <2> QED BY <2>1 DEF Base, TypeOK, ControlTypeOK
<1>5. ASSUME NEW c \in Conns, ClientStep(c) \/ RawSaverStep(c) PROVE pc'[d] = "idle"
  BY <1>1, <1>5 DEF ClientStep, Client, Dial, SendIMEI, GetAccept, SendPacket, GetAck, HangUp,
              RawSaverStep, RawSaver, SaveRawData, SaveRawDataFails, AppendRawDataFails,
              SendRawData
<1>6. ASSUME NEW c \in Conns, HandlerStep(c) PROVE pc'[d] = "idle"
  <2>1. Handler(c) /\ c # d
    BY <1>6, HandlerWasServed DEF HandlerStep
  <2> QED BY <2>1, HandlerFrame
<1>7. CASE PanicEnds \/ UNCHANGED allVars
  BY <1>7 DEF PanicEnds, Dies, Crash, allVars, vars
<1> QED
  BY <1>2, <1>3, <1>4, <1>5, <1>6, <1>7 DEF ServerNext, AcceptConnections

LEMMA StepHand == AtMostOne(inHand) /\ [ServerNext]_allVars => AtMostOne(inHand')
<1> SUFFICES ASSUME AtMostOne(inHand), [ServerNext]_allVars PROVE AtMostOne(inHand')
  OBVIOUS
<1> USE DEF AtMostOne
<1>1. CASE Boot \/ BootFails \/ Signal
  BY <1>1 DEF Boot, BootFails, Signal
<1>2. CASE Stop
  BY <1>2 DEF Stop, CheckLn, CloseLn, CloseQuitChan, Wait, Exit
<1>3. CASE Start
  BY <1>3 DEF Start, Listen, ListenFails, SetLn, SpawnAcceptor, StartReturns
<1>4. CASE AcceptConnections
  BY <1>4 DEF AcceptConnections, AcceptClosed, Accept, HandOver, AddPanics, serverVars
<1>5. ASSUME NEW c \in Conns, ClientStep(c) \/ HandlerStep(c) \/ RawSaverStep(c)
      PROVE  AtMostOne(inHand')
  BY <1>5 DEF ClientStep, HandlerStep, RawSaverStep, serverVars
<1>6. CASE PanicEnds \/ UNCHANGED allVars
  BY <1>6 DEF PanicEnds, allVars, serverVars
<1> QED BY <1>1, <1>2, <1>3, <1>4, <1>5, <1>6 DEF ServerNext

(* Stop goes one way, and closes the listener if it found one.             *)
LEMMA StepSeen ==
  ASSUME Opened, LeftBehind, [ServerNext]_allVars
  PROVE  /\ main' \in {"connect", "serving", "checkLn"} => ~seen'
         /\ seen' /\ main' # "closeLn" => listener' = "closed"
         /\ seen' /\ main' \in Past =>
              \/ seen /\ main \in Past
              \/ Wait /\ wg = 0
              \/ wg' = 0
<1>1. listener = "closed" => listener' = "closed"
  BY StepClosed DEF allVars, serverVars
<1>2. ASSUME UNCHANGED <<main, seen>>
      PROVE  /\ main' \in {"connect", "serving", "checkLn"} => ~seen'
             /\ seen' /\ main' # "closeLn" => listener' = "closed"
             /\ seen' /\ main' \in Past => seen /\ main \in Past
  BY <1>1, <1>2 DEF LeftBehind
<1>3. CASE Boot \/ BootFails \/ Signal
  BY <1>3 DEF Boot, BootFails, Signal, history, LeftBehind, Past
<1>4. CASE CheckLn \/ CloseLn \/ CloseQuitChan
  BY <1>1, <1>4 DEF CheckLn, CloseLn, CloseQuitChan, history, LeftBehind, Past
<1>5. CASE Wait \/ Exit
  BY <1>1, <1>5 DEF Wait, Exit, history, LeftBehind, Past
<1>6. ASSUME NEW c \in Conns, HandlerStep(c)
      PROVE  /\ main' \in {"connect", "serving", "checkLn"} => ~seen'
             /\ seen' /\ main' # "closeLn" => listener' = "closed"
             /\ seen' /\ main' \in Past => (seen /\ main \in Past) \/ wg' = 0
  BY <1>1, <1>6 DEF HandlerStep, Released, history, LeftBehind, Past
<1>7. CASE Start \/ AcceptConnections
  BY <1>2, <1>7 DEF Start, Listen, ListenFails, SetLn, SpawnAcceptor, StartReturns,
                    AcceptConnections, AcceptClosed, Accept, HandOver, AddPanics, serverVars,
                    history
<1>8. ASSUME NEW c \in Conns, ClientStep(c) \/ RawSaverStep(c)
      PROVE  UNCHANGED <<main, seen>>
  BY <1>8 DEF ClientStep, RawSaverStep, serverVars, history
<1>9. CASE PanicEnds \/ UNCHANGED allVars
  BY <1>2, <1>9 DEF PanicEnds, allVars, serverVars, history
<1> QED
  BY <1>2, <1>3, <1>4, <1>5, <1>6, <1>7, <1>8, <1>9 DEF ServerNext, Stop

LEMMA StepLeftBehind ==
  Base /\ Base' /\ Opened /\ LeftBehind /\ [ServerNext]_allVars => LeftBehind'
<1> SUFFICES ASSUME Base, Base', Opened, LeftBehind, [ServerNext]_allVars PROVE LeftBehind'
  OBVIOUS
<1>1. AtMostOne(inHand')
  BY StepHand DEF LeftBehind
<1>2. ASSUME seen, main \in Past PROVE AtMostOne(Late')
  <2>1. AtMostOne(Late) /\ listener = "closed"
    BY <1>2 DEF LeftBehind, Past
  <2>2. inHand' \subseteq inHand
    BY <2>1, StepClosed DEF allVars, serverVars
  <2>3. Late' \subseteq Late
    BY <2>2, OnlyFromHand DEF Late
  <2> QED BY <2>1, <2>3 DEF AtMostOne
<1>3. ASSUME \A d \in Conns : pc'[d] \in {"idle", "close", "gone"} PROVE AtMostOne(Late')
  <2>1. Late' = inHand'
    BY <1>3 DEF Late, InService
  <2> QED BY <1>1, <2>1
<1>4. CASE Wait /\ wg = 0
  <2>1. pc' = pc
    BY <1>4 DEF Wait, vars
  <2> QED BY <1>1, <1>3, <1>4, <2>1, StepSeen, ZeroMeansIdle DEF LeftBehind
<1>5. CASE wg' = 0
  BY <1>1, <1>3, <1>5, StepSeen, ZeroLeavesIdle DEF LeftBehind
<1>6. CASE ~(Wait /\ wg = 0) /\ wg' # 0
  BY <1>1, <1>2, <1>6, StepSeen DEF LeftBehind
<1> QED BY <1>4, <1>5, <1>6

(* Stop leaves one connection behind at most, if it found the listener:    *)
(* the one whose wg.Add it overtook.                                       *)
THEOREM LeftBehindCorrect == ServerSpec => []OneLeftBehind
<1>1. ServerInit => Opened /\ LeftBehind
  BY DEF ServerInit, Opened, LeftBehind, AtMostOne, Past
<1>2. LeftBehind => OneLeftBehind
  <2>1. Cardinality({}) = 0 /\ \A c \in Conns : Cardinality({c}) = 1
    BY FS_EmptySet, FS_Singleton
  <2>2. AtMostOne(Late) => Cardinality(Late) <= 1
    BY <2>1 DEF AtMostOne
  <2> QED BY <2>2 DEF LeftBehind, OneLeftBehind, Past, Late
<1> QED
  BY <1>1, <1>2, StepOpened, StepLeftBehind, ServerImplementsHandlers, BaseInvariant, PTL
     DEF ServerSpec, HandlersRefine

-----------------------------------------------------------------------------

(* main is not asleep in wg.Wait when nobody is left to wake it: the Done  *)
(* that reaches zero is never missed, also while connections are added to  *)
(* the WaitGroup that main waits for. It is what StopReturns rests on.     *)
SomebodyWillWake == main = "drain" /\ Running => \E c \in Conns : InService(c)

Waited == main = "drain" /\ Running => wg # 0

LEMMA StepWaited == Base /\ Waited /\ [ServerNext]_allVars => Waited'
<1> SUFFICES ASSUME Base, Waited, [ServerNext]_allVars PROVE Waited'
  OBVIOUS
<1>1. wg \in Nat
  BY CountedFinite, FS_CardinalityType DEF Base
<1>2. ASSUME main' # "drain" \/ proc' = "down" PROVE Waited'
  BY <1>2 DEF Waited, Running
<1>3. ASSUME main' = main, wg' = wg, proc' = proc \/ proc' = "down" PROVE Waited'
  BY <1>3 DEF Waited, Running
<1>4. CASE Boot \/ BootFails \/ Signal
  BY <1>2, <1>4 DEF Boot, BootFails, Signal
<1>5. CASE CheckLn \/ CloseLn \/ CloseQuitChan \/ Exit
  BY <1>2, <1>5 DEF CheckLn, CloseLn, CloseQuitChan, Exit
<1>6. CASE Wait
  BY <1>6 DEF Wait, Waited, vars
<1>7. CASE Start
  BY <1>3, <1>7 DEF Start, Listen, ListenFails, SetLn, SpawnAcceptor, StartReturns, vars
<1>8. CASE AcceptClosed
  BY <1>3, <1>8 DEF AcceptClosed, vars
<1>9. ASSUME NEW c \in Conns, Accept(c) PROVE Waited'
  BY <1>3, <1>9 DEF Accept, vars
<1>10. ASSUME NEW c \in Conns, HandOver(c) PROVE Waited'
  <2>1. wg' = wg + 1
    BY <1>10 DEF HandOver, Serve
  <2> QED BY <1>1, <2>1 DEF Waited
<1>11. ASSUME NEW c \in Conns, AddPanics(c) PROVE Waited'
  BY <1>2, <1>11 DEF AddPanics, Terminate, Crash
<1>12. ASSUME NEW c \in Conns, HandlerStep(c) PROVE Waited'
  <2>1. Released
    BY <1>12 DEF HandlerStep
  <2>2. CASE main' = "drain"
    <3>1. main = "drain" /\ wg' # 0
      BY <2>1, <2>2 DEF Released
    <3> QED BY <3>1 DEF Waited
  <2>3. CASE main' # "drain"
    BY <1>2, <2>3
  <2> QED BY <2>2, <2>3
<1>13. ASSUME NEW c \in Conns, ClientStep(c) \/ RawSaverStep(c) PROVE Waited'
  <2>1. main' = main /\ wg' = wg /\ (proc' = proc \/ proc' = "down")
    BY <1>13 DEF ClientStep, Client, Dial, SendIMEI, GetAccept, SendPacket, GetAck, HangUp,
                 RawSaverStep, RawSaver, SaveRawData, SaveRawDataFails, AppendRawDataFails,
                 SendRawData, serverVars, rawVars, logVars, Crash
  <2> QED BY <1>3, <2>1
<1>14. CASE PanicEnds \/ UNCHANGED allVars
  BY <1>3, <1>14 DEF PanicEnds, Dies, Crash, allVars, vars, serverVars
<1> QED
  BY <1>4, <1>5, <1>6, <1>7, <1>8, <1>9, <1>10, <1>11, <1>12, <1>13, <1>14
     DEF ServerNext, Stop, AcceptConnections

(* So main is never left in wg.Wait by handlers that are all gone, in      *)
(* whatever order they end and the acceptor adds more (server.go 88-101).  *)
THEOREM NoWakeUpLost == ServerSpec => []SomebodyWillWake
<1>1. ServerInit => Waited
  BY DEF ServerInit, Waited
<1>2. Base /\ Waited => SomebodyWillWake
  <2> SUFFICES ASSUME Base, wg # 0 PROVE \E c \in Conns : InService(c)
    BY DEF Waited, SomebodyWillWake
  <2>1. Counted # {}
    BY CountedFinite, FS_EmptySet DEF Base
  <2> QED BY <2>1 DEF Counted, InService
<1> QED
  BY <1>1, <1>2, StepWaited, ServerImplementsHandlers, BaseInvariant, PTL
     DEF ServerSpec, HandlersRefine
=============================================================================
