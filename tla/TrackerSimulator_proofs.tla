----------------------- MODULE TrackerSimulator_proofs -----------------------
(***************************************************************************)
(* Theorems about TrackerSimulator: the simulator is a client of           *)
(* HandleConnection, so that what is proved of the handlers holds for it;  *)
(* and what it logs as sent, the server accounts for.                      *)
(***************************************************************************)
EXTENDS TrackerSimulator, Storage_proofs, StopAndWait_proofs, LedgerRefinement_proofs

LEMMA SenderStep ==
  ASSUME NEW c \in Conns, Sender(c)
  PROVE  Client(c) \/ UNCHANGED vars
BY DEF Sender, AuthenticateIMEI, AuthenticateIMEIFails, ReadAccept, ReadFailsAt, SenderFails,
       SendRandomPoints, SendRandomPointsFails, ReadCount, Client

(* Every step of the simulators and of the server is one of HandleConnection *)
(* or leaves it alone.                                                     *)
LEMMA SimStep == [SimNext]_allVars => [Next]_vars
<1> SUFFICES ASSUME [SimNext]_allVars PROVE [Next]_vars
  OBVIOUS
<1>1. CASE UNCHANGED allVars
  BY <1>1 DEF allVars
<1>2. ASSUME NEW c \in Conns, Sender(c) PROVE [Next]_vars
  BY <1>2, SenderStep DEF Next
<1>3. ASSUME NEW c \in Conns, Simulator(c), ~Sender(c) PROVE [Next]_vars
  <2>1. Client(c) \/ UNCHANGED vars
    BY <1>3 DEF Simulator, Connect, ConnectFails, Signal, Kill, EndProcess, Stop, StopCloses,
                Exit, Client
  <2> QED BY <2>1 DEF Next
<1>4. ASSUME NEW c \in Conns, Server(c) PROVE [Next]_vars
  BY <1>4 DEF Server, Next
<1>5. CASE Terminate
  BY <1>5 DEF Next
<1> QED BY <1>1, <1>2, <1>3, <1>4, <1>5 DEF SimNext

(* The simulator is a client as HandleConnection assumes: whatever it and  *)
(* the server do is a behaviour of that specification.                     *)
THEOREM SimulatorIsClient == SimSpec => SimulatorsAreClients
<1>1. SimInit => Init
  BY DEF SimInit
<1> QED BY <1>1, SimStep, PTL DEF SimSpec, SimulatorsAreClients, Spec

(* So everything that is proved of the handlers is true in front of real   *)
(* simulators, killed or stopped as they may be: what is answered is       *)
(* accounted for, batches are whole, no identity is mixed up, and a        *)
(* simulator gets the answer to what it sent and waits for no handler that *)
(* waits for it.                                                           *)
THEOREM SimulatorKeepsLedger ==
  SimSpec => []( /\ AckedPacketsAccountedFor /\ BatchesAreAtomic
                 /\ OneIdentityPerConnection /\ RawPayloadsIntact
                 /\ PoolSlotsBalanced /\ NoRawBufferForgotten
                 /\ StoreFollowsPublish /\ AnswersMatchRequests
                 /\ NeverBothWait )
BY SimulatorIsClient, AcksCorrect, BatchesCorrect, IdentityCorrect, RawPayloadsCorrect,
   PoolCorrect, RawBuffersCorrect, AnnouncedFirst, AnswersCorrect, NoMutualWait, PTL
   DEF SimulatorsAreClients

(* Server and simulators together implement the abstract ledger.           *)
THEOREM SimulatorImplementsLedger == SimSpec => ImplementsLedger
BY SimulatorIsClient, HandlersImplementLedger, PTL DEF SimulatorsAreClients

-----------------------------------------------------------------------------

(* The sender logs one count for each packet it sent, but for the one it   *)
(* waits for; what it logged, the server had answered; and a process ends  *)
(* with both of its goroutines.                                            *)
Counting(c) ==
  /\ at[c].sender \in {"none", "auth", "authRead"} => sent[c] = 0 /\ logged[c] = <<>>
  /\ at[c].sender = "send" => sent[c] = Len(logged[c])
  /\ at[c].sender = "ackRead" => sent[c] = Len(logged[c]) + 1 /\ last[c] \in Packets

LoggedOnceAnswered(c) ==
  \A k \in 1..Len(logged[c]) : [conn |-> c, round |-> k + 1, n |-> logged[c][k]] \in acked

Together(c) ==
  /\ at[c].main = "connect" <=> at[c].sender = "none"
  /\ at[c].main = "exited" <=> at[c].sender = "exited"

Logging == \A c \in Conns : Counting(c) /\ LoggedOnceAnswered(c) /\ Together(c)

Seated ==
  /\ at \in [Conns -> [main : Places, sender : Places]]
  /\ logged \in [Conns -> Seq(PacketSizes)]
  /\ refused \subseteq Conns \X (1..MaxPackets)
  /\ Logging

AtType == at \in [Conns -> [main : Places, sender : Places]]

(* What a goroutine's move does to its process.                            *)
LEMMA MoveSender ==
  ASSUME AtType, NEW c \in Conns, NEW from, NEW to \in Places, Move(c, "sender", from, to)
  PROVE  /\ AtType' /\ \A d \in Conns \ {c} : at'[d] = at[d]
         /\ at[c].sender = from /\ at'[c].sender = to /\ at'[c].main = at[c].main
BY DEF Move, AtType

LEMMA MoveMain ==
  ASSUME AtType, NEW c \in Conns, NEW from, NEW to \in Places, Move(c, "main", from, to)
  PROVE  /\ AtType' /\ \A d \in Conns \ {c} : at'[d] = at[d]
         /\ at[c].main = from /\ at'[c].main = to /\ at'[c].sender = at[c].sender
BY DEF Move, AtType

LEMMA EndBoth ==
  ASSUME AtType, NEW c \in Conns, EndProcess(c)
  PROVE  /\ AtType' /\ \A d \in Conns \ {c} : at'[d] = at[d]
         /\ at'[c].main = "exited" /\ at'[c].sender = "exited"
         /\ UNCHANGED <<sent, last, acked, logged, refused>>
BY DEF EndProcess, AtType, Places, HangUp, vars, clientVars, logVars

LEMMA AckedGrows == [Next]_vars => acked \subseteq acked'
<1> SUFFICES ASSUME [Next]_vars PROVE acked \subseteq acked'
  OBVIOUS
<1>1. ASSUME NEW c \in Conns, Client(c) \/ Serve(c) PROVE acked' = acked
  BY <1>1 DEF logVars, Client, Dial, SendIMEI, GetAccept, SendPacket, GetAck, HangUp, Serve
<1>2. ASSUME NEW c \in Conns, RawSaver(c) PROVE acked' = acked
  BY <1>2 DEF logVars, RawSaver, SaveRawData, SaveRawDataFails, AppendRawDataFails, SendRawData
<1>3. ASSUME NEW c \in Conns, SaveAvlPoints(c) PROVE acked' = acked
  BY <1>3 DEF logVars, SaveAvlPoints, PrepareAvlPoints, PrepareAvlPointsFails, AppendPoint,
              AppendPointFails, SendBatch
<1>4. ASSUME NEW c \in Conns, Handler(c), ~SaveAvlPoints(c) PROVE acked \subseteq acked'
  <2>1. CASE ResponseAcceptDataPack(c)
    BY <2>1 DEF ResponseAcceptDataPack
  <2>2. CASE ReadFails(c) \/ ReadIMEI(c) \/ ResponseAcceptIMEI(c) \/ ReadPacket(c)
    BY <2>2 DEF logVars, ReadFails, ReadIMEI, ResponseAcceptIMEI, ReadPacket
  <2>3. CASE \/ ParseAccepts(c) \/ ParseRefuses(c) \/ ParsePanics(c)
             \/ PublishLastPoint(c) \/ PublishPanics(c) \/ WgDone(c) \/ CloseConn(c)
    BY <2>3 DEF logVars, ParseAccepts, ParseRefuses, ParsePanics, PublishLastPoint,
                PublishPanics, WgDone, CloseConn, Panic
  <2> QED BY <1>4, <2>1, <2>2, <2>3 DEF Handler
<1>5. CASE Terminate \/ UNCHANGED vars
  BY <1>5 DEF Terminate, Crash, vars, logVars
<1> QED BY <1>1, <1>2, <1>3, <1>4, <1>5 DEF Next

(* What the process of one connection knows does not depend on another.    *)
LEMMA LoggingStays ==
  ASSUME Logging, acked \subseteq acked', NEW d \in Conns,
         at'[d] = at[d], logged'[d] = logged[d], sent'[d] = sent[d], last'[d] = last[d]
  PROVE  Counting(d)' /\ LoggedOnceAnswered(d)' /\ Together(d)'
BY DEF Logging, Counting, LoggedOnceAnswered, Together

(* A step that logs nothing, and sends nothing.                            *)
LEMMA QuietStep ==
  ASSUME Seated, acked \subseteq acked', UNCHANGED <<sent, last, logged, refused>>, AtType',
         NEW c \in Conns, \A d \in Conns \ {c} : at'[d] = at[d],
         Together(c)', Counting(c)'
  PROVE  Seated'
<1>1. LoggedOnceAnswered(c)'
  BY DEF Seated, Logging, LoggedOnceAnswered
<1>2. \A d \in Conns \ {c} : Counting(d)' /\ LoggedOnceAnswered(d)' /\ Together(d)'
  BY LoggingStays DEF Seated
<1> QED BY <1>1, <1>2 DEF Seated, Logging, AtType

LEMMA SenderSeats ==
  ASSUME Base, Phases, Seated, NEW c \in Conns, Sender(c)
  PROVE  Seated'
<1>1. /\ AtType /\ acked' = acked /\ Counting(c) /\ Together(c) /\ LoggedOnceAnswered(c)
      /\ sent \in [Conns -> 0..MaxPackets] /\ MaxPackets \in Nat
      /\ last \in [Conns -> Packets \cup {NoPacket}] /\ logged \in [Conns -> Seq(PacketSizes)]
  <2>1. acked' = acked
    BY SenderStep DEF vars, logVars, Client, Dial, SendIMEI, GetAccept, SendPacket, GetAck, HangUp
  <2> QED BY <2>1, MaxPacketsAssumption
          DEF Seated, AtType, Logging, Base, TypeOK, ClientTypeOK
<1>2. ASSUME NEW place \in {"auth", "authRead", "send", "ackRead"}, SenderFails(c, place)
      PROVE  Seated'
  <2>1. /\ at[c].sender = place /\ at'[c].sender = "stop" /\ at'[c].main = at[c].main
        /\ AtType' /\ \A d \in Conns \ {c} : at'[d] = at[d]
    BY <1>1, <1>2, MoveSender DEF SenderFails, Places
  <2>2. UNCHANGED <<sent, last, logged, refused>>
    BY <1>2 DEF SenderFails, vars, clientVars
  <2>3. Together(c)' /\ Counting(c)'
    BY <1>1, <2>1 DEF Together, Counting
  <2> QED BY <1>1, <2>1, <2>2, <2>3, QuietStep
<1>3. CASE AuthenticateIMEI(c)
  <2>1. /\ at[c].sender = "auth" /\ at'[c].sender = "authRead" /\ at'[c].main = at[c].main
        /\ AtType' /\ \A d \in Conns \ {c} : at'[d] = at[d]
    BY <1>1, <1>3, MoveSender DEF AuthenticateIMEI, Places
  <2>2. UNCHANGED <<sent, last, logged, refused>>
    BY <1>3 DEF AuthenticateIMEI, SendIMEI
  <2>3. Together(c)' /\ Counting(c)'
    BY <1>1, <2>1, <2>2 DEF Together, Counting
  <2> QED BY <1>1, <2>1, <2>2, <2>3, QuietStep
<1>4. CASE ReadAccept(c) /\ ~SenderFails(c, "authRead")
  <2>1. /\ Move(c, "sender", "authRead", "send") /\ GetAccept(c)
        /\ UNCHANGED <<logged, refused>>
    BY <1>4 DEF ReadAccept
  <2>2. /\ at[c].sender = "authRead" /\ at'[c].sender = "send" /\ at'[c].main = at[c].main
        /\ AtType' /\ \A d \in Conns \ {c} : at'[d] = at[d]
    BY <1>1, <2>1, MoveSender DEF Places
  <2>3. UNCHANGED <<sent, last>>
    BY <2>1 DEF GetAccept
  <2>4. Together(c)' /\ Counting(c)'
    BY <1>1, <2>1, <2>2, <2>3 DEF Together, Counting
  <2> QED BY <1>1, <2>1, <2>2, <2>3, <2>4, QuietStep
<1>5. CASE SendRandomPoints(c)
  <2>1. /\ at[c].sender = "send" /\ at'[c].sender = "ackRead" /\ at'[c].main = at[c].main
        /\ AtType' /\ \A d \in Conns \ {c} : at'[d] = at[d]
    BY <1>1, <1>5, MoveSender DEF SendRandomPoints, Places
  <2>2. /\ UNCHANGED <<logged, refused>> /\ sent' = [sent EXCEPT ![c] = @ + 1]
        /\ \E p \in Packets : last' = [last EXCEPT ![c] = p]
    BY <1>5 DEF SendRandomPoints, SendPacket
  <2>3. Together(c)' /\ Counting(c)' /\ LoggedOnceAnswered(c)'
    BY <1>1, <2>1, <2>2 DEF Together, Counting, LoggedOnceAnswered
  <2>4. \A d \in Conns \ {c} : Counting(d)' /\ LoggedOnceAnswered(d)' /\ Together(d)'
    BY <1>1, <2>1, <2>2, LoggingStays DEF Seated
  <2> QED BY <2>1, <2>2, <2>3, <2>4 DEF Seated, Logging, AtType
<1>6. CASE ReadCount(c)
  <2>1. at[c].sender = "ackRead" /\ sent[c] = Len(logged[c]) + 1 /\ last[c] \in Packets
    BY <1>1, <1>6 DEF ReadCount, Counting
  <2>2. ASSUME Move(c, "sender", "ackRead", "send"), GetAck(c), UNCHANGED refused,
               logged' = [logged EXCEPT ![c] = Append(@, last[c].n)]
        PROVE  Seated'
    <3>1. /\ at'[c].sender = "send" /\ at'[c].main = at[c].main
          /\ AtType' /\ \A d \in Conns \ {c} : at'[d] = at[d]
      BY <1>1, <2>2, MoveSender DEF Places
    <3>2. UNCHANGED <<sent, last>> /\ peer[c] = "waitAck" /\ inbox[c] # <<>>
      BY <2>2 DEF GetAck
    <3>3. [conn |-> c, round |-> sent[c] + 1, n |-> last[c].n] \in acked
      BY <3>2 DEF Phases, Phase, Answered
    <3>4. last[c].n \in PacketSizes
      BY <2>1, SimulatedPackets
    <3>5. /\ logged' \in [Conns -> Seq(PacketSizes)]
          /\ Len(logged'[c]) = Len(logged[c]) + 1 /\ logged[c] \in Seq(PacketSizes)
          /\ logged'[c] = Append(logged[c], last[c].n)
          /\ \A d \in Conns \ {c} : logged'[d] = logged[d]
      BY <1>1, <2>2, <3>4
    <3>6. LoggedOnceAnswered(c)'
      <4> SUFFICES ASSUME NEW k \in 1..Len(logged'[c])
                   PROVE  [conn |-> c, round |-> k + 1, n |-> logged'[c][k]] \in acked
        BY <1>1 DEF LoggedOnceAnswered
      <4>1. CASE k = Len(logged[c]) + 1
        <5>1. logged'[c][k] = last[c].n /\ k = sent[c]
          BY <2>1, <3>5, <4>1
        <5> QED BY <3>3, <5>1
      <4>2. CASE k # Len(logged[c]) + 1
        <5>1. k \in 1..Len(logged[c]) /\ logged'[c][k] = logged[c][k]
          BY <3>5, <4>2
        <5> QED BY <1>1, <5>1 DEF LoggedOnceAnswered
      <4> QED BY <4>1, <4>2
    <3>7. Together(c)' /\ Counting(c)'
      BY <1>1, <2>1, <3>1, <3>2, <3>5 DEF Together, Counting
    <3>8. \A d \in Conns \ {c} : Counting(d)' /\ LoggedOnceAnswered(d)' /\ Together(d)'
      BY <1>1, <3>1, <3>2, <3>5, LoggingStays DEF Seated
    <3> QED BY <2>2, <3>1, <3>2, <3>5, <3>6, <3>7, <3>8 DEF Seated, Logging, AtType
  <2>3. ASSUME Move(c, "sender", "ackRead", "stop"), refused' = refused \cup {<<c, sent[c]>>},
               UNCHANGED <<vars, logged>>
        PROVE  Seated'
    <3>1. /\ at'[c].sender = "stop" /\ at'[c].main = at[c].main
          /\ AtType' /\ \A d \in Conns \ {c} : at'[d] = at[d]
      BY <1>1, <2>3, MoveSender DEF Places
    <3>2. UNCHANGED <<sent, last, logged>>
      BY <2>3 DEF vars, clientVars
    <3>3. sent[c] \in 1..MaxPackets
      BY <1>1, <2>1
    <3>4. refused' \subseteq Conns \X (1..MaxPackets)
      BY <2>3, <3>3 DEF Seated
    <3>5. Together(c)' /\ Counting(c)' /\ LoggedOnceAnswered(c)'
      BY <1>1, <2>1, <3>1, <3>2 DEF Together, Counting, LoggedOnceAnswered
    <3>6. \A d \in Conns \ {c} : Counting(d)' /\ LoggedOnceAnswered(d)' /\ Together(d)'
      BY <1>1, <3>1, <3>2, LoggingStays DEF Seated
    <3> QED BY <3>1, <3>2, <3>4, <3>5, <3>6 DEF Seated, Logging, AtType
  <2> QED BY <1>6, <2>2, <2>3 DEF ReadCount
<1> QED BY <1>2, <1>3, <1>4, <1>5, <1>6
        DEF Sender, AuthenticateIMEIFails, ReadFailsAt, SendRandomPointsFails

LEMMA MainSeats ==
  ASSUME Base, Seated, NEW c \in Conns, Simulator(c), ~Sender(c)
  PROVE  Seated'
<1>1. AtType /\ Counting(c) /\ Together(c)
  BY DEF Seated, AtType, Logging
<1>2. CASE Connect(c)
  <2>1. /\ at[c].main = "connect" /\ at' = [at EXCEPT ![c] = [main |-> "wait", sender |-> "auth"]]
        /\ UNCHANGED <<sent, last, acked, logged, refused>>
    BY <1>2 DEF Connect, Dial, logVars
  <2>2. /\ AtType' /\ \A d \in Conns \ {c} : at'[d] = at[d]
        /\ at'[c].main = "wait" /\ at'[c].sender = "auth"
    BY <1>1, <2>1 DEF AtType, Places
  <2>3. Together(c)' /\ Counting(c)'
    BY <1>1, <2>1, <2>2 DEF Together, Counting
  <2> QED BY <2>1, <2>2, <2>3, QuietStep
<1>3. CASE EndProcess(c)
  <2>1. Together(c)' /\ Counting(c)'
    BY <1>1, <1>3, EndBoth DEF Together, Counting
  <2> QED BY <1>1, <1>3, <2>1, EndBoth, QuietStep
<1>4. CASE Signal(c)
  <2>1. /\ at[c].main = "wait" /\ at'[c].main = "stop" /\ at'[c].sender = at[c].sender
        /\ AtType' /\ \A d \in Conns \ {c} : at'[d] = at[d]
    BY <1>1, <1>4, MoveMain DEF Signal, Places
  <2>2. UNCHANGED <<sent, last, acked, logged, refused>>
    BY <1>4 DEF Signal, vars, clientVars, logVars
  <2>3. Together(c)' /\ Counting(c)'
    BY <1>1, <2>1, <2>2 DEF Together, Counting
  <2> QED BY <2>1, <2>2, <2>3, QuietStep
<1>5. ASSUME NEW g \in Goroutines, StopCloses(c, g) PROVE Seated'
  <2>1. UNCHANGED <<sent, last, acked, logged, refused>>
    BY <1>5 DEF StopCloses, HangUp, vars, clientVars, logVars
  <2>2. CASE g = "main"
    <3>1. /\ at[c].main = "stop" /\ at'[c].main = "stopped" /\ at'[c].sender = at[c].sender
          /\ AtType' /\ \A d \in Conns \ {c} : at'[d] = at[d]
      BY <1>1, <1>5, <2>2, MoveMain DEF StopCloses, Places
    <3>2. Together(c)' /\ Counting(c)'
      BY <1>1, <2>1, <3>1 DEF Together, Counting
    <3> QED BY <2>1, <3>1, <3>2, QuietStep
  <2>3. CASE g = "sender"
    <3>1. /\ at[c].sender = "stop" /\ at'[c].sender = "stopped" /\ at'[c].main = at[c].main
          /\ AtType' /\ \A d \in Conns \ {c} : at'[d] = at[d]
      BY <1>1, <1>5, <2>3, MoveSender DEF StopCloses, Places
    <3>2. Together(c)' /\ Counting(c)'
      BY <1>1, <2>1, <3>1 DEF Together, Counting
    <3> QED BY <2>1, <3>1, <3>2, QuietStep
  <2> QED BY <2>2, <2>3 DEF Goroutines
<1> QED BY <1>2, <1>3, <1>4, <1>5 DEF Simulator, ConnectFails, Kill, Stop, Exit

LEMMA NextSeated == Base /\ Phases /\ Seated /\ [SimNext]_allVars => Seated'
<1> SUFFICES ASSUME Base, Phases, Seated, [SimNext]_allVars PROVE Seated'
  OBVIOUS
<1>1. ASSUME NEW c \in Conns, Simulator(c) PROVE Seated'
  BY <1>1, SenderSeats, MainSeats
<1>2. ASSUME UNCHANGED simVars, UNCHANGED <<sent, last>> PROVE Seated'
  <2>1. acked \subseteq acked'
    BY SimStep, AckedGrows
  <2>2. \A d \in Conns : Counting(d)' /\ LoggedOnceAnswered(d)' /\ Together(d)'
    BY <1>2, <2>1, LoggingStays DEF Seated, simVars
  <2> QED BY <1>2, <2>2 DEF Seated, Logging, simVars
<1>3. ASSUME NEW c \in Conns, Server(c) PROVE Seated'
  <2>1. UNCHANGED clientVars
    BY <1>3 DEF Server, Serve, RawSaver, SaveRawData, SaveRawDataFails, AppendRawDataFails,
                SendRawData, Handler, ReadFails, ReadIMEI, ResponseAcceptIMEI, ReadPacket,
                ParseAccepts, ParseRefuses, ParsePanics, PublishLastPoint, PublishPanics,
                SaveAvlPoints, PrepareAvlPoints, PrepareAvlPointsFails, AppendPoint,
                AppendPointFails, SendBatch, ResponseAcceptDataPack, WgDone, CloseConn, Panic
  <2> QED BY <1>2, <1>3, <2>1 DEF Server, clientVars
<1>4. CASE Terminate /\ UNCHANGED simVars
  BY <1>2, <1>4 DEF Terminate, Crash, clientVars
<1>5. CASE UNCHANGED allVars
  BY <1>2, <1>5 DEF allVars, vars, clientVars
<1> QED BY <1>1, <1>3, <1>4, <1>5 DEF SimNext

(* What the simulators know of their packets is an invariant, on top of    *)
(* the base and the phases of the handlers they talk to.                   *)
THEOREM SeatedInvariant == SimSpec => []Seated
<1>1. SimInit => Seated
  BY MaxPacketsAssumption
     DEF SimInit, Init, Seated, Logging, Counting, LoggedOnceAnswered, Together, Places
<1> QED
  BY <1>1, NextSeated, SimulatorIsClient, BaseInvariant, PhasesInvariant, PTL
     DEF SimSpec, SimulatorsAreClients

(* The two goroutines are at places of theirs, the counts they log are     *)
(* those of packets they send, and their process ends with both of them.   *)
THEOREM SimTypeCorrect == SimSpec => []SimTypeOK
<1>1. Seated => SimTypeOK
  BY DEF Seated, Logging, Together, SimTypeOK
<1> QED BY <1>1, SeatedInvariant, PTL

(* "Sent n points to the server" is true end to end: the n points of that  *)
(* packet are in the table, or the server logged that it could not store   *)
(* them.                                                                   *)
THEOREM LogsCorrect == SimSpec => []LoggedPointsAccountedFor
<1>1. Seated /\ AckedPacketsAccountedFor => LoggedPointsAccountedFor
  <2> SUFFICES ASSUME Seated, AckedPacketsAccountedFor, NEW c \in Conns,
                      NEW k \in DOMAIN logged[c]
               PROVE  \/ StoredIndices(c, k + 1) = 1..logged[c][k]
                      \/ <<"save", c, k + 1>> \in errors
    BY DEF LoggedPointsAccountedFor
  <2> DEFINE answer == [conn |-> c, round |-> k + 1, n |-> logged[c][k]]
  <2>1. k \in 1..Len(logged[c])
    BY DEF Seated
  <2>2. answer \in acked
    BY <2>1 DEF Seated, Logging, LoggedOnceAnswered
  <2>3. answer.conn = c /\ answer.round = k + 1 /\ answer.n = logged[c][k]
    OBVIOUS
  <2> QED BY <2>2, <2>3 DEF AckedPacketsAccountedFor
<1> QED
  BY <1>1, SeatedInvariant, SimulatorIsClient, AcksCorrect, PTL DEF SimulatorsAreClients
=============================================================================
