------------------------- MODULE StopAndWait_proofs -------------------------
(***************************************************************************)
(* The stop-and-wait protocol between a tracker and its handler: an answer *)
(* is that to what the client sent last, however its bytes were cut.       *)
(***************************************************************************)
EXTENDS Ledger_proofs

Ack(p) == <<0, 0, 0, p.n>>
Rest(p) == [packet |-> p, part |-> "rest"]

(* The handler waits at its loop, has read a packet, or left the loop.     *)
Before(c) == pc[c] \in {"idle", "read"} /\ ~authenticated[c] /\ Round(c) = 0 /\ sent[c] = 0
Looping(c) == pc[c] = "read" /\ authenticated[c]
Left(c) == pc[c] \in {"done", "close", "gone"}

(* It is about to take the rest of a packet for a packet, and refuse it.   *)
Straggling(c) ==
  \/ Looping(c) /\ wire[c] # <<>> /\ Head(wire[c]).part = "rest"
  \/ pc[c] = "parse" /\ Buf(c).part = "rest"
  \/ Left(c)

(* Everything that was sent has been read.                                 *)
Resting(c) == Looping(c) /\ wire[c] = <<>> /\ Round(c) = sent[c] + 1

Unread(c) == Looping(c) /\ wire[c] = <<Whole(last[c])>> /\ Round(c) = sent[c]
InWork(c) ==
  /\ pc[c] \in Working /\ Buf(c).packet = last[c] /\ Round(c) = sent[c] + 1
  /\ wire[c] \in {<<>>, <<Rest(last[c])>>}
Answered(c) ==
  /\ inbox[c] = <<Ack(last[c])>>
  /\ [conn |-> c, round |-> sent[c] + 1, n |-> last[c].n] \in acked
  /\ Buf(c).packet = last[c]
  /\ wire[c] \in {<<>>, <<Rest(last[c])>>}
  /\ Resting(c) \/ Straggling(c)

(* What each state of a client says of the stream and of its handler.      *)
Phase(c) ==
  /\ Len(inbox[c]) <= 1
  /\ peer[c] \in {"off", "open"} => inbox[c] = <<>> /\ wire[c] = <<>> /\ Before(c)
  /\ peer[c] = "waitAccept" =>
       \/ inbox[c] = <<>> /\ \/ wire[c] = <<Whole(NoPacket)>> /\ Before(c)
                             \/ wire[c] = <<>> /\ pc[c] = "accept" /\ Round(c) = 1 /\ sent[c] = 0
                             \/ Left(c)
       \/ inbox[c] = << <<1>> >> /\ Resting(c)
  /\ peer[c] = "ready" => inbox[c] = <<>> /\ (Resting(c) \/ Straggling(c))
  /\ peer[c] = "waitAck" =>
       \/ inbox[c] = <<>> /\ (Unread(c) \/ InWork(c) \/ Straggling(c))
       \/ Answered(c)

Phases == \A c \in Conns : Phase(c)
-----------------------------------------------------------------------------

(* What a phase depends on.                                                *)
LEMMA PhaseStays ==
  ASSUME NEW d \in Conns, Phase(d), acked \subseteq acked',
         inbox'[d] = inbox[d], peer'[d] = peer[d], wire'[d] = wire[d], pc'[d] = pc[d],
         authenticated'[d] = authenticated[d], received'[d] = received[d], heap'[d] = heap[d],
         sent'[d] = sent[d], last'[d] = last[d]
  PROVE  Phase(d)'
<1>1. /\ Before(d)' = Before(d) /\ Left(d)' = Left(d) /\ Looping(d)' = Looping(d)
      /\ Round(d)' = Round(d) /\ Buf(d)' = Buf(d)
  BY DEF Before, Left, Looping, Round, Buf
<1>2. /\ Straggling(d)' = Straggling(d) /\ Resting(d)' = Resting(d)
      /\ Unread(d)' = Unread(d) /\ InWork(d)' = InWork(d)
  BY <1>1 DEF Straggling, Resting, Unread, InWork
<1>3. Answered(d) => Answered(d)'
  BY <1>1, <1>2 DEF Answered
<1> QED BY <1>1, <1>2, <1>3 DEF Phase

(* A read takes the rest of a packet as it is, and of a whole message any  *)
(* part, of which it leaves the rest.                                      *)
LEMMA WhatIsRead ==
  ASSUME Base, NEW c \in Conns, NEW part \in Parts, Read(c, part)
  PROVE  /\ wire[c] # <<>> /\ wire[c] \in Seq(Chunks) /\ Head(wire[c]) \in Chunks
         /\ Round(c)' = Round(c) + 1
         /\ Head(wire[c]).part = "rest" =>
              Buf(c)' = Head(wire[c]) /\ wire'[c] = Tail(wire[c])
         /\ Head(wire[c]).part # "rest" =>
              /\ Buf(c)' = [Head(wire[c]) EXCEPT !.part = part]
              /\ wire'[c] = IF part = "whole" THEN Tail(wire[c])
                            ELSE <<[Head(wire[c]) EXCEPT !.part = "rest"]>> \o Tail(wire[c])
<1> DEFINE first == Head(wire[c])
           got == IF first.part = "rest" THEN first ELSE [first EXCEPT !.part = part]
           left == [first EXCEPT !.part = "rest"]
<1>1. /\ wire \in [Conns -> Seq(Chunks)] /\ heap \in [Conns -> Seq(Chunks)]
      /\ received \in [Conns -> Seq(Chunks)] /\ heap = received
  BY DEF Base, BuffersFresh, TypeOK, StreamTypeOK, LocalTypeOK
<1>2. wire[c] # <<>> /\ first \in Chunks
  BY <1>1 DEF Read
<1>3. /\ got \in Chunks
      /\ first.part = "rest" => got = first /\ got.part = "rest"
      /\ first.part # "rest" => got = [first EXCEPT !.part = part] /\ got.part = part
      /\ part # "rest"
  BY <1>2 DEF Chunks, Parts
<1>4. /\ heap' = [heap EXCEPT ![c] = Append(@, got)]
      /\ received' = [received EXCEPT ![c] = Append(@, got)]
      /\ wire' = [wire EXCEPT ![c] = IF got.part \in {"whole", "rest"} THEN Tail(@)
                                     ELSE <<left>> \o Tail(@)]
  BY DEF Read
<1> HIDE DEF got, left
<1>5. Buf(c)' = got /\ Round(c)' = Round(c) + 1
  <2>1. heap'[c] = Append(heap[c], got) /\ received'[c] = Append(received[c], got)
    BY <1>1, <1>4
  <2> QED BY <1>1, <1>3, <2>1 DEF Buf, Round
<1>6. wire'[c] = IF got.part \in {"whole", "rest"} THEN Tail(wire[c])
                 ELSE <<left>> \o Tail(wire[c])
  BY <1>1, <1>4
<1> QED BY <1>1, <1>2, <1>3, <1>5, <1>6 DEF left

LEMMA ClientPhases ==
  ASSUME Base, Identity, Phases, NEW c \in Conns, Client(c), NEW d \in Conns
  PROVE  Phase(d)'
<1>1. /\ Phase(d) /\ UNCHANGED <<pc, localVars, acked>>
      /\ peer \in [Conns -> {"off", "open", "waitAccept", "ready", "waitAck", "closed"}]
      /\ sent \in [Conns -> 0..MaxPackets] /\ last \in [Conns -> Packets \cup {NoPacket}]
      /\ wire \in [Conns -> Seq(Chunks)] /\ inbox \in [Conns -> Seq(Answers)]
      /\ MaxPackets \in Nat
  BY MaxPacketsAssumption
     DEF Phases, Client, Dial, SendIMEI, GetAccept, SendPacket, GetAck, HangUp, logVars, Base,
         TypeOK, ClientTypeOK, StreamTypeOK
<1>2. /\ Left(d)' = Left(d) /\ Looping(d)' = Looping(d)
      /\ Round(d)' = Round(d) /\ Buf(d)' = Buf(d)
  BY <1>1 DEF localVars, Left, Looping, Round, Buf
<1>3. CASE d # c
  <2>1. /\ inbox'[d] = inbox[d] /\ peer'[d] = peer[d] /\ wire'[d] = wire[d]
        /\ sent'[d] = sent[d] /\ last'[d] = last[d]
    BY <1>1, <1>3 DEF Client, Dial, SendIMEI, GetAccept, SendPacket, GetAck, HangUp, streamVars
  <2> QED BY <1>1, <2>1, PhaseStays DEF localVars
<1>4. CASE d = c
  <2>1. CASE Dial(c)
    <3>1. /\ peer[c] = "off" /\ peer'[c] = "open" /\ UNCHANGED <<inbox, wire, sent>>
      BY <1>1, <2>1 DEF Dial, streamVars
    <3>2. Before(c)' = Before(c)
      BY <1>1, <3>1 DEF Before, Round, localVars
    <3> QED BY <1>1, <1>4, <3>1, <3>2 DEF Phase
  <2>2. CASE SendIMEI(c)
    <3>1. /\ peer[c] = "open" /\ peer'[c] = "waitAccept" /\ UNCHANGED <<inbox, sent>>
          /\ wire'[c] = Append(wire[c], Whole(NoPacket))
      BY <1>1, <2>2 DEF SendIMEI
    <3>2. Before(c)' = Before(c)
      BY <1>1, <3>1 DEF Before, Round, localVars
    <3>3. wire[c] = <<>> /\ inbox[c] = <<>> /\ Before(c)
      BY <1>1, <1>4, <3>1 DEF Phase
    <3>4. wire'[c] = <<Whole(NoPacket)>>
      BY <3>1, <3>3
    <3> QED BY <1>1, <1>4, <3>1, <3>2, <3>3, <3>4 DEF Phase
  <2>3. CASE GetAccept(c)
    <3>1. /\ peer[c] = "waitAccept" /\ inbox[c] # <<>> /\ inbox'[c] = Tail(inbox[c])
          /\ peer'[c] = IF Head(inbox[c]) = <<1>> THEN "ready" ELSE "closed"
          /\ UNCHANGED <<wire, sent>>
      BY <1>1, <2>3 DEF GetAccept
    <3>2. inbox[c] = << <<1>> >> /\ Resting(c)
      BY <1>1, <1>4, <3>1 DEF Phase
    <3>3. inbox'[c] = <<>> /\ peer'[c] = "ready"
      BY <3>1, <3>2
    <3>4. Resting(c)'
      BY <1>2, <1>4, <3>1, <3>2 DEF Resting
    <3> QED BY <1>4, <3>3, <3>4 DEF Phase
  <2>4. CASE SendPacket(c)
    <3>1. PICK p \in Packets : /\ last' = [last EXCEPT ![c] = p]
                               /\ wire' = [wire EXCEPT ![c] = Append(@, Whole(p))]
      BY <2>4 DEF SendPacket
    <3>2. /\ peer[c] = "ready" /\ peer'[c] = "waitAck" /\ inbox' = inbox
          /\ sent'[c] = sent[c] + 1
      BY <1>1, <2>4 DEF SendPacket
    <3>3. last'[c] = p /\ wire'[c] = Append(wire[c], Whole(p)) /\ wire[c] \in Seq(Chunks)
      BY <1>1, <3>1
    <3>4. inbox[c] = <<>> /\ (Resting(c) \/ Straggling(c))
      BY <1>1, <1>4, <3>2 DEF Phase
    <3>5. Resting(c) => Unread(c)'
      BY <1>2, <1>4, <3>2, <3>3 DEF Resting, Unread
    <3>6. Straggling(c) => Straggling(c)'
      <4>1. wire[c] # <<>> => wire'[c] # <<>> /\ Head(wire'[c]) = Head(wire[c])
        BY <3>3, WholeType
      <4> QED BY <1>1, <1>2, <1>4, <4>1 DEF Straggling
    <3> QED BY <1>1, <1>4, <3>2, <3>4, <3>5, <3>6 DEF Phase
  <2>5. CASE GetAck(c)
    <3>1. /\ peer[c] = "waitAck" /\ inbox[c] # <<>> /\ inbox'[c] = Tail(inbox[c])
          /\ peer'[c] = IF Head(inbox[c]) = Ack(last[c]) THEN "ready" ELSE "closed"
          /\ UNCHANGED <<wire, sent>>
      BY <1>1, <2>5 DEF GetAck, Ack
    <3>2. inbox[c] = <<Ack(last[c])>> /\ (Resting(c) \/ Straggling(c))
      BY <1>1, <1>4, <3>1 DEF Phase, Answered
    <3>3. inbox'[c] = <<>> /\ peer'[c] = "ready"
      BY <3>1, <3>2
    <3>4. (Resting(c) \/ Straggling(c))'
      BY <1>1, <1>2, <1>4, <3>1, <3>2 DEF Resting, Straggling
    <3> QED BY <1>4, <3>3, <3>4 DEF Phase
  <2>6. CASE HangUp(c)
    <3>1. peer'[c] = "closed" /\ inbox' = inbox
      BY <1>1, <2>6 DEF HangUp, streamVars
    <3> QED BY <1>1, <1>4, <3>1 DEF Phase
  <2> QED BY <2>1, <2>2, <2>3, <2>4, <2>5, <2>6 DEF Client
<1> QED BY <1>3, <1>4
(* What a handler or the acceptor does to the connection of another.       *)
LEMMA OtherPhases ==
  ASSUME Base, Phases, [Next]_vars, NEW c \in Conns, Serve(c) \/ Handler(c),
         NEW d \in Conns \ {c}
  PROVE  Phase(d)'
<1>1. /\ TypeOK /\ heap = received /\ heap' = received'
      /\ wire \in [Conns -> Seq(Chunks)] /\ inbox \in [Conns -> Seq(Answers)]
      /\ pc \in [Conns -> Labels]
  BY NextBuffers DEF Base, BuffersFresh, TypeOK, StreamTypeOK, ControlTypeOK
<1>2. UNCHANGED clientVars /\ acked \subseteq acked'
  BY DEF Serve, Handler, ReadFails, ReadIMEI, ResponseAcceptIMEI, ReadPacket, ParseAccepts,
         ParseRefuses, ParsePanics, PublishLastPoint, PublishPanics, SaveAvlPoints,
         PrepareAvlPoints, PrepareAvlPointsFails, AppendPoint, AppendPointFails, SendBatch,
         ResponseAcceptDataPack, WgDone, CloseConn, Panic, logVars
<1>3. /\ pc'[d] = pc[d] /\ received'[d] = received[d]
      /\ authenticated'[d] = authenticated[d]
  <2>1. CASE Serve(c)
    BY <1>1, <2>1 DEF Serve, localVars
  <2>2. CASE Handler(c)
    BY <2>2, HandlerFrame
  <2> QED BY <2>1, <2>2
<1>4. wire'[d] = wire[d]
  <2>1. CASE ReadIMEI(c) \/ ReadPacket(c)
    <3>1. PICK part \in Parts : Read(c, part)
      BY <2>1, CutsAssumption DEF ReadIMEI, ReadPacket
    <3> QED BY <1>1, <3>1 DEF Read
  <2>2. CASE ~ReadIMEI(c) /\ ~ReadPacket(c)
    BY <2>2 DEF Serve, Handler, ReadFails, ResponseAcceptIMEI, ParseAccepts, ParseRefuses,
                ParsePanics, PublishLastPoint, PublishPanics, SaveAvlPoints, PrepareAvlPoints,
                PrepareAvlPointsFails, AppendPoint, AppendPointFails, SendBatch,
                ResponseAcceptDataPack, WgDone, CloseConn, Panic, streamVars
  <2> QED BY <2>1, <2>2
<1>5. inbox'[d] = inbox[d]
  BY <1>1 DEF Serve, Handler, ReadFails, ReadIMEI, ResponseAcceptIMEI, ReadPacket, ParseAccepts,
              ParseRefuses, ParsePanics, PublishLastPoint, PublishPanics, SaveAvlPoints,
              PrepareAvlPoints, PrepareAvlPointsFails, AppendPoint, AppendPointFails, SendBatch,
              ResponseAcceptDataPack, WgDone, CloseConn, Panic, Write, streamVars
<1>6. heap'[d] = heap[d]
  BY <1>1, <1>3
<1> QED BY <1>2, <1>3, <1>4, <1>5, <1>6, PhaseStays DEF Phases, clientVars

(* Two facts that decide most cases: work is done only on what the client  *)
(* sent last, and a handler that loops has met its client before.          *)
LEMMA WhoWorks ==
  ASSUME Identity, NEW c \in Conns, Phase(c), peer[c] # "closed",
         peer[c] \in {"off", "open", "waitAccept", "ready", "waitAck", "closed"}
  PROVE  /\ pc[c] \in Parsed => peer[c] = "waitAck" /\ inbox[c] = <<>> /\ InWork(c)
         /\ pc[c] = "parse" => Buf(c).part = "rest"
                                 \/ (peer[c] = "waitAck" /\ inbox[c] = <<>> /\ InWork(c))
         /\ pc[c] = "accept" => peer[c] = "waitAccept" /\ inbox[c] = <<>> /\ wire[c] = <<>>
                                 /\ Round(c) = 1 /\ sent[c] = 0
         /\ pc[c] = "read" /\ ~authenticated[c] /\ wire[c] # <<>> =>
              /\ peer[c] = "waitAccept" /\ inbox[c] = <<>>
              /\ wire[c] = <<Whole(NoPacket)>> /\ Before(c)
         /\ Looping(c) /\ wire[c] # <<>> =>
              \/ Straggling(c) /\ Head(wire[c]).part = "rest"
              \/ peer[c] = "waitAck" /\ inbox[c] = <<>> /\ Unread(c)
BY DEF Phase, Before, Looping, Left, Straggling, Resting, Unread, InWork, Answered, Rest, Working,
       Parsed

LEMMA OwnPhase ==
  ASSUME Base, Identity, Phases, NEW c \in Conns, Handler(c), peer[c] # "closed"
  PROVE  Phase(c)'
<1>1. /\ Phase(c) /\ TypeOK /\ pc \in [Conns -> Labels] /\ heap = received
      /\ authenticated \in [Conns -> BOOLEAN]
      /\ peer \in [Conns -> {"off", "open", "waitAccept", "ready", "waitAck", "closed"}]
      /\ inbox \in [Conns -> Seq(Answers)] /\ wire \in [Conns -> Seq(Chunks)]
      /\ Round(c) \in Nat /\ sent[c] \in Nat
  <2>1. Phase(c) /\ TypeOK /\ heap = received /\ Round(c) \in Nat
    BY NameTypes DEF Base, BuffersFresh, Phases
  <2>2. sent[c] \in 0..MaxPackets
    BY <2>1 DEF TypeOK, ClientTypeOK
  <2>3. sent[c] \in Nat
    BY <2>2, MaxPacketsAssumption
  <2> QED BY <2>1, <2>3
          DEF TypeOK, ControlTypeOK, LocalTypeOK, ClientTypeOK, StreamTypeOK
<1>2. UNCHANGED clientVars /\ acked \subseteq acked'
  BY DEF Handler, ReadFails, ReadIMEI, ResponseAcceptIMEI, ReadPacket, ParseAccepts,
         ParseRefuses, ParsePanics, PublishLastPoint, PublishPanics, SaveAvlPoints,
         PrepareAvlPoints, PrepareAvlPointsFails, AppendPoint, AppendPointFails, SendBatch,
         ResponseAcceptDataPack, WgDone, CloseConn, Panic, logVars
<1>3. CASE ReadFails(c)
  BY <1>3 DEF ReadFails
<1>4. CASE ReadIMEI(c)
  <2>1. PICK part \in Parts :
          /\ Read(c, part)
          /\ part = "whole" => pc'[c] = "accept"
          /\ part # "whole" => pc'[c] = "done"
    BY <1>1, <1>4, CutsAssumption DEF ReadIMEI, Goto
  <2>2. wire[c] # <<>> /\ pc[c] = "read" /\ ~authenticated[c] /\ inbox' = inbox
    BY <1>4, <2>1 DEF ReadIMEI, At, Read
  <2>3. /\ peer[c] = "waitAccept" /\ inbox[c] = <<>> /\ wire[c] = <<Whole(NoPacket)>>
        /\ Round(c) = 0 /\ sent[c] = 0
    BY <1>1, <2>2, WhoWorks DEF Before
  <2>4. CASE part = "whole"
    <3>0. Head(wire[c]).part = "whole"
      BY <2>3 DEF Whole
    <3>1. Round(c)' = Round(c) + 1 /\ wire'[c] = Tail(wire[c])
      BY <2>1, <2>4, <3>0, WhatIsRead
    <3>2. wire'[c] = <<>>
      BY <2>3, <3>1
    <3>3. Round(c)' = 1
      BY <2>3, <3>1
    <3> QED BY <1>2, <2>1, <2>2, <2>3, <2>4, <3>2, <3>3 DEF Phase, clientVars
  <2>5. CASE part # "whole"
    <3>1. Left(c)'
      BY <2>1, <2>5 DEF Left
    <3> QED BY <1>2, <2>2, <2>3, <3>1 DEF Phase, clientVars
  <2> QED BY <2>4, <2>5
<1>5. CASE ResponseAcceptIMEI(c)
  <2>1. /\ pc[c] = "accept" /\ pc'[c] = "read" /\ authenticated'[c] = TRUE
        /\ UNCHANGED <<wire, received>>
        /\ inbox'[c] = Append(inbox[c], <<1>>)
    BY <1>1, <1>5 DEF ResponseAcceptIMEI, At, Goto, Write
  <2>2. /\ peer[c] = "waitAccept" /\ inbox[c] = <<>> /\ wire[c] = <<>> /\ Round(c) = 1
        /\ sent[c] = 0
    BY <1>1, <2>1, WhoWorks
  <2>3. inbox'[c] = << <<1>> >>
    BY <2>1, <2>2
  <2>4. Resting(c)'
    BY <1>2, <2>1, <2>2 DEF Resting, Looping, Round, clientVars
  <2> QED BY <1>2, <2>2, <2>3, <2>4 DEF Phase, clientVars
<1>6. CASE ReadPacket(c)
  <2>1. PICK part \in Parts : Read(c, part)
    BY <1>6, CutsAssumption DEF ReadPacket
  <2>2. /\ pc'[c] = "parse" /\ inbox' = inbox /\ Looping(c) /\ acked' = acked
    BY <1>1, <1>6 DEF ReadPacket, At, Goto, Looping, logVars
  <2>3. CASE Straggling(c) /\ Head(wire[c]).part = "rest"
    <3>1. Buf(c)' = Head(wire[c]) /\ wire'[c] = Tail(wire[c]) /\ wire[c] # <<>>
      BY <2>1, <2>3, WhatIsRead
    <3>2. Straggling(c)'
      BY <2>2, <2>3, <3>1 DEF Straggling
    <3>3. Answered(c) => Answered(c)'
      <4> SUFFICES ASSUME Answered(c) PROVE Answered(c)'
        OBVIOUS
      <4>1. wire[c] = <<Rest(last[c])>>
        BY <3>1 DEF Answered
      <4>2. wire'[c] = <<>> /\ Buf(c)'.packet = last[c]
        BY <3>1, <4>1 DEF Rest
      <4> QED BY <1>2, <2>2, <3>2, <4>2 DEF Answered, clientVars
    <3>4. peer[c] \in {"ready", "waitAck"}
      BY <1>1, <2>2, <2>3, <3>1 DEF Phase, Before, Looping, Left, Resting
    <3>5. peer[c] = "waitAck" => inbox[c] = <<>> \/ Answered(c)
      BY <1>1 DEF Phase
    <3> QED BY <1>1, <1>2, <2>2, <3>2, <3>3, <3>4, <3>5 DEF Phase, clientVars
  <2>4. CASE peer[c] = "waitAck" /\ inbox[c] = <<>> /\ Unread(c)
    <3>1. /\ Head(wire[c]) = Whole(last[c]) /\ Tail(wire[c]) = <<>>
          /\ Round(c) = sent[c] /\ Whole(last[c]).part # "rest"
      BY <2>4 DEF Unread, Whole
    <3>2. /\ Buf(c)' = [Whole(last[c]) EXCEPT !.part = part] /\ Round(c)' = Round(c) + 1
          /\ wire'[c] = IF part = "whole" THEN <<>>
                        ELSE <<[Whole(last[c]) EXCEPT !.part = "rest"]>> \o <<>>
      BY <2>1, <3>1, WhatIsRead
    <3>3. [Whole(last[c]) EXCEPT !.part = "rest"] = Rest(last[c])
      BY DEF Whole, Rest
    <3>4. wire'[c] \in {<<>>, <<Rest(last[c])>>}
      BY <3>2, <3>3
    <3>5. Buf(c)'.packet = last[c]
      BY <3>2 DEF Whole
    <3>6. InWork(c)'
      BY <1>2, <2>2, <3>1, <3>2, <3>4, <3>5 DEF InWork, Working, clientVars
    <3> QED BY <1>2, <2>2, <2>4, <3>6 DEF Phase, clientVars
  <2>5. wire[c] # <<>>
    BY <2>1 DEF Read
  <2> QED BY <1>1, <2>2, <2>3, <2>4, <2>5, WhoWorks
<1>7. ASSUME pc[c] \in Working, pc'[c] \in Parsed, pc[c] = "parse" => Accepts(Buf(c)),
             UNCHANGED <<inbox, wire, heap, received>>
      PROVE  Phase(c)'
  <2>1. pc[c] = "parse" => Buf(c).part # "rest"
    BY <1>7 DEF Accepts, CodecSeen
  <2>2. peer[c] = "waitAck" /\ inbox[c] = <<>> /\ InWork(c)
    BY <1>1, <1>7, <2>1, WhoWorks DEF Working
  <2>3. InWork(c)'
    BY <1>2, <1>7, <2>2 DEF InWork, Working, Buf, Round, clientVars
  <2> QED BY <1>2, <1>7, <2>2, <2>3 DEF Phase, clientVars
<1>8. CASE ParseAccepts(c) \/ PublishLastPoint(c) \/ SaveAvlPoints(c)
  <2>1. /\ pc[c] \in Working /\ pc'[c] \in Parsed
        /\ pc[c] = "parse" => Accepts(Buf(c))
    BY <1>1, <1>8 DEF ParseAccepts, PublishLastPoint, SaveAvlPoints, PrepareAvlPoints,
                      PrepareAvlPointsFails, AppendPoint, AppendPointFails, SendBatch,
                      SaveReturns, At, Goto, Working, Parsed
  <2>2. UNCHANGED <<inbox, wire, heap, received>>
    BY <1>8 DEF ParseAccepts, PublishLastPoint, SaveAvlPoints, PrepareAvlPoints,
                PrepareAvlPointsFails, AppendPoint, AppendPointFails, SendBatch, localVars,
                streamVars
  <2> QED BY <1>7, <2>1, <2>2
<1>9. CASE ResponseAcceptDataPack(c)
  <2>1. /\ pc[c] = "ack" /\ pc'[c] = "read" /\ UNCHANGED <<wire, localVars>>
        /\ inbox'[c] = Append(inbox[c], <<0, 0, 0, points[c] % 256>>)
        /\ [conn |-> c, round |-> Round(c), n |-> points[c]] \in acked'
    BY <1>1, <1>9 DEF ResponseAcceptDataPack, At, Goto, Write
  <2>2. peer[c] = "waitAck" /\ inbox[c] = <<>> /\ InWork(c)
    BY <1>1, <2>1, WhoWorks DEF Parsed
  <2>3. points[c] = last[c].n /\ points[c] \in 0..255
    <3>1. points[c] = received[c][Round(c)].packet.n /\ points[c] \in 0..255
      BY <1>1, <2>1, PointsOfPacket DEF Parsed, TypeOK, LocalTypeOK
    <3>2. received[c][Round(c)].packet = last[c]
      BY <1>1, <2>2 DEF InWork, Buf, Round
    <3> QED BY <3>1, <3>2
  <2>4. inbox'[c] = <<Ack(last[c])>>
    <3>1. points[c] % 256 = last[c].n
      BY <2>3
    <3> QED BY <2>1, <2>2, <3>1 DEF Ack
  <2>5. Looping(c)' /\ Round(c)' = sent[c] + 1 /\ Buf(c)'.packet = last[c]
    <3>1. authenticated[c]
      BY <2>1 DEF Identity, Working, Parsed
    <3> QED BY <2>1, <2>2, <3>1 DEF Looping, InWork, Round, Buf, localVars
  <2>6. (Resting(c) \/ Straggling(c))'
    <3>1. CASE wire'[c] = <<>>
      BY <1>2, <2>5, <3>1 DEF Resting, clientVars
    <3>2. CASE wire'[c] = <<Rest(last[c])>>
      <4>1. wire'[c] # <<>> /\ Head(wire'[c]).part = "rest"
        BY <3>2 DEF Rest
      <4> QED BY <2>5, <4>1 DEF Straggling
    <3> QED BY <2>1, <2>2, <3>1, <3>2 DEF InWork
  <2>7. [conn |-> c, round |-> sent[c] + 1, n |-> last[c].n] \in acked'
    BY <2>1, <2>2, <2>3 DEF InWork
  <2>8. Answered(c)'
    BY <1>2, <2>1, <2>2, <2>4, <2>5, <2>6, <2>7 DEF Answered, InWork, clientVars
  <2> QED BY <1>2, <2>2, <2>4, <2>8 DEF Phase, clientVars
<1>10. ASSUME pc[c] \in {"parse", "publish"} \/ Left(c), Left(c)',
              UNCHANGED <<inbox, wire, heap, received>>
       PROVE  Phase(c)'
  <2>1. peer[c] \in {"waitAccept", "ready", "waitAck"}
    BY <1>1, <1>10 DEF Phase, Before, Left
  <2>2. peer[c] = "waitAccept" => inbox[c] = <<>>
    BY <1>1, <1>10 DEF Phase, Resting, Looping, Left
  <2>3. Straggling(c)'
    BY <1>10 DEF Straggling
  <2>4. Answered(c) => Answered(c)'
    BY <1>2, <1>10, <2>3 DEF Answered, Buf, clientVars
  <2> QED BY <1>1, <1>2, <1>10, <2>1, <2>2, <2>3, <2>4 DEF Phase, clientVars
<1>11. CASE \/ ParseRefuses(c) \/ ParsePanics(c) \/ PublishPanics(c)
            \/ WgDone(c) \/ CloseConn(c)
  <2>1. (pc[c] \in {"parse", "publish"} \/ Left(c)) /\ Left(c)'
    BY <1>1, <1>11 DEF ParseRefuses, ParsePanics, PublishPanics, Panic, WgDone, CloseConn,
                       At, Goto, Left
  <2>2. UNCHANGED <<inbox, wire, heap, received>>
    BY <1>11 DEF ParseRefuses, ParsePanics, PublishPanics, Panic, WgDone, CloseConn, localVars,
                 streamVars
  <2> QED BY <1>10, <2>1, <2>2
<1> QED BY <1>3, <1>4, <1>5, <1>6, <1>8, <1>9, <1>11 DEF Handler

LEMMA ServePhase ==
  ASSUME Base, Phases, NEW c \in Conns, Serve(c)
  PROVE  Phase(c)'
<1>1. /\ Phase(c) /\ pc'[c] = "read" /\ pc[c] = "idle" /\ peer[c] # "off"
      /\ UNCHANGED <<clientVars, streamVars, localVars, acked>>
      /\ peer[c] \in {"off", "open", "waitAccept", "ready", "waitAck", "closed"}
  BY DEF Phases, Serve, logVars, Base, TypeOK, ControlTypeOK, ClientTypeOK
<1>2. peer[c] \in {"open", "waitAccept", "closed"}
  BY <1>1 DEF Phase, Resting, Straggling, Unread, InWork, Answered, Looping, Left, Working, Parsed
<1>3. Before(c) => Before(c)'
  BY <1>1 DEF Before, Round, clientVars, localVars
<1>4. peer[c] = "waitAccept" => inbox[c] = <<>> /\ wire[c] = <<Whole(NoPacket)>> /\ Before(c)
  BY <1>1 DEF Phase, Resting, Looping, Left
<1> QED BY <1>1, <1>2, <1>3, <1>4 DEF Phase, clientVars, streamVars

(* What is written to a client that is gone is dropped.                    *)
LEMMA GonePhase ==
  ASSUME Base, Phases, NEW c \in Conns, Handler(c), peer[c] = "closed"
  PROVE  Phase(c)'
<1>1. UNCHANGED clientVars /\ inbox' = inbox
  BY DEF Handler, ReadFails, ReadIMEI, ResponseAcceptIMEI, ReadPacket, ParseAccepts,
         ParseRefuses, ParsePanics, PublishLastPoint, PublishPanics, SaveAvlPoints,
         PrepareAvlPoints, PrepareAvlPointsFails, AppendPoint, AppendPointFails, SendBatch,
         ResponseAcceptDataPack, WgDone, CloseConn, Panic, Write, streamVars
<1> QED BY <1>1 DEF Phases, Phase, clientVars

LEMMA NextPhases == Base /\ Identity /\ Phases /\ [Next]_vars => Phases'
<1> SUFFICES ASSUME Base, Identity, Phases, [Next]_vars, NEW d \in Conns PROVE Phase(d)'
  BY DEF Phases
<1>1. ASSUME NEW c \in Conns, Client(c) PROVE Phase(d)'
  BY <1>1, ClientPhases
<1>2. ASSUME NEW c \in Conns, Serve(c) \/ Handler(c) PROVE Phase(d)'
  <2>1. CASE d # c
    BY <1>2, <2>1, OtherPhases
  <2>2. CASE d = c
    BY <1>2, <2>2, OwnPhase, GonePhase, ServePhase
  <2> QED BY <2>1, <2>2
<1>3. ASSUME NEW c \in Conns, RawSaver(c) PROVE Phase(d)'
  BY <1>3, PhaseStays
     DEF RawSaver, SaveRawData, SaveRawDataFails, AppendRawDataFails, SendRawData, Phases,
         clientVars, streamVars, localVars, logVars
<1>4. CASE UNCHANGED vars \/ Terminate
  BY <1>4, PhaseStays
     DEF Terminate, Crash, vars, Phases, clientVars, streamVars, localVars, logVars
<1> QED BY <1>1, <1>2, <1>3, <1>4 DEF Next

(* The phases of the protocol are an invariant, on top of base and         *)
(* identities, for any number of connections and however the network cuts. *)
THEOREM PhasesInvariant == Spec => []Phases
<1>1. Init => Phases
  BY DEF Init, Phases, Phase, Before, Round
<1>2. Base /\ Identity /\ Phases /\ [Next]_vars => Phases'
  BY NextPhases
<1> QED BY <1>1, <1>2, BaseInvariant, IdentityInvariant, PTL DEF Spec

(* A client that waits for an answer never finds another one than that to  *)
(* what it sent last, however its bytes were cut into reads.               *)
THEOREM AnswersCorrect == Spec => []AnswersMatchRequests
<1>1. Phases => AnswersMatchRequests
  <2> SUFFICES ASSUME Phases, NEW c \in Conns
      PROVE /\ Len(inbox[c]) <= 1
            /\ peer[c] = "waitAccept" /\ inbox[c] # <<>> => inbox[c] = << <<1>> >>
            /\ peer[c] = "waitAck" /\ inbox[c] # <<>> =>
                 /\ inbox[c] = << <<0, 0, 0, last[c].n>> >>
                 /\ Buf(c).packet = last[c]
            /\ peer[c] \in {"open", "ready"} => inbox[c] = <<>>
    BY DEF AnswersMatchRequests
  <2> QED BY DEF Phases, Phase, Answered, Ack
<1> QED BY <1>1, PhasesInvariant, PTL

(* A client and its handler never wait for each other: while the one reads *)
(* an answer that is not there, the other is not at a Read with nothing to *)
(* read, whatever was cut and however far the rest of a packet lags. That  *)
(* no cycle of waits exists is what RequestsSettle and WaitsEnd rest on.   *)
NeverBothWait ==
  \A c \in Conns :
    peer[c] \in {"waitAccept", "waitAck"} /\ inbox[c] = <<>> =>
      ~(pc[c] = "read" /\ wire[c] = <<>>)

(* So no client and handler wait for each other, in any state that the     *)
(* protocol reaches over a stream that cuts (handler.go 26).               *)
THEOREM NoMutualWait == Spec => []NeverBothWait
<1>1. Phases => NeverBothWait
  <2> SUFFICES ASSUME NEW c \in Conns, Phase(c), peer[c] \in {"waitAccept", "waitAck"},
                      inbox[c] = <<>>, pc[c] = "read", wire[c] = <<>>
               PROVE  FALSE
    BY DEF Phases, NeverBothWait
  <2>1. CASE peer[c] = "waitAccept"
    BY <2>1 DEF Phase, Left
  <2>2. CASE peer[c] = "waitAck"
    <3>1. Unread(c) \/ InWork(c) \/ Straggling(c)
      BY <2>2 DEF Phase, Answered
    <3> QED BY <3>1 DEF Unread, InWork, Straggling, Left, Working, Parsed
  <2> QED BY <2>1, <2>2
<1> QED BY <1>1, PhasesInvariant, PTL
=============================================================================
