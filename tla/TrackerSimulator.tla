-------------------------- MODULE TrackerSimulator --------------------------
(***************************************************************************)
(* The simulator command (cmd/main.go and simulator/) at the other end of  *)
(* the connections of HandleConnection: a process per connection, of two   *)
(* goroutines. main dials, spawns SendRandomPoints and waits for a signal; *)
(* the sender authenticates, and then sends packets and waits for their    *)
(* counts until something fails. Either of them ends in Stop, which closes *)
(* the connection and exits, and both may be in it at once.                *)
(***************************************************************************)
EXTENDS HandleConnection, RandomPoint

CONSTANT Malformed   \* the --imei values that are not of fifteen characters

ASSUME MalformedAssumption == Malformed \subseteq IMEIs
ASSUME SimulatedPackets == Packets \subseteq [form : {"codec8e"}, n : PacketSizes]

Goroutines == {"main", "sender"}
Places == {"connect", "none", "wait", "auth", "authRead", "send", "ackRead",
           "stop", "stopped", "exited"}

VARIABLES
  at,       \* where the two goroutines of each simulator are
  logged,   \* history: the counts of "Sent %d points to the server"
  refused   \* history: the packets logged as "sent points are not acceptable"

simVars == <<at, logged, refused>>
allVars == <<vars, simVars>>

SimInit ==
  /\ Init
  /\ at = [c \in Conns |-> [main |-> "connect", sender |-> "none"]]
  /\ logged = [c \in Conns |-> <<>>]
  /\ refused = {}

-----------------------------------------------------------------------------
Move(c, g, from, to) == at[c][g] = from /\ at' = [at EXCEPT ![c][g] = to]

(* Fault: the goroutine that exits ends itself only.                       *)
EndMain(c) ==
  /\ at' = [at EXCEPT ![c].main = "exited"]
  /\ IF peer[c] \in {"off", "closed"} THEN UNCHANGED vars ELSE HangUp(c)
  /\ UNCHANGED <<logged, refused>>

(* The process ends, and the kernel closes what it left open.              *)
EndProcess(c) ==
  /\ at' = [at EXCEPT ![c] = [main |-> "exited", sender |-> "exited"]]
  /\ IF peer[c] \in {"off", "closed"} THEN UNCHANGED vars ELSE HangUp(c)
  /\ UNCHANGED <<logged, refused>>

(* main: Connect, and then go SendRandomPoints().                          *)
Connect(c) ==
  /\ at[c].main = "connect" /\ Running
  /\ Dial(c)
  /\ at' = [at EXCEPT ![c] = [main |-> "wait", sender |-> "auth"]]
  /\ UNCHANGED <<logged, refused>>

ConnectFails(c) == at[c].main = "connect" /\ EndProcess(c)

Signal(c) ==
  /\ Move(c, "main", "wait", "stop")
  /\ UNCHANGED <<vars, logged, refused>>

(* SIGKILL, or SIGINT before signal.Notify.                                *)
Kill(c) == at[c].main # "connect" /\ at[c].main # "exited" /\ EndProcess(c)

(* Fault: the sender is counted in td.wg until its deferred calls are done.*)
WgWaitsForSender(c) == at[c].sender \in {"none", "exited"}

(* td.wg.Wait(): nothing is ever added to td.wg, so it never waits.        *)
WgWait(c) == TRUE

(* Stop closes the connection, unless the other goroutine did so already.  *)
StopCloses(c, g) ==
  /\ Move(c, g, "stop", "stopped")
  /\ WgWait(c)
  /\ IF peer[c] = "closed" THEN UNCHANGED vars ELSE HangUp(c)
  /\ UNCHANGED <<logged, refused>>

(* time.Sleep, os.Exit(0).                                                 *)
Exit(c, g) == at[c][g] = "stopped" /\ EndProcess(c)

-----------------------------------------------------------------------------
(* The sender: SendRandomPoints. Every error ends in its deferred Stop.    *)

(* What makes Write and Read of net.Conn fail.                             *)
Broken(c) == peer[c] = "closed" \/ pc[c] = "gone" \/ proc = "down"

SenderFails(c, place) ==
  /\ Move(c, "sender", place, "stop")
  /\ UNCHANGED <<vars, logged, refused>>

AuthenticateIMEI(c) ==
  /\ Move(c, "sender", "auth", "authRead")
  /\ id[c] \notin Malformed
  /\ SendIMEI(c)
  /\ UNCHANGED <<logged, refused>>

AuthenticateIMEIFails(c) ==
  /\ id[c] \in Malformed \/ Broken(c)
  /\ SenderFails(c, "auth")

(* The answer is one byte, which a Read returns whole.                     *)
ReadAccept(c) ==
  /\ at[c].sender = "authRead" /\ inbox[c] # <<>> /\ peer[c] # "closed"
  /\ IF Head(inbox[c]) = <<1>>
     THEN /\ Move(c, "sender", "authRead", "send")
          /\ GetAccept(c)
          /\ UNCHANGED <<logged, refused>>
     ELSE SenderFails(c, "authRead")

ReadFailsAt(c, place) == Broken(c) /\ SenderFails(c, place)

(* Fault: a packet does not wait for the count of the one before it.       *)
SendAhead(c) ==
  /\ at[c].sender \in {"send", "ackRead"} /\ sent[c] < MaxPackets
  /\ at' = [at EXCEPT ![c].sender = "ackRead"]
  /\ \E p \in Packets : /\ last' = [last EXCEPT ![c] = p]
                        /\ wire' = [wire EXCEPT ![c] = Append(@, Whole(p))]
  /\ sent' = [sent EXCEPT ![c] = @ + 1]
  /\ peer' = [peer EXCEPT ![c] = "waitAck"]
  /\ UNCHANGED <<dbVars, proc, id, inbox, pc, localVars, rawVars, logVars, wg, logged, refused>>

(* Fault: the points are logged as sent once they are written.             *)
SendLogged(c) ==
  /\ Move(c, "sender", "send", "ackRead")
  /\ SendPacket(c)
  /\ logged' = [logged EXCEPT ![c] = Append(@, last'[c].n)]
  /\ UNCHANGED refused

(* A packet of random points is written, and waited for.                   *)
SendRandomPoints(c) ==
  /\ Move(c, "sender", "send", "ackRead")
  /\ SendPacket(c)
  /\ UNCHANGED <<logged, refused>>

SendRandomPointsFails(c) == Broken(c) /\ SenderFails(c, "send")

(* The fourth byte of buf, when a Read returned k bytes of the answer.     *)
FourthByte(answer, k) == IF k = 4 THEN answer[4] ELSE 0

(* One Read for the four bytes of the count. A count that does not match   *)
(* ends the sender; what it read is of no use to anyone and stays where it *)
(* is.                                                                     *)
ReadCount(c) ==
  /\ at[c].sender = "ackRead" /\ inbox[c] # <<>> /\ peer[c] # "closed"
  /\ \E k \in 1..4 :
       IF FourthByte(Head(inbox[c]), k) = last[c].n % 256
       THEN /\ Move(c, "sender", "ackRead", "send")
            /\ GetAck(c)
            /\ logged' = [logged EXCEPT ![c] = Append(@, last[c].n)]
            /\ UNCHANGED refused
       ELSE /\ Move(c, "sender", "ackRead", "stop")
            /\ refused' = refused \cup {<<c, sent[c]>>}
            /\ UNCHANGED <<vars, logged>>

-----------------------------------------------------------------------------
Sender(c) ==
  \/ AuthenticateIMEI(c) \/ AuthenticateIMEIFails(c)
  \/ ReadAccept(c) \/ ReadFailsAt(c, "authRead")
  \/ SendRandomPoints(c) \/ SendRandomPointsFails(c)
  \/ ReadCount(c) \/ ReadFailsAt(c, "ackRead")

Stop(c, g) == StopCloses(c, g) \/ Exit(c, g)

Simulator(c) ==
  \/ Connect(c) \/ ConnectFails(c) \/ Signal(c) \/ Kill(c)
  \/ Sender(c)
  \/ \E g \in Goroutines : Stop(c, g)

Server(c) == (Serve(c) \/ Handler(c) \/ RawSaver(c)) /\ UNCHANGED simVars

SimNext ==
  \/ \E c \in Conns : Simulator(c) \/ Server(c)
  \/ Terminate /\ UNCHANGED simVars

SimSpec == SimInit /\ [][SimNext]_allVars

(* The goroutines of both programs run, and the server accepts. No signal  *)
(* need come, and nobody need be killed.                                   *)
SimFairness ==
  /\ \A c \in Conns :
       /\ WF_allVars(Sender(c))
       /\ \A g \in Goroutines : WF_allVars(Stop(c, g))
       /\ WF_allVars(Serve(c) /\ UNCHANGED simVars)
       /\ WF_allVars(Handler(c) /\ UNCHANGED simVars)
       /\ WF_allVars(RawSaver(c) /\ UNCHANGED simVars)
  /\ WF_allVars(Dies /\ UNCHANGED simVars)

FairSimSpec == SimSpec /\ SimFairness

-----------------------------------------------------------------------------
(* Properties.                                                             *)

(* The goroutines are at a place of theirs, and go on only while the       *)
(* process is there.                                                       *)
SimTypeOK ==
  /\ at \in [Conns -> [main : Places, sender : Places]]
  /\ logged \in [Conns -> Seq(PacketSizes)]
  /\ refused \subseteq Conns \X (1..MaxPackets)
  /\ \A c \in Conns : at[c].main = "exited" <=> at[c].sender = "exited"

(* "Sent n points to the server" is true, end to end: the n points of that *)
(* packet are in the table, or the server logged that it could not store   *)
(* them (send_random_points.go 24-29), whatever cuts the stream, whichever *)
(* process dies, and whoever calls Stop.                                   *)
LoggedPointsAccountedFor ==
  \A c \in Conns : \A k \in DOMAIN logged[c] :
    \/ StoredIndices(c, k + 1) = 1..logged[c][k]
    \/ <<"save", c, k + 1>> \in errors

(* The simulator is a client as HandleConnection assumes of trackers: what *)
(* is promised to those is promised to it.                                 *)
SimulatorsAreClients == Spec

(* The sender never waits for an answer while the server waits for more:   *)
(* each of its two Reads, which have no deadline, returns.                 *)
WaitsEnd ==
  \A c \in Conns : \A place \in {"authRead", "ackRead"} :
    at[c].sender = place ~> at[c].sender # place

(* Stop ends the process, whether main calls it, or the sender's defer     *)
(* does, or both at once; and the sender calls it when its connection      *)
(* breaks, wherever it is.                                                 *)
SimulatorExits ==
  \A c \in Conns :
    at[c].main = "stop" \/ (at[c].sender # "none" /\ Broken(c)) ~> at[c].main = "exited"

(* What the text of connection.go:52 says, "sent points are not            *)
(* acceptable": the server did not accept the packet.                      *)
RefusedMeansNotAcked ==
  \A r \in refused : ~\E a \in acked : a.conn = r[1] /\ a.round = r[2] + 1
=============================================================================
