---------------------------- MODULE PacketLedger ----------------------------
(***************************************************************************)
(* What the server promises of the packets of a connection, whatever its   *)
(* goroutines, the pool and the stream do: they are taken one at a time,   *)
(* each is announced to the subscribers, then its points go to the table   *)
(* all at once or not at all, with a word in the log when the insert       *)
(* reported an error, and only then is its count acknowledged. Any of this *)
(* may stop anywhere, and nothing of it is ever taken back.                *)
(*                                                                         *)
(* Packets are numbered by connection, in the order of their announcement. *)
(***************************************************************************)
EXTENDS Naturals

CONSTANTS
  Conns,   \* the connections
  Sizes    \* the numbers of points a packet may have

VARIABLES
  announced,     \* how many packets of each connection were announced
  table,         \* the points stored: connection, packet and index
  failed,        \* the packets whose insert reported an error
  acknowledged   \* the counts answered: connection, packet and count

vars == <<announced, table, failed, acknowledged>>

Init ==
  /\ announced = [c \in Conns |-> 0]
  /\ table = {}
  /\ failed = {}
  /\ acknowledged = {}

-----------------------------------------------------------------------------
Stored(c, k) == {p[3] : p \in {x \in table : x[1] = c /\ x[2] = k}}
Settled(c, k) == Stored(c, k) # {} \/ <<c, k>> \in failed
Acknowledged(c, k) == \E a \in acknowledged : a[1] = c /\ a[2] = k

(* The next packet, once the one before it was acknowledged.               *)
Announce(c) ==
  /\ announced[c] > 0 => Acknowledged(c, announced[c])
  /\ announced' = [announced EXCEPT ![c] = @ + 1]
  /\ UNCHANGED <<table, failed, acknowledged>>

(* The one insert of a packet: an error may hide that it was done.         *)
Insert(c, n) ==
  /\ announced[c] > 0 /\ ~Settled(c, announced[c])
  /\ table' = table \cup {<<c, announced[c], i>> : i \in 1..n}
  /\ failed' \in {failed, failed \cup {<<c, announced[c]>>}}
  /\ UNCHANGED <<announced, acknowledged>>

InsertFails(c) ==
  /\ announced[c] > 0 /\ ~Settled(c, announced[c])
  /\ failed' = failed \cup {<<c, announced[c]>>}
  /\ UNCHANGED <<announced, table, acknowledged>>

(* The count is that of the points stored, unless the insert failed.       *)
Acknowledge(c, n) ==
  /\ announced[c] > 0 /\ Settled(c, announced[c])
  /\ ~Acknowledged(c, announced[c])
  /\ Stored(c, announced[c]) # {} => Stored(c, announced[c]) = 1..n
  /\ acknowledged' = acknowledged \cup {<<c, announced[c], n>>}
  /\ UNCHANGED <<announced, table, failed>>

Next ==
  \E c \in Conns :
    \/ Announce(c) \/ InsertFails(c)
    \/ \E n \in Sizes : Insert(c, n) \/ Acknowledge(c, n)

Spec == Init /\ [][Next]_vars
=============================================================================
