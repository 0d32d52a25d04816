-------------------------- MODULE LedgerRefinement --------------------------
(***************************************************************************)
(* The handlers implement PacketLedger. The first read of a connection is  *)
(* its IMEI, so that packet k is what its read k+1 returned; published,    *)
(* rows, errors and acked are told by connection and number of the read.   *)
(***************************************************************************)
EXTENDS HandleConnection

(* The reads whose last point was published, or failed to be.              *)
AnnouncedRounds(c) ==
  {m.round : m \in {x \in published : x.conn = c}}
    \cup {e[3] : e \in {x \in errors : x[1] = "publish" /\ x[2] = c}}

LedgerAnnounced == [c \in Conns |-> Cardinality(AnnouncedRounds(c))]
LedgerTable == {<<m.conn, m.round - 1, m.index>> : m \in rows}
LedgerFailed == {<<e[2], e[3] - 1>> : e \in {x \in errors : x[1] = "save"}}
LedgerAcknowledged == {<<a.conn, a.round - 1, a.n>> : a \in acked}

TheLedger == INSTANCE PacketLedger WITH
  Sizes <- {p.n : p \in Packets},
  announced <- LedgerAnnounced,
  table <- LedgerTable,
  failed <- LedgerFailed,
  acknowledged <- LedgerAcknowledged

(* Every step of clients, handlers and savers is a step of the ledger or   *)
(* none: the subscribers, the table and the tracker hear of the packets of *)
(* a connection one at a time, in the order in which they were sent, each  *)
(* first announced, then stored, then acknowledged (handler.go 21-77).     *)
ImplementsLedger == TheLedger!Spec
=============================================================================
