---------------------------- MODULE AVLDataBase ----------------------------
(***************************************************************************)
(* The ClickHouse side of the server (db/clickhouse): the pool of at most  *)
(* MaxOpenConns connections that every insert goes through, and the two    *)
(* tables the server fills, avlpoints (rows) and rawdatas (payloads).      *)
(*                                                                         *)
(* SaveAvlPoints and SaveRawData run in the goroutine that calls them, as  *)
(* three steps on the driver: PrepareBatch takes a pooled connection,      *)
(* Append fills a batch in memory, Send ships it and gives the connection  *)
(* back. A job is one such call. The module has no behaviour of its own:   *)
(* the modules that extend it fire these steps.                            *)
(***************************************************************************)
EXTENDS Naturals, FiniteSets

CONSTANT MaxOpenConns   \* opts.MaxOpenConns, 5 in conn.go

ASSUME MaxOpenConnsAssumption == MaxOpenConns \in Nat \ {0}

VARIABLES
  held,       \* the jobs that hold a pooled connection
  rows,       \* table avlpoints: one record per inserted point
  payloads    \* table rawdatas: one record per inserted buffer

dbVars == <<held, rows, payloads>>

DBInit ==
  /\ held = {}
  /\ rows = {}
  /\ payloads = {}

(* PrepareBatch returns a batch: a pooled connection now belongs to it.    *)
PrepareBatch(job) ==
  /\ Cardinality(held) < MaxOpenConns
  /\ held' = held \cup {job}
  /\ UNCHANGED <<rows, payloads>>

(* PrepareBatch returns an error: the pool stayed full until the dial      *)
(* timeout, or the server could not be reached. Nothing was acquired.      *)
PrepareBatchFails == UNCHANGED dbVars

(* batch.Append rejects a value. The caller returns at once, with neither  *)
(* Send nor Abort: the driver is what gives the connection back.           *)
AppendFails(job) ==
  /\ held' = held \ {job}
  /\ UNCHANGED <<rows, payloads>>

(* batch.Send of a batch of points. An error says nothing of the table:    *)
(* the block may have been inserted before the answer was lost.            *)
SendPoints(job, batch, ok) ==
  /\ held' = held \ {job}
  /\ rows' \in IF ok THEN {rows \cup batch} ELSE {rows, rows \cup batch}
  /\ UNCHANGED payloads

(* batch.Send of the one-row batch of SaveRawData, with the same outcomes. *)
SendPayload(job, payload, ok) ==
  /\ held' = held \ {job}
  /\ payloads' \in IF ok THEN {payloads \cup {payload}}
                         ELSE {payloads, payloads \cup {payload}}
  /\ UNCHANGED rows
=============================================================================
