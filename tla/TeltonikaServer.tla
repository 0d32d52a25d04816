--------------------------- MODULE TeltonikaServer ---------------------------
(***************************************************************************)
(* server/server.go and the server command of cmd/main.go: the life of the *)
(* process around the handlers of HandleConnection. Three goroutines:      *)
(*   - main waits for a signal and calls Stop: close the listener if there *)
(*     is one, close quitChan, wait for ts.wg, return;                     *)
(*   - Start listens, stores ts.ln, spawns the acceptor and waits for      *)
(*     quitChan; its deferred call closes the listener again;              *)
(*   - AcceptConnections accepts, adds to ts.wg and spawns a handler.      *)
(* main spawns Start and does not wait for it, and ts.ln is shared by the  *)
(* three without a lock.                                                   *)
(***************************************************************************)
EXTENDS HandleConnection

VARIABLES
  main,      \* where main is; "drain" is inside wg.Wait
  start,     \* where Start is
  lnSet,     \* ts.ln # nil
  listener,  \* the listening socket: "none", "listening" or "closed"
  acceptor,  \* where AcceptConnections is
  inHand,    \* the connection Accept returned, until it is handed over
  quit,      \* quitChan is closed
  atStop,    \* history: the connections that were being handled at the signal
  seen       \* history: Stop found that ts.ln was set

history == <<atStop, seen>>
serverVars == <<main, start, lnSet, listener, acceptor, inHand, quit, history>>
allVars == <<vars, serverVars>>

ServerInit ==
  /\ Init
  /\ main = "connect" /\ start = "none"
  /\ lnSet = FALSE /\ listener = "none"
  /\ acceptor = "none" /\ inHand = {}
  /\ quit = FALSE /\ atStop = {} /\ seen = FALSE

InService(c) == pc[c] \notin {"idle", "close", "gone"}

-----------------------------------------------------------------------------
(* main: the server command, and Stop.                                     *)

(* NATS and ClickHouse answered: NewServer, then go s.Start().             *)
Boot ==
  /\ Running /\ main = "connect"
  /\ main' = "serving" /\ start' = "listen"
  /\ UNCHANGED <<vars, lnSet, listener, acceptor, inHand, quit, history>>

(* nats.Connect or ConnectAvlDB returned an error: the command returns.    *)
BootFails ==
  /\ main = "connect"
  /\ Terminate
  /\ main' = "exited"
  /\ UNCHANGED <<start, lnSet, listener, acceptor, inHand, quit, history>>

(* SIGINT or SIGTERM, at any time after Boot: Stop is called.              *)
Signal ==
  /\ Running /\ main = "serving"
  /\ main' = "checkLn"
  /\ atStop' = {c \in Conns : InService(c)}
  /\ UNCHANGED <<vars, start, lnSet, listener, acceptor, inHand, quit, seen>>

(* if ts.ln != nil, read without synchronisation with Start's assignment.  *)
CheckLn ==
  /\ Running /\ main = "checkLn"
  /\ seen' = lnSet
  /\ main' = IF lnSet THEN "closeLn" ELSE "quit"
  /\ UNCHANGED <<vars, start, lnSet, listener, acceptor, inHand, quit, atStop>>

(* Fault: the close of the listener is deferred until Stop returns.        *)
CloseLnDeferred ==
  /\ Running /\ main = "closeLn"
  /\ main' = "quit"
  /\ UNCHANGED <<vars, start, lnSet, listener, acceptor, inHand, quit, history>>

CloseLn ==
  /\ Running /\ main = "closeLn"
  /\ listener' = "closed"
  /\ main' = "quit"
  /\ UNCHANGED <<vars, start, lnSet, acceptor, inHand, quit, history>>

CloseQuitChan ==
  /\ Running /\ main = "quit"
  /\ quit' = TRUE
  /\ main' = "wait"
  /\ UNCHANGED <<vars, start, lnSet, listener, acceptor, inHand, history>>

(* Fault: the command does not wait for the handlers.                      *)
WaitSkipped ==
  /\ Running /\ main = "wait"
  /\ main' = "return"
  /\ UNCHANGED <<vars, start, lnSet, listener, acceptor, inHand, quit, history>>

(* wg.Wait returns at once at zero. Otherwise main is a waiter, and the    *)
(* Done that reaches zero releases it, whatever is added afterwards.       *)
Wait ==
  /\ Running /\ main = "wait"
  /\ main' = IF wg = 0 THEN "return" ELSE "drain"
  /\ UNCHANGED <<vars, start, lnSet, listener, acceptor, inHand, quit, history>>

Released == IF main = "drain" /\ wg' = 0 THEN main' = "released" ELSE UNCHANGED main

(* Stop returned, and so does the command: no goroutine survives main.     *)
Exit ==
  /\ main \in {"return", "released"}
  /\ Terminate
  /\ main' = "exited"
  /\ UNCHANGED <<start, lnSet, listener, acceptor, inHand, quit, history>>

-----------------------------------------------------------------------------
(* Start.                                                                  *)

Listen ==
  /\ Running /\ start = "listen"
  /\ listener' = "listening"
  /\ start' = "setLn"
  /\ UNCHANGED <<vars, main, lnSet, acceptor, inHand, quit, history>>

(* The error is logged and Start returns; main goes on waiting.            *)
ListenFails ==
  /\ Running /\ start = "listen"
  /\ start' = "returned"
  /\ UNCHANGED <<vars, main, lnSet, listener, acceptor, inHand, quit, history>>

SetLn ==
  /\ Running /\ start = "setLn"
  /\ lnSet' = TRUE
  /\ start' = "spawn"
  /\ UNCHANGED <<vars, main, listener, acceptor, inHand, quit, history>>

SpawnAcceptor ==
  /\ Running /\ start = "spawn"
  /\ acceptor' = "accept"
  /\ start' = "serving"
  /\ UNCHANGED <<vars, main, lnSet, listener, inHand, quit, history>>

(* Fault: Start does not defer ln.Close().                                 *)
StartReturnsListening ==
  /\ Running /\ start = "serving" /\ quit
  /\ start' = "returned"
  /\ UNCHANGED <<vars, main, lnSet, listener, acceptor, inHand, quit, history>>

(* <-ts.quitChan, and the deferred ln.Close().                             *)
StartReturns ==
  /\ Running /\ start = "serving" /\ quit
  /\ listener' = "closed"
  /\ start' = "returned"
  /\ UNCHANGED <<vars, main, lnSet, acceptor, inHand, quit, history>>

-----------------------------------------------------------------------------
(* AcceptConnections. An error other than that of a closed listener is     *)
(* logged and the loop goes on: a step that changes nothing.               *)

Accept(c) ==
  /\ Running /\ acceptor = "accept" /\ inHand = {}
  /\ listener = "listening"
  /\ peer[c] # "off" /\ pc[c] = "idle"
  /\ inHand' = {c}
  /\ UNCHANGED <<vars, main, start, lnSet, listener, acceptor, quit, history>>

(* Fault: wg.Add is called both here and in the handler.                   *)
HandOverAddsTwice(c) ==
  /\ Running /\ c \in inHand
  /\ wg' = wg + 2
  /\ pc' = [pc EXCEPT ![c] = "read"]
  /\ inHand' = {}
  /\ UNCHANGED <<dbVars, proc, clientVars, streamVars, localVars, rawVars, logVars>>
  /\ UNCHANGED <<main, start, lnSet, listener, acceptor, quit, history>>

HandOver(c) ==
  /\ c \in inHand
  /\ Serve(c)
  /\ inHand' = {}
  /\ UNCHANGED <<main, start, lnSet, listener, acceptor, quit, history>>

(* wg.Add(1) from zero while Wait is being released: the WaitGroup panics  *)
(* if it notices.                                                          *)
AddPanics(c) ==
  /\ c \in inHand /\ main = "released" /\ wg = 0
  /\ Terminate
  /\ UNCHANGED serverVars

(* Fault: any error of Accept ends the loop, as when it logs and returns.  *)
AcceptErrorReturns ==
  /\ Running /\ acceptor = "accept" /\ inHand = {}
  /\ acceptor' = "returned"
  /\ UNCHANGED <<vars, main, start, lnSet, listener, inHand, quit, history>>

(* "use of closed network connection": the loop ends.                      *)
AcceptClosed ==
  /\ Running /\ acceptor = "accept" /\ inHand = {} /\ listener = "closed"
  /\ acceptor' = "returned"
  /\ UNCHANGED <<vars, main, start, lnSet, listener, inHand, quit, history>>

-----------------------------------------------------------------------------
(* The handlers and the clients, in the server.                            *)

(* A client reaches the server while it listens.                           *)
ClientStep(c) ==
  /\ Client(c)
  /\ peer[c] = "off" => listener = "listening" /\ Running
  /\ UNCHANGED serverVars

HandlerStep(c) ==
  /\ Handler(c)
  /\ Released
  /\ UNCHANGED <<start, lnSet, listener, acceptor, inHand, quit, history>>

RawSaverStep(c) == RawSaver(c) /\ UNCHANGED serverVars

(* A handler panicked, and the process goes with it.                       *)
PanicEnds == Dies /\ UNCHANGED serverVars

Stop == CheckLn \/ CloseLn \/ CloseQuitChan \/ Wait \/ Exit
Start == Listen \/ ListenFails \/ SetLn \/ SpawnAcceptor \/ StartReturns
AcceptConnections ==
  AcceptClosed \/ \E c \in Conns : Accept(c) \/ HandOver(c) \/ AddPanics(c)

ServerNext ==
  \/ Boot \/ BootFails \/ Signal \/ Stop \/ Start \/ AcceptConnections
  \/ \E c \in Conns : ClientStep(c) \/ HandlerStep(c) \/ RawSaverStep(c)
  \/ PanicEnds

ServerSpec == ServerInit /\ [][ServerNext]_allVars

(* Every goroutine runs. No signal need come and no client need hang up.   *)
ServerFairness ==
  /\ WF_allVars(Stop) /\ WF_allVars(Start) /\ WF_allVars(AcceptConnections)
  /\ WF_allVars(PanicEnds)
  /\ \A c \in Conns : WF_allVars(HandlerStep(c)) /\ WF_allVars(RawSaverStep(c))

FairServerSpec == ServerSpec /\ ServerFairness

-----------------------------------------------------------------------------
(* Properties.                                                             *)

(* Every variable of the server keeps to its type, wg not below zero.      *)
ServerTypeOK ==
  /\ TypeOK
  /\ main \in {"connect", "serving", "checkLn", "closeLn", "quit", "wait", "drain",
               "released", "return", "exited"}
  /\ start \in {"none", "listen", "setLn", "spawn", "serving", "returned"}
  /\ lnSet \in BOOLEAN /\ quit \in BOOLEAN
  /\ listener \in {"none", "listening", "closed"}
  /\ acceptor \in {"none", "accept", "returned"}
  /\ inHand \subseteq Conns /\ atStop \subseteq Conns /\ seen \in BOOLEAN

(* Stop waits: a handler that was at work when the signal came has run its *)
(* Done before wg.Wait returns, so the packet it was saving was saved and  *)
(* answered, or refused.                                                   *)
StopDrainsHandlers ==
  main \in {"released", "return", "exited"} => \A c \in atStop : ~InService(c)

(* Stop closes the listener before it waits so that the wait means         *)
(* something: if it found ts.ln set, then when wg.Wait returns at most one *)
(* connection is left behind, the one that the acceptor already had in its *)
(* hand (server.go 78-101: wg.Add comes after Accept, and races the Wait). *)
OneLeftBehind ==
  seen /\ main \in {"released", "return", "exited"} =>
    Cardinality(inHand \cup {c \in Conns : InService(c)}) <= 1

(* Stop returns: once called, it ends the process, unless some client      *)
(* stays connected for ever. Nothing else holds it back: not a full pool,  *)
(* not a failing database, not a listener it did not see.                  *)
StopReturns ==
  (main = "checkLn" ~> proc = "down")
    \/ <>[](\E c \in Conns : peer[c] \notin {"off", "closed"})

(* Once quitChan is closed the listener goes too, also when Stop found     *)
(* ts.ln nil and did not close it (the deferred Close of Start).           *)
ListenerGoes == quit ~> listener # "listening" \/ proc = "down"

(* A client that is connected gets its handler, unless the listener goes:  *)
(* neither the time before Start spawns the acceptor nor an Accept that    *)
(* fails ends the service of those that wait in the listener's queue.      *)
ConnectedIsHandled ==
  \A c \in Conns :
    peer[c] # "off" ~> pc[c] # "idle" \/ listener # "listening" \/ proc = "down"

(* The handlers inside the server behave as HandleConnection says: what    *)
(* that module promises of every interleaving holds in this one.           *)
HandlersRefine == Spec

PastClose == main \in {"quit", "wait", "drain", "released", "return"}

(* server.go:96: "Close the listener to stop accepting new connections".   *)
(* Once Stop is past that line, no connection is accepted.                 *)
NoAcceptAfterClose ==
  [][PastClose => inHand' \subseteq inHand]_allVars
=============================================================================
