-------------------------------- MODULE Server --------------------------------
(***************************************************************************)
(* The life of the daemon (lynch/runner.py): serve_forever on the main     *)
(* thread, Runner.close, and the data link both work on.  close() is run   *)
(* by serve_forever itself when it leaves its loop and by one more caller: *)
(* another thread that embeds the runner, or the signal handler main()     *)
(* installs, which runs on the main thread's stack, between two of its     *)
(* steps, and ends with SystemExit.  Nothing is locked: every attribute is *)
(* tested, used and reset in steps of their own.                           *)
(*                                                                         *)
(* The data link is the module DataLink; stop() is its part of close().    *)
(***************************************************************************)
EXTENDS Naturals, FiniteSets

CONSTANTS
    Callers,        \* who may call close(): "other thread", "signal handler"
    Modes,          \* the data modes the runner may be started in
    MaxPeers        \* bound: times a playing service connects

ASSUME ServerAssumption ==
    /\ Callers \subseteq {"other thread", "signal handler"}
    /\ Modes \subseteq {"NEONFC", "DIRECT"} /\ MaxPeers \in Nat \ {0}

VARIABLES
    mode, reader, stopper, stopEvent, socket, listener, conn, fresh, accepting,
    openSockets, openListeners, deaf, connected, listened, waiting, gone, acceptError,
    caller,         \* who calls close() besides serve_forever
    main,           \* what serve_forever does next
    closing,        \* what each caller of close() does next
    shutdownEvent,  \* Runner.__shutdown_event
    serverSocket,   \* Runner.__server_socket is not None
    serverOpen,     \* the server socket is open
    fieldSocket,    \* Manager.__socket is not None
    fieldOpen       \* the field manager's socket is open

Threads == {"main", "caller"}

Link == INSTANCE DataLink WITH Stoppers <- Threads

linkVars == <<mode, reader, stopper, stopEvent, socket, listener, conn, fresh, accepting,
              openSockets, openListeners, deaf, connected, listened, waiting, gone,
              acceptError>>
resources == <<shutdownEvent, serverSocket, serverOpen, fieldSocket, fieldOpen>>
vars == <<linkVars, caller, main, closing, resources>>

Init ==
    /\ Link!Init
    /\ caller \in Callers
    /\ main = "create"
    /\ closing = [t \in Threads |-> "idle"]
    /\ shutdownEvent = FALSE
    /\ serverSocket = FALSE /\ serverOpen = FALSE
    /\ fieldSocket = TRUE /\ fieldOpen = TRUE

-----------------------------------------------------------------------------
Raised(t) == closing[t] = "raised" \/ stopper[t] = "raised"

Finished(t) == closing[t] \in {"idle", "done", "unwound"} \/ Raised(t)

\* the handler runs on the main thread's stack
Interrupted == caller = "signal handler" /\ closing["caller"] \notin {"idle", "unwound"}

MainOver == main \in {"ended", "exited", "crashed"}

-----------------------------------------------------------------------------
(***************************************************************************)
(* serve_forever.                                                          *)
(***************************************************************************)
Main(here, next) ==
    /\ main = here /\ ~Interrupted
    /\ main' = next
    /\ UNCHANGED <<linkVars, caller, closing, shutdownEvent, fieldSocket, fieldOpen>>

KeepsServer == UNCHANGED <<serverSocket, serverOpen>>

\* self.__server_socket = socket.socket(...)
Create ==
    /\ Main("create", "bind")
    /\ serverSocket' = TRUE
    /\ serverOpen' = TRUE

\* bind, listen, settimeout
Bind == serverOpen /\ Main("bind", "loop") /\ KeepsServer

\* the port is taken, or close() has been there
BindRaises == Main("bind", "crashed") /\ KeepsServer

\* mutant: the loop does not look at the shutdown event
ServeOn == Main("loop", "accept") /\ KeepsServer

\* while not self.__shutdown_event.is_set()
TestShutdown ==
    Main("loop", IF shutdownEvent THEN "leave" ELSE "accept") /\ KeepsServer

\* socket.timeout
AcceptNobody == serverSocket /\ Main("accept", "loop") /\ KeepsServer

AcceptClient == serverSocket /\ serverOpen /\ Main("accept", "client") /\ KeepsServer

\* OSError, from a closed socket or of accept()'s own
AcceptFails == serverSocket /\ Main("accept", "leave") /\ KeepsServer

\* AttributeError: close() has reset the attribute
AcceptOnNone == ~serverSocket /\ Main("accept", "crashed") /\ KeepsServer

\* __handle_client returns; with a client that stays silent it does not
ClientHandled == Main("client", "loop") /\ KeepsServer

\* mutant: serve_forever leaves the resources to others
LeaveWithoutClose == Main("leave", "ended") /\ KeepsServer

\* self.close()
Leave == Main("leave", "closing") /\ KeepsServer

\* serve_forever returns, or ends by what close() raised
Return ==
    /\ main = "closing" /\ Finished("main") /\ closing["main"] # "idle"
    /\ Main("closing", IF Raised("main") THEN "crashed" ELSE "ended")
    /\ KeepsServer

-----------------------------------------------------------------------------
(***************************************************************************)
(* close(), by a thread t.                                                 *)
(***************************************************************************)
Runs(t) == t = "caller" \/ (main = "closing" /\ ~Interrupted)

Close(t, here, next) ==
    /\ Runs(t) /\ closing[t] = here
    /\ closing' = [closing EXCEPT ![t] = next]
    /\ UNCHANGED <<linkVars, caller, main>>

\* close() is called
CallClose ==
    /\ ~MainOver \/ caller = "other thread"
    /\ closing["caller"] = "idle"
    /\ closing' = [closing EXCEPT !["caller"] = "set event"]
    /\ UNCHANGED <<linkVars, caller, main, resources>>

\* self.__shutdown_event.set()
SetShutdown(t) ==
    /\ \/ Close(t, "set event", "field test")
       \/ t = "main" /\ Close(t, "idle", "field test")
    /\ shutdownEvent' = TRUE
    /\ UNCHANGED <<serverSocket, serverOpen, fieldSocket, fieldOpen>>

\* Manager.close: if self.__socket
TestField(t) ==
    /\ Close(t, "field test", IF fieldSocket THEN "field close" ELSE "link")
    /\ UNCHANGED resources

\* self.__socket.close()
CloseField(t) ==
    /\ Close(t, "field close", IF fieldSocket THEN "field clear" ELSE "raised")
    /\ fieldOpen' = (fieldOpen /\ ~fieldSocket)
    /\ UNCHANGED <<shutdownEvent, serverSocket, serverOpen, fieldSocket>>

ClearField(t) ==
    /\ Close(t, "field clear", "link")
    /\ fieldSocket' = FALSE
    /\ UNCHANGED <<shutdownEvent, serverSocket, serverOpen, fieldOpen>>

\* self.__session.buffer.stop()
StopLink(t) ==
    /\ Runs(t) /\ closing[t] = "link"
    /\ Link!StopperNext(t)
    /\ UNCHANGED <<caller, main, closing, resources>>

\* if self.__server_socket
TestServer(t) ==
    /\ stopper[t] = "returned"
    /\ Close(t, "link", IF serverSocket THEN "server close" ELSE "done")
    /\ UNCHANGED resources

\* self.__server_socket.close()
CloseServer(t) ==
    /\ Close(t, "server close", IF serverSocket THEN "server clear" ELSE "raised")
    /\ serverOpen' = (serverOpen /\ ~serverSocket)
    /\ UNCHANGED <<shutdownEvent, serverSocket, fieldSocket, fieldOpen>>

ClearServer(t) ==
    /\ Close(t, "server clear", "done")
    /\ serverSocket' = FALSE
    /\ UNCHANGED <<shutdownEvent, serverOpen, fieldSocket, fieldOpen>>

\* sys.exit(0): SystemExit unwinds serve_forever wherever it was
HandlerExits ==
    /\ caller = "signal handler" /\ closing["caller"] = "done"
    /\ closing' = [closing EXCEPT !["caller"] = "unwound"]
    /\ main' = "exited"
    /\ UNCHANGED <<linkVars, caller, resources>>

\* what close() raised unwinds serve_forever as well, unless it was handling a
\* command: `except Exception` then answers the client with it and serves on
HandlerRaises ==
    /\ caller = "signal handler" /\ Raised("caller") /\ closing["caller"] # "unwound"
    /\ closing' = [closing EXCEPT !["caller"] = "unwound"]
    /\ \/ main' = "crashed"
       \/ (main = "client" /\ main' = "loop")
    /\ UNCHANGED <<linkVars, caller, resources>>

-----------------------------------------------------------------------------
MainStep ==
    \/ Create \/ Bind \/ BindRaises
    \/ TestShutdown \/ AcceptNobody \/ AcceptClient \/ AcceptFails \/ AcceptOnNone
    \/ Leave \/ Return

CloseStep(t) ==
    \/ SetShutdown(t)
    \/ TestField(t) \/ CloseField(t) \/ ClearField(t)
    \/ StopLink(t)
    \/ TestServer(t) \/ CloseServer(t) \/ ClearServer(t)

HandlerUnwinds == HandlerExits \/ HandlerRaises

Daemon == UNCHANGED <<caller, main, closing, resources>>

PeerStep == Link!PeerNext /\ Daemon

ReaderStep == Link!ReaderNext /\ Daemon

Next ==
    \/ MainStep \/ ClientHandled
    \/ CallClose \/ HandlerUnwinds
    \/ \E t \in Threads : CloseStep(t)
    \/ PeerStep \/ ReaderStep

Spec == Init /\ [][Next]_vars

(***************************************************************************)
(* The threads keep running.  Nothing makes a client send its command, so  *)
(* ClientHandled is not fair.  A waiting peer is accepted by an accept()   *)
(* that is called often enough, and recv() on a connection whose peer has  *)
(* closed says so: neither times out for ever.                             *)
(***************************************************************************)
FairSpec ==
    /\ Spec
    /\ WF_vars(MainStep) /\ WF_vars(HandlerUnwinds)
    /\ \A t \in Threads : WF_vars(CloseStep(t))
    /\ WF_vars(ReaderStep)
    /\ SF_vars(Link!AcceptPeer /\ Daemon) /\ SF_vars(Link!ReceiveFails /\ Daemon)

-----------------------------------------------------------------------------
Stages == {"idle", "set event", "field test", "field close", "field clear", "link",
           "server close", "server clear", "done", "raised", "unwound"}

TypeOK ==
    /\ Link!TypeOK
    /\ caller \in Callers
    /\ main \in {"create", "bind", "loop", "accept", "client", "leave", "closing",
                 "ended", "exited", "crashed"}
    /\ closing \in [Threads -> Stages]
    /\ {shutdownEvent, serverSocket, serverOpen, fieldSocket, fieldOpen} \subseteq BOOLEAN

(***************************************************************************)
(* "A dropped peer is a normal event (the playing service can be restarted *)
(* independently), so it must not end the thread" (buffer.py:25): only     *)
(* stop() does, or, the one exception, an accept() that fails of its own,  *)
(* which tcp_connector.py:62 takes for a stop.                             *)
(***************************************************************************)
ThreadSurvives ==
    reader \in {"close test", "close", "clear", "dead"} => stopEvent \/ acceptError

(***************************************************************************)
(* "Bind and listen once, and keep the listener open." (tcp_connector.py:  *)
(* 34): until stop() a listener once bound stays open, there is only one,  *)
(* and the thread never accepts on another.                                *)
(***************************************************************************)
ListenerKept ==
    ~stopEvent =>
        /\ Cardinality(openListeners) <= 1
        /\ listener # 0 => openListeners = {listener}
        /\ reader = "accepting" => accepting = listener

(***************************************************************************)
(* The buffer thread and up to two callers of stop() close the connection, *)
(* and the thread may take a new one over while another closes the old:    *)
(* whatever the order, and wherever the others are, none is left open when *)
(* the thread has ended (buffer.py:56, tcp_connector.py:94).               *)
(***************************************************************************)
PeersReleased == reader = "dead" => openSockets = {}

(***************************************************************************)
(* However close() overlaps with serve_forever, the start of serve_forever *)
(* included, the port the commands come in on is free, and the field       *)
(* manager's socket closed, when serve_forever has returned or a signal    *)
(* has ended it, even while another close() is still on its way            *)
(* (runner.py:62-91).                                                      *)
(***************************************************************************)
PortReleased == main \in {"ended", "exited"} => ~serverOpen /\ ~fieldOpen

(***************************************************************************)
(* "Signal shutdown and release resources." (runner.py:63): nothing is     *)
(* left open once serve_forever has returned, the other call of close() is *)
(* through and the buffer thread has ended.                                *)
(***************************************************************************)
CloseReleases ==
    main = "ended" /\ Finished("caller") /\ reader = "dead"
        => /\ openSockets = {} /\ openListeners = {}
           /\ ~serverOpen /\ ~fieldOpen

(***************************************************************************)
(* The thread ends once it is told to, wherever it is (buffer.py:99).      *)
(***************************************************************************)
StopEndsThread == stopEvent ~> reader = "dead"

(***************************************************************************)
(* A playing service that connects again is accepted as soon as the one    *)
(* before it is gone, any number of times (buffer.py:32).                  *)
(***************************************************************************)
Idle == socket = 0 \/ socket \in gone

PeerAccepted ==
    (waiting > 0 /\ Idle) ~> (waiting = 0 \/ stopEvent \/ acceptError \/ ~Idle)

(***************************************************************************)
(* Once close() has set the event, serve_forever ends, even if close()     *)
(* then fails, unless a silent client holds it for ever (runner.py:81).    *)
(***************************************************************************)
ServeEnds == <>[](main # "client") => (shutdownEvent ~> MainOver)
=============================================================================
