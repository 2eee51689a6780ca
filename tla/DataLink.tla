------------------------------ MODULE DataLink -------------------------------
(***************************************************************************)
(* The data link: Buffer.run (lynch/state/buffer.py) on its own thread and *)
(* Buffer.stop on the threads that call it, all working on one connector   *)
(* without a lock.  A step is one access to what they share: the stop      *)
(* event, the attributes `socket` and `_server_socket`, and the sockets    *)
(* behind them.  Listeners and connections are numbered in the order they  *)
(* are made; 0 is None.                                                    *)
(*                                                                         *)
(* In NEONFC mode the connector is a TCPConnector in server mode           *)
(* (lynch/state/tcp_connector.py).  In DIRECT mode it is a                 *)
(* MulticastConnector (lynch/state/multicast_connector.py): no listener,   *)
(* no peers, no shutdown(), and one socket, number 1, that connect() makes *)
(* anew.                                                                   *)
(***************************************************************************)
EXTENDS Naturals, FiniteSets

CONSTANTS
    Stoppers,       \* the threads that call stop()
    Modes,          \* the data modes the runner may be started in: "NEONFC", "DIRECT"
    MaxPeers        \* bound: times a playing service connects

VARIABLES
    mode,           \* DataMode
    reader,         \* what the buffer thread does next
    stopper,        \* what each caller of stop() does next
    stopEvent,      \* stop_event
    socket,         \* connector.socket
    listener,       \* TCPConnector._server_socket
    conn,           \* local of accept_once: the connection accepted, 0 outside it
    fresh,          \* local of _ensure_listener: server_socket
    accepting,      \* the listener accept() was called on
    openSockets,    \* connections not closed
    openListeners,  \* listeners not closed
    deaf,           \* listeners shut down: accept() on them fails
    connected,      \* connections made so far
    listened,       \* listeners made so far
    waiting,        \* peers that wait to be accepted
    gone,           \* connections whose peer has closed
    acceptError     \* history: accept() has failed on a listener in order

locals == <<conn, fresh, accepting, listened, acceptError>>
peers == <<connected, waiting, gone>>
socks == <<socket, openSockets>>
listeners == <<listener, openListeners, deaf>>
vars == <<mode, reader, stopper, stopEvent, socks, listeners, locals, peers>>

Init ==
    /\ mode \in Modes
    /\ reader = "top" /\ stopper = [t \in Stoppers |-> "idle"] /\ stopEvent = FALSE
    /\ socket = 0 /\ listener = 0 /\ conn = 0 /\ fresh = 0 /\ accepting = 0
    /\ openSockets = {} /\ openListeners = {} /\ deaf = {} /\ acceptError = FALSE
    /\ connected = 0 /\ listened = 0 /\ waiting = 0 /\ gone = {}

-----------------------------------------------------------------------------
(***************************************************************************)
(* The playing service: connects while the listener is open, goes away,    *)
(* and may come back.                                                      *)
(***************************************************************************)
PeerConnects ==
    /\ openListeners \ deaf # {}
    /\ connected + waiting < MaxPeers
    /\ waiting' = waiting + 1
    /\ UNCHANGED <<mode, reader, stopper, stopEvent, socks, listeners, locals,
                   connected, gone>>

PeerLeaves ==
    /\ \E c \in 1..connected : c \notin gone /\ gone' = gone \cup {c}
    /\ UNCHANGED <<mode, reader, stopper, stopEvent, socks, listeners, locals,
                   connected, waiting>>

-----------------------------------------------------------------------------
(***************************************************************************)
(* The buffer thread.                                                      *)
(***************************************************************************)
Reader(here, next) ==
    reader = here /\ reader' = next /\ UNCHANGED <<mode, stopper, stopEvent>>

OnlyReader == UNCHANGED <<socks, listeners, locals, peers>>

\* while not self.stop_event.is_set()
TestStop ==
    /\ Reader("top", IF stopEvent THEN "close test"
                     ELSE IF mode = "NEONFC" THEN "ensure" ELSE "connect")
    /\ OnlyReader

\* MulticastConnector.connect: the new socket replaces the old; binding or
\* joining the group may raise, to run()
Connect ==
    /\ Reader("connect", "read test") \/ Reader("connect", "top")
    /\ socket' = 1
    /\ openSockets' = {1}
    /\ UNCHANGED <<listeners, locals, peers>>

\* _ensure_listener: there is one
KeepListener == listener # 0 /\ Reader("ensure", "accept test") /\ OnlyReader

\* _ensure_listener: bind, listen
OpenListener ==
    /\ listener = 0
    /\ Reader("ensure", "assign")
    /\ listened' = listened + 1
    /\ fresh' = listened + 1
    /\ openListeners' = openListeners \cup {listened + 1}
    /\ UNCHANGED <<socks, listener, deaf, conn, accepting, acceptError, peers>>

\* _ensure_listener: the port is taken
OpenListenerRaises == listener = 0 /\ Reader("ensure", "top") /\ OnlyReader

AssignListener ==
    /\ Reader("assign", "accept test")
    /\ listener' = fresh
    /\ UNCHANGED <<socks, openListeners, deaf, locals, peers>>

\* accept_once: stopped while waiting; run() breaks
TestStopInAccept ==
    /\ Reader("accept test", IF stopEvent THEN "close test" ELSE "accept")
    /\ OnlyReader

\* self._server_socket is loaded; the call on None raises through to run()
CallAccept ==
    /\ Reader("accept", IF listener = 0 THEN "top" ELSE "accepting")
    /\ accepting' = listener
    /\ UNCHANGED <<socks, listeners, conn, fresh, listened, acceptError, peers>>

Usable(l) == l \in openListeners /\ l \notin deaf

AcceptTimeout == Usable(accepting) /\ Reader("accepting", "accept test") /\ OnlyReader

\* mutant: the listener is closed behind the first accept
AcceptPeerAndClose ==
    /\ Usable(accepting) /\ waiting > 0
    /\ Reader("accepting", "set socket")
    /\ waiting' = waiting - 1
    /\ connected' = connected + 1
    /\ conn' = connected + 1
    /\ openSockets' = openSockets \cup {connected + 1}
    /\ openListeners' = openListeners \ {accepting}
    /\ UNCHANGED <<socket, listener, deaf, fresh, accepting, listened, acceptError, gone>>

\* mutant: a connection is taken over although accept() returned none
AcceptNobody ==
    /\ Usable(accepting)
    /\ Reader("accepting", "set socket")
    /\ waiting' = waiting - 1
    /\ connected' = connected + 1
    /\ conn' = connected + 1
    /\ openSockets' = openSockets \cup {connected + 1}
    /\ UNCHANGED <<socket, listeners, fresh, accepting, listened, acceptError, gone>>

AcceptPeer ==
    /\ Usable(accepting) /\ waiting > 0
    /\ Reader("accepting", "set socket")
    /\ waiting' = waiting - 1
    /\ connected' = connected + 1
    /\ conn' = connected + 1
    /\ openSockets' = openSockets \cup {connected + 1}
    /\ UNCHANGED <<socket, listeners, fresh, accepting, listened, acceptError, gone>>

\* any OSError of accept(), from a shutdown or of its own: accept_once returns
\* False and run() breaks
AcceptFails ==
    /\ Reader("accepting", "close test")
    /\ acceptError' = (acceptError \/ Usable(accepting))
    /\ UNCHANGED <<socks, listeners, conn, fresh, accepting, listened, peers>>

\* self.socket = conn; the connection it replaces is dropped, and so closed
SetSocket ==
    /\ Reader("set socket", "set timeout")
    /\ socket' = conn
    /\ openSockets' = openSockets \cap {conn}
    /\ UNCHANGED <<listeners, locals, peers>>

\* self.socket.settimeout(0.1): None or a closed socket raises through to run();
\* accept_once is left, so only the attribute still holds the connection
SetTimeout ==
    /\ Reader("set timeout", IF socket \in openSockets THEN "read test" ELSE "top")
    /\ conn' = 0
    /\ openSockets' = openSockets \cap {socket}
    /\ UNCHANGED <<socket, listeners, fresh, accepting, listened, acceptError, peers>>

\* mutant: the inner loop does not look at stop_event
ReadUntilLost == Reader("read test", "receive") /\ OnlyReader

\* the inner loop condition; the input buffer is reset behind the loop
TestStopInRead == Reader("read test", IF stopEvent THEN "top" ELSE "receive") /\ OnlyReader

\* data, or a receive timeout; in DIRECT mode errors are swallowed as well
Receive == socket \in openSockets /\ Reader("receive", "read test") /\ OnlyReader

\* mutant: a peer that goes away ends the thread
ReceiveFailsForGood ==
    /\ socket \notin openSockets \/ socket \in gone
    /\ Reader("receive", "close test") /\ OnlyReader

\* mutant: a lost connection is read again
ReceiveFailsIgnored ==
    /\ socket \notin openSockets \/ socket \in gone
    /\ Reader("receive", "read test") /\ OnlyReader

\* the peer closed, or the socket is None or closed: back to accept
ReceiveFails ==
    /\ socket \notin openSockets \/ socket \in gone
    /\ Reader("receive", "top") /\ OnlyReader

\* mutant: run() has no finally
LeaveUnclosed == Reader("close test", "dead") /\ OnlyReader

\* finally: self.connector.close()
ReaderTestsSocket ==
    Reader("close test", IF socket = 0 THEN "dead" ELSE "close") /\ OnlyReader

\* an AttributeError ends the thread just as well
ReaderCloses ==
    /\ Reader("close", IF socket = 0 THEN "dead" ELSE "clear")
    /\ openSockets' = openSockets \ {socket}
    /\ UNCHANGED <<socket, listeners, locals, peers>>

ReaderClears ==
    /\ Reader("clear", "dead")
    /\ socket' = 0
    /\ openSockets' = openSockets \cap {conn}
    /\ UNCHANGED <<listeners, locals, peers>>

-----------------------------------------------------------------------------
(***************************************************************************)
(* stop(), by a thread t that runs Runner.close().                         *)
(***************************************************************************)
Stopper(t, here, next) ==
    /\ stopper[t] = here
    /\ stopper' = [stopper EXCEPT ![t] = next]
    /\ UNCHANGED <<mode, reader, locals, connected, gone>>

OnlyStopper == UNCHANGED <<stopEvent, socks, listeners, waiting>>

\* stop_event.set(); a MulticastConnector has no shutdown()
SetStop(t) ==
    /\ Stopper(t, "idle", IF mode = "NEONFC" THEN "close test" ELSE "join")
    /\ stopEvent' = TRUE
    /\ UNCHANGED <<socks, listeners, waiting>>

\* shutdown() -> close(): if self.socket
StopperTestsSocket(t) ==
    Stopper(t, "close test", IF socket = 0 THEN "listener test" ELSE "close") /\ OnlyStopper

\* self.socket.close(): stop() does not catch what it raises on None
StopperCloses(t) ==
    /\ Stopper(t, "close", IF socket = 0 THEN "raised" ELSE "clear")
    /\ openSockets' = openSockets \ {socket}
    /\ UNCHANGED <<stopEvent, socket, listeners, waiting>>

\* self.socket = None drops the connection; accept_once may still hold it
StopperClears(t) ==
    /\ Stopper(t, "clear", "listener test")
    /\ socket' = 0
    /\ openSockets' = openSockets \cap {conn}
    /\ UNCHANGED <<stopEvent, listeners, waiting>>

\* if self._server_socket
StopperTestsListener(t) ==
    Stopper(t, "listener test", IF listener = 0 THEN "join" ELSE "shut down") /\ OnlyStopper

\* self._server_socket.shutdown(SHUT_RDWR), an OSError is caught
ShutDownListener(t) ==
    /\ Stopper(t, "shut down", IF listener = 0 THEN "raised" ELSE "close listener")
    /\ deaf' = deaf \cup ({listener} \ {0})
    /\ UNCHANGED <<stopEvent, socks, listener, openListeners, waiting>>

\* self._server_socket.close(); peers still waiting on it are reset
CloseListener(t) ==
    /\ Stopper(t, "close listener", IF listener = 0 THEN "raised" ELSE "clear listener")
    /\ openListeners' = openListeners \ {listener}
    /\ waiting' = IF listener \in openListeners THEN 0 ELSE waiting
    /\ UNCHANGED <<stopEvent, socks, listener, deaf>>

\* self._server_socket = None; a listener assigned since is dropped, and so closed
ClearListener(t) ==
    /\ Stopper(t, "clear listener", "join")
    /\ listener' = 0
    /\ openListeners' = openListeners \ {listener}
    /\ UNCHANGED <<stopEvent, socks, deaf, waiting>>

\* join(timeout=1.0), whether the thread ended or not
Join(t) == Stopper(t, "join", "returned") /\ OnlyStopper

-----------------------------------------------------------------------------
PeerNext == PeerConnects \/ PeerLeaves

ReaderNext ==
    \/ TestStop \/ Connect
    \/ KeepListener \/ OpenListener \/ OpenListenerRaises \/ AssignListener
    \/ TestStopInAccept \/ CallAccept
    \/ AcceptTimeout \/ AcceptPeer \/ AcceptFails
    \/ SetSocket \/ SetTimeout
    \/ TestStopInRead \/ Receive \/ ReceiveFails
    \/ ReaderTestsSocket \/ ReaderCloses \/ ReaderClears

StopperNext(t) ==
    \/ SetStop(t)
    \/ StopperTestsSocket(t) \/ StopperCloses(t) \/ StopperClears(t)
    \/ StopperTestsListener(t) \/ ShutDownListener(t) \/ CloseListener(t)
    \/ ClearListener(t)
    \/ Join(t)

-----------------------------------------------------------------------------
Sockets == 1..MaxPeers

TypeOK ==
    /\ mode \in Modes
    /\ reader \in {"top", "connect", "ensure", "assign", "accept test", "accept",
                  "accepting", "set socket", "set timeout", "read test", "receive",
                  "close test", "close", "clear", "dead"}
    /\ stopper \in [Stoppers ->
           {"idle", "close test", "close", "clear", "listener test", "shut down",
            "close listener", "clear listener", "join", "returned", "raised"}]
    /\ {stopEvent, acceptError} \subseteq BOOLEAN
    /\ {socket, conn, connected} \subseteq 0..MaxPeers
    /\ {listener, fresh, accepting} \subseteq 0..listened /\ listened \in Nat
    /\ openSockets \subseteq Sockets /\ gone \subseteq Sockets
    /\ openListeners \subseteq 1..listened /\ deaf \subseteq 1..listened
    /\ waiting \in 0..MaxPeers
=============================================================================
