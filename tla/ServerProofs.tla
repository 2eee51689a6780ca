----------------------------- MODULE ServerProofs -----------------------------
(***************************************************************************)
(* The daemon for every set of callers of close(), both data modes and any *)
(* number of connections: whatever the order of the steps of its threads,  *)
(* the buffer thread outlives its peers, keeps one listener, and leaves no *)
(* connection behind, and serve_forever leaves no port behind.             *)
(*                                                                         *)
(* Nothing is locked, so each invariant says what the attribute tests of   *)
(* one thread are worth when another runs in between.                      *)
(***************************************************************************)
EXTENDS Server, FiniteSetTheorems, TLAPS

(***************************************************************************)
(* Types.  A connection's number stays in its range because a peer that    *)
(* waits is counted before it is accepted.                                 *)
(***************************************************************************)
Known ==
    /\ TypeOK
    /\ connected + waiting <= MaxPeers

\* the numbers and sets of numbers among the types, one by one
LEMMA KnownNumbers ==
    ASSUME Known
    PROVE  /\ MaxPeers \in Nat /\ MaxPeers >= 1
           /\ socket \in 0..MaxPeers /\ conn \in 0..MaxPeers
           /\ connected \in 0..MaxPeers /\ waiting \in 0..MaxPeers
           /\ connected + waiting <= MaxPeers
           /\ openSockets \subseteq 1..MaxPeers /\ gone \subseteq 1..MaxPeers
           /\ listened \in Nat
           /\ listener \in 0..listened /\ fresh \in 0..listened /\ accepting \in 0..listened
           /\ openListeners \subseteq 1..listened /\ deaf \subseteq 1..listened
<1>1. MaxPeers \in Nat /\ MaxPeers >= 1
  <2>1. MaxPeers \in Nat \ {0}
    BY ServerAssumption
  <2> QED
    BY <2>1
<1>2. /\ {socket, conn, connected} \subseteq 0..MaxPeers /\ waiting \in 0..MaxPeers
      /\ openSockets \subseteq Link!Sockets /\ gone \subseteq Link!Sockets
      /\ {listener, fresh, accepting} \subseteq 0..listened /\ listened \in Nat
      /\ openListeners \subseteq 1..listened /\ deaf \subseteq 1..listened
      /\ connected + waiting <= MaxPeers
  BY DEF Known, TypeOK, Link!TypeOK
<1> QED
  BY <1>1, <1>2 DEF Link!Sockets

\* the playing service keeps the types
LEMMA PeerType ==
    ASSUME Known, PeerStep
    PROVE  Known'
<1> USE DEF PeerStep, Daemon, resources, Link!socks, Link!listeners, Link!locals
<1>1. /\ UNCHANGED <<mode, reader, stopper, stopEvent, socket, openSockets, listener,
                    openListeners, deaf, conn, fresh, accepting, listened, acceptError,
                    connected>>
      /\ UNCHANGED <<caller, main, closing, shutdownEvent, serverSocket, serverOpen,
                    fieldSocket, fieldOpen>>
  BY DEF Link!PeerNext, Link!PeerConnects, Link!PeerLeaves
<1>3. /\ waiting' \in 0..MaxPeers /\ connected + waiting' <= MaxPeers
      /\ gone' \subseteq 1..MaxPeers
  <2>1. CASE Link!PeerConnects
    BY <2>1, KnownNumbers DEF Link!PeerConnects
  <2>2. CASE Link!PeerLeaves
    BY <2>2, KnownNumbers DEF Link!PeerLeaves
  <2> QED
    BY <2>1, <2>2 DEF Link!PeerNext
<1> QED
  BY <1>1, <1>3 DEF Known, TypeOK, Link!TypeOK, Link!Sockets

\* a step of the buffer thread changes nothing of the callers of close()
LEMMA ReaderFrame ==
    ASSUME ReaderStep
    PROVE  /\ UNCHANGED <<mode, stopper, stopEvent, deaf>>
           /\ UNCHANGED <<caller, main, closing>>
           /\ UNCHANGED <<shutdownEvent, serverSocket, serverOpen, fieldSocket, fieldOpen>>
<1> USE DEF ReaderStep, Daemon, resources, Link!ReaderNext, Link!Reader, Link!OnlyReader,
            Link!socks, Link!listeners, Link!locals, Link!peers
<1>1. UNCHANGED <<mode, stopper, stopEvent>>
  BY DEF Link!TestStop, Link!Connect, Link!KeepListener, Link!OpenListener,
         Link!OpenListenerRaises, Link!AssignListener, Link!TestStopInAccept,
         Link!CallAccept, Link!AcceptTimeout, Link!AcceptPeer, Link!AcceptFails,
         Link!SetSocket, Link!SetTimeout, Link!TestStopInRead, Link!Receive,
         Link!ReceiveFails, Link!ReaderTestsSocket, Link!ReaderCloses, Link!ReaderClears
<1>2. UNCHANGED deaf
  BY DEF Link!TestStop, Link!Connect, Link!KeepListener, Link!OpenListener,
         Link!OpenListenerRaises, Link!AssignListener, Link!TestStopInAccept,
         Link!CallAccept, Link!AcceptTimeout, Link!AcceptPeer, Link!AcceptFails,
         Link!SetSocket, Link!SetTimeout, Link!TestStopInRead, Link!Receive,
         Link!ReceiveFails, Link!ReaderTestsSocket, Link!ReaderCloses, Link!ReaderClears
<1> QED
  BY <1>1, <1>2

\* what the buffer thread accepts, assigns and closes has a number
LEMMA ReaderNumbers ==
    ASSUME Known, ReaderStep
    PROVE  /\ {socket', conn', connected'} \subseteq 0..MaxPeers /\ waiting' \in 0..MaxPeers
           /\ openSockets' \subseteq 1..MaxPeers /\ gone' \subseteq 1..MaxPeers
           /\ {listener', fresh', accepting'} \subseteq 0..listened' /\ listened' \in Nat
           /\ openListeners' \subseteq 1..listened' /\ deaf' \subseteq 1..listened'
           /\ connected' + waiting' <= MaxPeers
<1> USE KnownNumbers
    DEF Link!Reader, Link!OnlyReader, Link!socks, Link!listeners, Link!locals, Link!peers
<1>1. CASE Link!Connect
  <2>1. UNCHANGED <<conn, connected, waiting, gone, listener, fresh, accepting, listened,
                    openListeners, deaf>>
    BY <1>1 DEF Link!Connect
  <2>2. socket' \in 0..MaxPeers /\ openSockets' \subseteq 1..MaxPeers
    <3>1. socket' = 1 /\ openSockets' = {1}
      BY <1>1 DEF Link!Connect
    <3> QED
      BY <3>1
  <2> QED
    BY <2>1, <2>2
<1>2. CASE Link!OpenListener
  BY <1>2 DEF Link!OpenListener
<1>3. CASE Link!AssignListener
  BY <1>3 DEF Link!AssignListener
<1>4. CASE Link!CallAccept
  BY <1>4 DEF Link!CallAccept
<1>5. CASE Link!AcceptPeer
  <2>1. UNCHANGED <<socket, gone, listener, fresh, accepting, listened, openListeners, deaf>>
    BY <1>5 DEF Link!AcceptPeer
  <2>2. /\ waiting > 0 /\ waiting' = waiting - 1 /\ connected' = connected + 1
        /\ conn' = connected + 1 /\ openSockets' = openSockets \cup {connected + 1}
    BY <1>5 DEF Link!AcceptPeer
  <2>3. connected + 1 \in 1..MaxPeers /\ waiting - 1 \in 0..MaxPeers
    BY <2>2
  <2> QED
    BY <2>1, <2>2, <2>3
<1>6. CASE Link!AcceptFails
  BY <1>6 DEF Link!AcceptFails
<1>7. CASE Link!SetSocket
  BY <1>7 DEF Link!SetSocket
<1>8. CASE Link!SetTimeout
  <2>1. UNCHANGED <<socket, connected, waiting, gone, listener, fresh, accepting, listened,
                    openListeners, deaf>>
    BY <1>8 DEF Link!SetTimeout
  <2>2. conn' = 0 /\ openSockets' = openSockets \cap {socket}
    BY <1>8 DEF Link!SetTimeout
  <2> QED
    BY <2>1, <2>2
<1>9. CASE Link!ReaderCloses \/ Link!ReaderClears
  BY <1>9 DEF Link!ReaderCloses, Link!ReaderClears
<1>10. CASE Link!OnlyReader
  BY <1>10
<1> QED
  BY <1>1, <1>2, <1>3, <1>4, <1>5, <1>6, <1>7, <1>8, <1>9, <1>10
     DEF ReaderStep, Link!ReaderNext, Link!TestStop, Link!KeepListener,
         Link!OpenListenerRaises, Link!TestStopInAccept, Link!AcceptTimeout,
         Link!TestStopInRead, Link!Receive, Link!ReceiveFails, Link!ReaderTestsSocket

\* the buffer thread keeps the types
LEMMA ReaderType ==
    ASSUME Known, ReaderStep
    PROVE  Known'
<1>1. reader' \in {"top", "connect", "ensure", "assign", "accept test", "accept",
                  "accepting", "set socket", "set timeout", "read test", "receive",
                  "close test", "close", "clear", "dead"}
  BY DEF ReaderStep, Link!ReaderNext, Link!Reader, 
         Link!TestStop, Link!Connect, Link!KeepListener, Link!OpenListener,
         Link!OpenListenerRaises, Link!AssignListener, Link!TestStopInAccept,
         Link!CallAccept, Link!AcceptTimeout, Link!AcceptPeer, Link!AcceptFails,
         Link!SetSocket, Link!SetTimeout, Link!TestStopInRead, Link!Receive,
         Link!ReceiveFails, Link!ReaderTestsSocket, Link!ReaderCloses, Link!ReaderClears
<1>2. acceptError' \in BOOLEAN
  <2>1. acceptError \in BOOLEAN
    BY DEF Known, TypeOK, Link!TypeOK
  <2>2. acceptError' = acceptError \/ acceptError' \in BOOLEAN
    BY DEF ReaderStep, Link!ReaderNext, Link!OnlyReader, Link!locals, Link!Usable,
         Link!TestStop, Link!Connect, Link!KeepListener, Link!OpenListener,
         Link!OpenListenerRaises, Link!AssignListener, Link!TestStopInAccept,
         Link!CallAccept, Link!AcceptTimeout, Link!AcceptPeer, Link!AcceptFails,
         Link!SetSocket, Link!SetTimeout, Link!TestStopInRead, Link!Receive,
         Link!ReceiveFails, Link!ReaderTestsSocket, Link!ReaderCloses, Link!ReaderClears
  <2> QED
    BY <2>1, <2>2
<1>3. /\ mode \in Modes /\ stopEvent \in BOOLEAN
      /\ stopper \in [Threads ->
             {"idle", "close test", "close", "clear", "listener test", "shut down",
              "close listener", "clear listener", "join", "returned", "raised"}]
      /\ caller \in Callers
      /\ main \in {"create", "bind", "loop", "accept", "client", "leave", "closing",
                   "ended", "exited", "crashed"}
      /\ closing \in [Threads -> Stages]
      /\ {shutdownEvent, serverSocket, serverOpen, fieldSocket, fieldOpen} \subseteq BOOLEAN
  BY DEF Known, TypeOK, Link!TypeOK
<1> QED
  BY <1>1, <1>2, <1>3, ReaderFrame, ReaderNumbers DEF Known, TypeOK, Link!TypeOK, Link!Sockets

StopStages == {"idle", "close test", "close", "clear", "listener test", "shut down",
               "close listener", "clear listener", "join", "returned", "raised"}

\* what a thread that runs stop() may change
LEMMA StopperFrame ==
    ASSUME Known, NEW t \in Threads, StopLink(t)
    PROVE  /\ UNCHANGED <<mode, reader, conn, fresh, accepting, listened, acceptError,
                         connected, gone>>
           /\ UNCHANGED <<caller, main, closing>>
           /\ UNCHANGED <<shutdownEvent, serverSocket, serverOpen, fieldSocket, fieldOpen>>
           /\ closing[t] = "link"
           /\ \E next \in StopStages : stopper' = [stopper EXCEPT ![t] = next]
           /\ stopEvent' = IF stopper[t] = "idle" THEN TRUE ELSE stopEvent
           /\ \/ socket' = socket /\ openSockets' \subseteq openSockets
              \/ socket' = 0 /\ openSockets' = openSockets \cap {conn}
           /\ listener' \in {listener, 0} /\ openListeners' \subseteq openListeners
           /\ deaf' \subseteq deaf \cup ({listener} \ {0})
           /\ waiting' \in {waiting, 0}
<1> USE DEF StopLink, resources, Link!StopperNext, Link!Stopper, Link!OnlyStopper,
            Link!socks, Link!listeners, Link!locals, Link!SetStop, Link!StopperTestsSocket,
            Link!StopperCloses, Link!StopperClears, Link!StopperTestsListener,
            Link!ShutDownListener, Link!CloseListener, Link!ClearListener, Link!Join
<1>1. /\ UNCHANGED <<mode, reader, conn, fresh, accepting, listened, acceptError,
                    connected, gone>>
      /\ UNCHANGED <<caller, main, closing>>
      /\ UNCHANGED <<shutdownEvent, serverSocket, serverOpen, fieldSocket, fieldOpen>>
      /\ closing[t] = "link"
  OBVIOUS
<1>2. \E next \in StopStages : stopper' = [stopper EXCEPT ![t] = next]
  BY DEF StopStages
<1>3. stopEvent' = IF stopper[t] = "idle" THEN TRUE ELSE stopEvent
  OBVIOUS
<1>4. \/ socket' = socket /\ openSockets' \subseteq openSockets
      \/ socket' = 0 /\ openSockets' = openSockets \cap {conn}
  OBVIOUS
<1>5. /\ listener' \in {listener, 0} /\ openListeners' \subseteq openListeners
      /\ deaf' \subseteq deaf \cup ({listener} \ {0})
      /\ waiting' \in {waiting, 0}
  OBVIOUS
<1> QED
  BY <1>1, <1>2, <1>3, <1>4, <1>5

\* stop() keeps the types
LEMMA StopperType ==
    ASSUME Known, NEW t \in Threads, StopLink(t)
    PROVE  Known'
<1>1. stopper' \in [Threads -> StopStages]
  <2>1. stopper \in [Threads -> StopStages]
    BY DEF Known, TypeOK, Link!TypeOK, StopStages
  <2> QED
    BY <2>1, StopperFrame
<1>2. stopEvent' \in BOOLEAN
  BY StopperFrame DEF Known, TypeOK, Link!TypeOK
<1>3. /\ {socket', conn', connected'} \subseteq 0..MaxPeers /\ waiting' \in 0..MaxPeers
      /\ openSockets' \subseteq 1..MaxPeers /\ gone' \subseteq 1..MaxPeers
      /\ connected' + waiting' <= MaxPeers
  <2>1. UNCHANGED <<conn, connected, gone>> /\ socket' \in {socket, 0}
        /\ openSockets' \subseteq openSockets /\ waiting' \in {waiting, 0}
    BY StopperFrame
  <2> QED
    BY <2>1, KnownNumbers
<1>4. /\ {listener', fresh', accepting'} \subseteq 0..listened' /\ listened' \in Nat
      /\ openListeners' \subseteq 1..listened' /\ deaf' \subseteq 1..listened'
  <2>1. UNCHANGED <<fresh, accepting, listened>> /\ listener' \in {listener, 0}
    BY StopperFrame
  <2>2. openListeners' \subseteq openListeners /\ deaf' \subseteq deaf \cup ({listener} \ {0})
    BY StopperFrame
  <2>3. listener # 0 => listener \in 1..listened
    BY KnownNumbers
  <2> QED
    BY <2>1, <2>2, <2>3, KnownNumbers
<1>5. /\ mode \in Modes /\ acceptError \in BOOLEAN /\ caller \in Callers
      /\ reader \in {"top", "connect", "ensure", "assign", "accept test", "accept",
                    "accepting", "set socket", "set timeout", "read test", "receive",
                    "close test", "close", "clear", "dead"}
      /\ main \in {"create", "bind", "loop", "accept", "client", "leave", "closing",
                   "ended", "exited", "crashed"}
      /\ closing \in [Threads -> Stages]
      /\ {shutdownEvent, serverSocket, serverOpen, fieldSocket, fieldOpen} \subseteq BOOLEAN
  BY DEF Known, TypeOK, Link!TypeOK
<1>6. /\ UNCHANGED <<mode, reader, acceptError, caller, main, closing>>
      /\ UNCHANGED <<shutdownEvent, serverSocket, serverOpen, fieldSocket, fieldOpen>>
  BY StopperFrame
<1>7. Link!TypeOK'
  BY <1>1, <1>2, <1>3, <1>4, <1>5, <1>6 DEF Link!TypeOK, Link!Sockets, StopStages
<1> QED
  BY <1>3, <1>5, <1>6, <1>7 DEF Known, TypeOK

(***************************************************************************)
(* The steps of serve_forever and of close() outside the data link.        *)
(***************************************************************************)
ServeStep ==
    \/ MainStep \/ ClientHandled \/ CallClose \/ HandlerUnwinds
    \/ \E t \in Threads :
          \/ SetShutdown(t) \/ TestField(t) \/ CloseField(t) \/ ClearField(t)
          \/ TestServer(t) \/ CloseServer(t) \/ ClearServer(t)

\* every step is one of those, of stop(), of the buffer thread or of the peers
LEMMA Steps ==
    ASSUME [Next]_vars
    PROVE  \/ ServeStep \/ PeerStep \/ ReaderStep \/ UNCHANGED vars
           \/ \E t \in Threads : StopLink(t)
BY DEF Next, ServeStep, CloseStep

\* they leave the data link alone
LEMMA ServeFrame ==
    ASSUME ServeStep
    PROVE  /\ UNCHANGED <<mode, reader, stopper, stopEvent, socket, listener, conn, fresh>>
           /\ UNCHANGED <<accepting, openSockets, openListeners, deaf, connected, listened>>
           /\ UNCHANGED <<waiting, gone, acceptError, caller>>
BY DEF ServeStep, linkVars, MainStep, Main, ClientHandled, CallClose, HandlerUnwinds,
       Create, Bind, BindRaises, TestShutdown, AcceptNobody, AcceptClient, AcceptFails,
       AcceptOnNone, Leave, Return, Close, SetShutdown, TestField, CloseField, ClearField,
       TestServer, CloseServer, ClearServer, HandlerExits, HandlerRaises

\* they keep the types
LEMMA ServeType ==
    ASSUME Known, ServeStep
    PROVE  Known'
<1>1. /\ Link!TypeOK /\ caller \in Callers
      /\ main \in {"create", "bind", "loop", "accept", "client", "leave", "closing",
                   "ended", "exited", "crashed"}
      /\ closing \in [Threads -> Stages]
      /\ {shutdownEvent, serverSocket, serverOpen, fieldSocket, fieldOpen} \subseteq BOOLEAN
  BY DEF Known, TypeOK
<1>2. UNCHANGED <<mode, reader, stopper, stopEvent, socket, listener, conn, fresh,
                  accepting, openSockets, openListeners, deaf, connected, listened,
                  waiting, gone, acceptError, caller>>
  BY ServeFrame
<1>3. Link!TypeOK' /\ caller' \in Callers
  BY <1>1, <1>2 DEF Link!TypeOK
<1>4. connected' + waiting' <= MaxPeers
  BY <1>2 DEF Known
<1> USE DEF ServeStep, MainStep, Main, KeepsServer, ClientHandled, CallClose, HandlerUnwinds,
       Create, Bind, BindRaises, TestShutdown, AcceptNobody, AcceptClient, AcceptFails,
       AcceptOnNone, Leave, Return, Close, SetShutdown, TestField, CloseField, ClearField,
       TestServer, CloseServer, ClearServer, HandlerExits, HandlerRaises, resources
<1>5. main' \in {"create", "bind", "loop", "accept", "client", "leave", "closing",
                "ended", "exited", "crashed"}
  BY <1>1
<1>6. closing' \in [Threads -> Stages]
  <2>1. closing' = closing \/ \E t \in Threads, next \in Stages :
                                 closing' = [closing EXCEPT ![t] = next]
    BY DEF Threads, Stages
  <2> QED
    BY <1>1, <2>1
<1>7. {shutdownEvent', serverSocket', serverOpen', fieldSocket', fieldOpen'} \subseteq BOOLEAN
  BY <1>1
<1> QED
  BY <1>5, <1>6, <1>7, <1>3, <1>4 DEF Known, TypeOK

\* Known holds of every state of the daemon
LEMMA AlwaysKnown == Spec => []Known
<1>1. Init => Known
  <2> SUFFICES ASSUME Init
               PROVE  Known
    OBVIOUS
  <2>1. MaxPeers \in Nat \ {0}
    BY ServerAssumption
  <2>2. Link!TypeOK
    <3>1. /\ {socket, conn, connected} \subseteq 0..MaxPeers /\ waiting \in 0..MaxPeers
          /\ {listener, fresh, accepting} \subseteq 0..listened /\ listened \in Nat
      BY <2>1 DEF Init, Link!Init
    <3>2. /\ openSockets \subseteq Link!Sockets /\ gone \subseteq Link!Sockets
          /\ openListeners \subseteq 1..listened /\ deaf \subseteq 1..listened
      BY DEF Init, Link!Init
    <3> QED
      BY <3>1, <3>2 DEF Init, Link!Init, Link!TypeOK
  <2>3. connected + waiting <= MaxPeers
    BY <2>1 DEF Init, Link!Init
  <2> QED
    BY <2>2, <2>3 DEF Init, Known, TypeOK, Stages
<1>2. ASSUME Known, UNCHANGED vars
      PROVE  Known'
  BY <1>2 DEF Known, TypeOK, Link!TypeOK, vars, linkVars, resources
<1>3. Known /\ [Next]_vars => Known'
  BY <1>2, Steps, PeerType, ReaderType, StopperType, ServeType
<1> QED
  BY <1>1, <1>3, PTL DEF Spec

(***************************************************************************)
(* The daemon's variables keep their types: no thread is ever where the    *)
(* code has no statement.                                                  *)
(***************************************************************************)
THEOREM ServerTypeCorrect == Spec => []TypeOK
<1>1. Known => TypeOK
  BY DEF Known
<1> QED
  BY <1>1, AlwaysKnown, PTL

-----------------------------------------------------------------------------
(***************************************************************************)
(* One listener.  Until stop() is called none is shut down, and the open   *)
(* one is the attribute's, or still _ensure_listener's local.              *)
(***************************************************************************)
ListenerInv ==
    /\ \A t \in Threads : stopper[t] # "idle" => stopEvent
    /\ ~stopEvent =>
          /\ deaf = {}
          /\ openListeners = IF reader = "assign" THEN {fresh} ELSE {listener} \ {0}
          /\ reader = "assign" => listener = 0
          /\ reader = "accepting" => accepting = listener /\ accepting # 0

\* the buffer thread keeps it
LEMMA ListenerReader ==
    ASSUME Known, ListenerInv, ReaderStep
    PROVE  ListenerInv'
<1> SUFFICES ASSUME ~stopEvent
             PROVE  ListenerInv'
  BY ReaderFrame DEF ListenerInv
<1> USE DEF Link!Reader, Link!OnlyReader, Link!socks, Link!listeners, Link!locals
<1>1. /\ UNCHANGED <<stopper, stopEvent, deaf>> /\ deaf = {}
      /\ \A t \in Threads : stopper[t] # "idle" => stopEvent
      /\ openListeners = IF reader = "assign" THEN {fresh} ELSE {listener} \ {0}
      /\ reader = "assign" => listener = 0
      /\ reader = "accepting" => accepting = listener /\ accepting # 0
  BY ReaderFrame DEF ListenerInv
<1>2. listened \in Nat
  BY KnownNumbers
<1> SUFFICES /\ openListeners' = IF reader' = "assign" THEN {fresh'} ELSE {listener'} \ {0}
             /\ reader' = "assign" => listener' = 0
             /\ reader' = "accepting" => accepting' = listener' /\ accepting' # 0
  BY <1>1 DEF ListenerInv
<1>3. CASE Link!OpenListener
  BY <1>1, <1>2, <1>3 DEF Link!OpenListener
<1>4. CASE Link!AssignListener
  <2>1. reader = "assign" /\ reader' = "accept test" /\ listener' = fresh
        /\ openListeners' = openListeners
    BY <1>4 DEF Link!AssignListener
  <2>2. fresh # 0
    <3>1. fresh \in openListeners /\ openListeners \subseteq 1..listened
      BY <1>1, <2>1, KnownNumbers
    <3> QED
      BY <1>2, <3>1
  <2> QED
    BY <1>1, <2>1, <2>2
<1>5. CASE Link!CallAccept
  BY <1>1, <1>5 DEF Link!CallAccept
<1>6. CASE Link!AcceptPeer
  BY <1>1, <1>6 DEF Link!AcceptPeer
<1>7. CASE Link!AcceptFails
  BY <1>1, <1>7 DEF Link!AcceptFails
<1>8. CASE Link!Connect
  BY <1>1, <1>8 DEF Link!Connect
<1>9. CASE Link!SetSocket \/ Link!SetTimeout \/ Link!ReaderCloses \/ Link!ReaderClears
  BY <1>1, <1>9 DEF Link!SetSocket, Link!SetTimeout, Link!ReaderCloses, Link!ReaderClears
<1>10. CASE \/ Link!TestStop \/ Link!KeepListener \/ Link!OpenListenerRaises
            \/ Link!TestStopInAccept \/ Link!AcceptTimeout \/ Link!TestStopInRead
            \/ Link!Receive \/ Link!ReceiveFails \/ Link!ReaderTestsSocket
  BY <1>1, <1>10
     DEF Link!TestStop, Link!KeepListener,
         Link!OpenListenerRaises, Link!TestStopInAccept, Link!AcceptTimeout,
         Link!TestStopInRead, Link!Receive, Link!ReceiveFails, Link!ReaderTestsSocket
<1> QED
  BY <1>3, <1>4, <1>5, <1>6, <1>7, <1>8, <1>9, <1>10 DEF ReaderStep, Link!ReaderNext

\* every step keeps it: stop() sets the event before it touches anything
LEMMA ListenerStep ==
    ASSUME Known, ListenerInv, [Next]_vars
    PROVE  ListenerInv'
<1>1. CASE ServeStep
  BY <1>1, ServeFrame DEF ListenerInv
<1>2. CASE PeerStep
  BY <1>2 DEF ListenerInv, PeerStep, Link!PeerNext, Link!PeerConnects, Link!PeerLeaves,
              Link!listeners, Link!locals
<1>3. CASE UNCHANGED vars
  BY <1>3 DEF ListenerInv, vars, linkVars
<1>4. ASSUME NEW t \in Threads, StopLink(t)
      PROVE  ListenerInv'
  <2>1. stopEvent' = TRUE
    BY <1>4, StopperFrame DEF ListenerInv, Known, TypeOK, Link!TypeOK
  <2> QED
    BY <2>1 DEF ListenerInv
<1> QED
  BY <1>1, <1>2, <1>3, <1>4, Steps, ListenerReader

\* ListenerInv holds of every state of the daemon
LEMMA AlwaysListenerInv == Spec => []ListenerInv
<1>1. Init => ListenerInv
  BY DEF Init, Link!Init, ListenerInv
<1>2. Known /\ ListenerInv /\ [Next]_vars => ListenerInv'
  BY ListenerStep
<1> QED
  BY <1>1, <1>2, AlwaysKnown, PTL DEF Spec

(***************************************************************************)
(* The listener is bound once and kept, for any number of peers that come  *)
(* and go, until stop() (tcp_connector.py:34).                             *)
(***************************************************************************)
THEOREM ListenerStays == Spec => []ListenerKept
<1>1. Known /\ ListenerInv => ListenerKept
  <2> SUFFICES ASSUME Known, ListenerInv, ~stopEvent
               PROVE  /\ Cardinality(openListeners) <= 1
                      /\ listener # 0 => openListeners = {listener}
                      /\ reader = "accepting" => accepting = listener
    BY DEF ListenerKept
  <2>1. /\ openListeners = IF reader = "assign" THEN {fresh} ELSE {listener} \ {0}
        /\ reader = "assign" => listener = 0
        /\ reader = "accepting" => accepting = listener
    BY DEF ListenerInv
  <2>2. openListeners = {} \/ openListeners = {fresh} \/ openListeners = {listener}
    BY <2>1
  <2>3. Cardinality(openListeners) <= 1
    <3>1. Cardinality({}) = 0 /\ \A x : Cardinality({x}) = 1
      BY FS_EmptySet, FS_Singleton
    <3>2. Cardinality(openListeners) \in {0, 1}
      BY <2>2, <3>1
    <3> QED
      BY <3>2
  <2> QED
    BY <2>1, <2>3
<1> QED
  BY <1>1, AlwaysKnown, AlwaysListenerInv, PTL

(***************************************************************************)
(* The thread outlives its peers, for any number of them: it ends only     *)
(* behind stop() or an accept() that fails of its own (buffer.py:25).  An  *)
(* accept() that fails before stop() fails on a listener in order, which   *)
(* is what ListenerInv knows of it.                                        *)
(***************************************************************************)
THEOREM ThreadOutlivesPeers == Spec => []ThreadSurvives
<1>1. Init => ThreadSurvives
  BY DEF Init, Link!Init, ThreadSurvives
<1>2. ASSUME Known, ListenerInv, ThreadSurvives, [Next]_vars
      PROVE  ThreadSurvives'
  <2>1. CASE ServeStep
    BY <1>2, <2>1, ServeFrame DEF ThreadSurvives
  <2>2. CASE PeerStep
    <3>1. UNCHANGED <<reader, stopEvent, acceptError>>
      BY <2>2 DEF PeerStep, Link!PeerNext, Link!PeerConnects, Link!PeerLeaves, Link!locals
    <3> QED
      BY <1>2, <3>1 DEF ThreadSurvives
  <2>3. CASE UNCHANGED vars
    BY <1>2, <2>3 DEF ThreadSurvives, vars, linkVars
  <2>4. ASSUME NEW t \in Threads, StopLink(t)
        PROVE  ThreadSurvives'
    <3>1. reader' = reader
      BY <1>2, <2>4, StopperFrame
    <3>3. acceptError => acceptError'
      <4>1. acceptError' = acceptError
        BY <1>2, <2>4, StopperFrame
      <4> QED
        BY <4>1, Zenon
    <3>2. stopEvent => stopEvent'
      <4>1. stopEvent' = TRUE \/ stopEvent' = stopEvent
        BY <1>2, <2>4, StopperFrame
      <4> QED
        BY <4>1, Zenon
    <3> QED
      <4>1. reader' \in {"close test", "close", "clear", "dead"} => stopEvent \/ acceptError
        BY <1>2, <3>1 DEF ThreadSurvives
      <4> QED
        BY <3>2, <3>3, <4>1, Zenon DEF ThreadSurvives
  <2>5. CASE ReaderStep
    <3> USE DEF Link!Reader, Link!OnlyReader, Link!locals
    <3>1. stopEvent' = stopEvent
      BY <2>5, ReaderFrame
    <3>2. CASE Link!AcceptFails
      <4>1. ~stopEvent => Link!Usable(accepting)
        BY <1>2, <3>2 DEF Link!AcceptFails, Link!Usable, ListenerInv
      <4> QED
        <5>1. acceptError' = (acceptError \/ Link!Usable(accepting))
          BY <3>2 DEF Link!AcceptFails
        <5>2. Link!Usable(accepting) => acceptError'
          BY <5>1, Zenon
        <5>3. stopEvent => stopEvent'
          BY <3>1, Zenon
        <5> QED
          BY <4>1, <5>2, <5>3, Zenon DEF ThreadSurvives
    <3>3. CASE Link!TestStop \/ Link!TestStopInAccept
      BY <1>2, <3>1, <3>3 DEF Link!TestStop, Link!TestStopInAccept, ThreadSurvives
    <3>4. CASE Link!ReaderTestsSocket \/ Link!ReaderCloses \/ Link!ReaderClears
      BY <1>2, <3>1, <3>4
         DEF Link!ReaderTestsSocket, Link!ReaderCloses, Link!ReaderClears, ThreadSurvives
    <3>5. CASE \/ Link!Connect \/ Link!KeepListener \/ Link!OpenListener
               \/ Link!OpenListenerRaises \/ Link!AssignListener \/ Link!CallAccept
               \/ Link!AcceptTimeout \/ Link!AcceptPeer \/ Link!SetSocket
               \/ Link!SetTimeout \/ Link!TestStopInRead \/ Link!Receive
               \/ Link!ReceiveFails
      <4>1. reader' \notin {"close test", "close", "clear", "dead"}
        BY <3>5 DEF Link!Connect, Link!KeepListener, Link!OpenListener,
           Link!OpenListenerRaises, Link!AssignListener, Link!CallAccept,
           Link!AcceptTimeout, Link!AcceptPeer, Link!SetSocket, Link!SetTimeout,
           Link!TestStopInRead, Link!Receive, Link!ReceiveFails
      <4> QED
        BY <4>1 DEF ThreadSurvives
    <3> QED
      BY <2>5, <3>2, <3>3, <3>4, <3>5 DEF ReaderStep, Link!ReaderNext
  <2> QED
    BY <1>2, <2>1, <2>2, <2>3, <2>4, <2>5, Steps
<1> QED
  BY <1>1, <1>2, AlwaysKnown, AlwaysListenerInv, PTL DEF Spec

-----------------------------------------------------------------------------
(***************************************************************************)
(* Nothing left behind.  Only the attribute `socket` and accept_once's     *)
(* `conn` ever name an open connection: a connection that neither names is *)
(* dropped, and so closed, by the step that lets go of it.  The thread is  *)
(* out of accept_once when it ends, and what it finds in the attribute     *)
(* then it closes, unless somebody else has closed it in between.          *)
(***************************************************************************)
PeersInv ==
    /\ openSockets \subseteq {socket, conn}
    /\ reader \notin {"set socket", "set timeout"} => conn = 0
    /\ reader \in {"clear", "dead"} => openSockets = {}

\* the buffer thread keeps it
LEMMA PeersReader ==
    ASSUME Known, PeersInv, ReaderStep
    PROVE  PeersInv'
<1> USE DEF Link!Reader, Link!OnlyReader, Link!socks, Link!listeners, Link!locals
<1>1. /\ openSockets \subseteq {socket, conn} /\ 0 \notin openSockets
      /\ reader \notin {"set socket", "set timeout"} => conn = 0
      /\ reader \in {"clear", "dead"} => openSockets = {}
  <2>1. openSockets \subseteq 1..MaxPeers
    BY KnownNumbers
  <2>2. 0 \notin openSockets
    BY <2>1
  <2> QED
    BY <2>2 DEF PeersInv
<1>2. CASE Link!Connect
  BY <1>1, <1>2 DEF Link!Connect, PeersInv
<1>3. CASE Link!AcceptPeer
  BY <1>1, <1>3 DEF Link!AcceptPeer, PeersInv
<1>4. CASE Link!SetSocket
  BY <1>1, <1>4 DEF Link!SetSocket, PeersInv
<1>5. CASE Link!SetTimeout
  BY <1>1, <1>5 DEF Link!SetTimeout, PeersInv
<1>6. CASE Link!ReaderTestsSocket
  BY <1>1, <1>6 DEF Link!ReaderTestsSocket, PeersInv
<1>7. CASE Link!ReaderCloses
  BY <1>1, <1>7 DEF Link!ReaderCloses, PeersInv
<1>8. CASE Link!ReaderClears
  BY <1>1, <1>8 DEF Link!ReaderClears, PeersInv
<1>9. CASE Link!OpenListener \/ Link!AssignListener \/ Link!CallAccept \/ Link!AcceptFails
  BY <1>1, <1>9 DEF Link!OpenListener, Link!AssignListener, Link!CallAccept,
                    Link!AcceptFails, PeersInv
<1>10. CASE \/ Link!TestStop \/ Link!KeepListener \/ Link!OpenListenerRaises
            \/ Link!TestStopInAccept \/ Link!AcceptTimeout \/ Link!TestStopInRead
            \/ Link!Receive \/ Link!ReceiveFails
  BY <1>1, <1>10
     DEF Link!TestStop, Link!KeepListener,
         Link!OpenListenerRaises, Link!TestStopInAccept, Link!AcceptTimeout,
         Link!TestStopInRead, Link!Receive, Link!ReceiveFails, PeersInv
<1> QED
  BY <1>2, <1>3, <1>4, <1>5, <1>6, <1>7, <1>8, <1>9, <1>10 DEF ReaderStep, Link!ReaderNext

(***************************************************************************)
(* When the buffer thread has ended no connection is open, whatever the    *)
(* callers of stop() did to the attribute meanwhile, for any number of     *)
(* connections (buffer.py:56, tcp_connector.py:94).                        *)
(***************************************************************************)
THEOREM ConnectionsReleased == Spec => []PeersReleased
<1>1. Init => PeersInv
  BY DEF Init, Link!Init, PeersInv
<1>2. ASSUME Known, PeersInv, [Next]_vars
      PROVE  PeersInv'
  <2>1. CASE ServeStep
    BY <1>2, <2>1, ServeFrame DEF PeersInv
  <2>2. CASE PeerStep
    BY <1>2, <2>2 DEF PeersInv, PeerStep, Link!PeerNext, Link!PeerConnects,
                      Link!PeerLeaves, Link!locals, Link!socks
  <2>3. CASE UNCHANGED vars
    BY <1>2, <2>3 DEF PeersInv, vars, linkVars
  <2>4. ASSUME NEW t \in Threads, StopLink(t)
        PROVE  PeersInv'
    <3>1. reader' = reader /\ conn' = conn
      BY <1>2, <2>4, StopperFrame
    <3>2. \/ socket' = socket /\ openSockets' \subseteq openSockets
          \/ socket' = 0 /\ openSockets' = openSockets \cap {conn}
      BY <1>2, <2>4, StopperFrame
    <3> QED
      BY <1>2, <3>1, <3>2 DEF PeersInv
  <2> QED
    BY <1>2, <2>1, <2>2, <2>3, <2>4, Steps, PeersReader
<1>3. PeersInv => PeersReleased
  BY DEF PeersInv, PeersReleased
<1> QED
  BY <1>1, <1>2, <1>3, AlwaysKnown, PTL DEF Spec

(***************************************************************************)
(* The ports.  A socket an attribute no longer names is closed, and so is  *)
(* the field manager's behind the first stage of any close().  Behind the  *)
(* last stage the server socket is closed as well if serve_forever makes   *)
(* none any more: in its own close(), or while the handler holds it up.    *)
(***************************************************************************)
BehindField == {"field clear", "link", "server close", "server clear", "done", "raised",
                "unwound"}

\* what the stage t's close() has reached says
Staged(t) ==
    /\ stopper[t] # "idle" => closing[t] \in BehindField
    /\ closing[t] \in BehindField => ~fieldOpen
    /\ closing[t] \in {"server close", "server clear"} => main # "create"
    /\ closing[t] = "server clear" => ~serverOpen
    /\ closing[t] = "done" /\ (t = "main" \/ caller = "signal handler") => ~serverOpen

Named ==
    /\ ~fieldSocket => ~fieldOpen
    /\ ~serverSocket => ~serverOpen
    /\ main = "create" => ~serverSocket

OwnClose ==
    /\ closing["main"] # "idle" => main = "closing" \/ MainOver
    /\ closing["main"] # "unwound"

PortInv ==
    /\ \A t \in Threads : Staged(t)
    /\ Named
    /\ OwnClose
    /\ PortReleased

\* the part of a step of serve_forever that PortInv is about
LEMMA PortMain ==
    ASSUME Known, PortInv, MainStep \/ ClientHandled
    PROVE  PortInv'
<1>1. /\ UNCHANGED <<stopper, closing, caller, fieldSocket, fieldOpen>>
      /\ main' # "create" /\ ~Interrupted /\ main' # "exited" /\ ~MainOver
  BY DEF MainStep, ClientHandled, Main, linkVars, Create, Bind, BindRaises, TestShutdown,
         AcceptNobody, AcceptClient, AcceptFails, AcceptOnNone, Leave, Return, MainOver
<1>2. closing["main"] # "idle" => main = "closing"
  BY <1>1 DEF PortInv, OwnClose
<1>3. CASE Create
  <2>1. /\ main = "create" /\ main' = "bind" /\ serverSocket' = TRUE
        /\ closing["main"] = "idle"
    BY <1>2, <1>3 DEF Create, Main
  <2>2. ASSUME NEW t \in Threads
        PROVE  Staged(t)'
    <3>1. /\ closing[t] \notin {"server close", "server clear"}
          /\ ~(closing[t] = "done" /\ (t = "main" \/ caller = "signal handler"))
      BY <1>1, <2>1 DEF PortInv, Staged, Threads, Interrupted
    <3> QED
      BY <1>1, <3>1 DEF PortInv, Staged
  <2>3. Named' /\ OwnClose' /\ PortReleased'
    BY <1>1, <2>1 DEF PortInv, Named, OwnClose, PortReleased
  <2> QED
    BY <2>2, <2>3 DEF PortInv
<1>4. CASE ~Create
  <2>1. UNCHANGED <<serverSocket, serverOpen>>
    BY <1>4 DEF MainStep, ClientHandled, KeepsServer, Bind, BindRaises, TestShutdown,
         AcceptNobody, AcceptClient, AcceptFails, AcceptOnNone, Leave, Return
  <2>2. ASSUME NEW t \in Threads
        PROVE  Staged(t)'
    BY <1>1, <2>1 DEF PortInv, Staged
  <2>3. CASE Return
    <3>1. /\ main = "closing" /\ Finished("main") /\ closing["main"] # "idle"
          /\ main' \in {"crashed", "ended"}
          /\ main' = "ended" => ~Raised("main")
      BY <2>3 DEF Return, Main
    <3>2. main' = "ended" => closing["main"] = "done"
      BY <3>1 DEF Finished, Raised, PortInv, OwnClose
    <3>3. main' = "ended" => ~serverOpen /\ ~fieldOpen
      BY <3>2 DEF PortInv, Staged, Threads, BehindField
    <3>4. Named'
      BY <1>1, <2>1 DEF PortInv, Named
    <3>5. OwnClose' /\ PortReleased'
      BY <1>1, <2>1, <3>1, <3>3 DEF PortInv, OwnClose, PortReleased, MainOver
    <3> QED
      BY <2>2, <3>4, <3>5 DEF PortInv
  <2>4. CASE ~Return
    <3>1. main # "closing" /\ main' # "ended"
      BY <1>4, <2>4 DEF MainStep, ClientHandled, Main, Bind, BindRaises, TestShutdown,
         AcceptNobody, AcceptClient, AcceptFails, AcceptOnNone, Leave
    <3>2. Named' /\ OwnClose' /\ PortReleased'
      BY <1>1, <1>2, <2>1, <3>1 DEF PortInv, Named, OwnClose, PortReleased
    <3> QED
      BY <2>2, <3>2 DEF PortInv
  <2> QED
    BY <2>3, <2>4
<1> QED
  BY <1>3, <1>4

\* a close() that begins, and the handler that ends, keep it
LEMMA PortHandler ==
    ASSUME Known, PortInv, CallClose \/ HandlerUnwinds
    PROVE  PortInv'
<1>1. closing \in [Threads -> Stages]
  BY DEF Known, TypeOK
<1>2. UNCHANGED <<stopper, caller, serverSocket, serverOpen, fieldSocket, fieldOpen>>
  BY DEF CallClose, HandlerUnwinds, HandlerExits, HandlerRaises, linkVars, resources
<1>3. PICK next \in Stages : closing' = [closing EXCEPT !["caller"] = next]
  BY DEF CallClose, HandlerUnwinds, HandlerExits, HandlerRaises, Stages
<1>4. /\ closing'["main"] = closing["main"] /\ closing'["caller"] = next
      /\ \A t \in Threads : t # "caller" => t = "main"
  BY <1>1, <1>3 DEF Threads
<1>5. /\ main' = "create" => main = "create"
      /\ main = "closing" \/ MainOver => main' = main \/ main' \in {"exited", "crashed"}
      /\ main' \in {"ended", "exited"} => main' = main \/ closing["caller"] = "done"
  BY DEF CallClose, HandlerUnwinds, HandlerExits, HandlerRaises, MainOver
<1>6. Staged("main")'
  BY <1>2, <1>4, <1>5 DEF PortInv, Staged, Threads
<1>7. Staged("caller")'
  <2>1. CASE CallClose
    <3>1. next = "set event" /\ closing["caller"] = "idle"
      BY <1>1, <1>4, <2>1 DEF CallClose, Threads
    <3>2. stopper["caller"] = "idle"
      BY <3>1 DEF PortInv, Staged, BehindField, Threads
    <3> QED
      BY <1>2, <1>4, <3>1, <3>2 DEF Staged, BehindField
  <2>2. CASE HandlerUnwinds
    <3>1. next = "unwound"
      BY <1>1, <1>4, <2>2 DEF HandlerUnwinds, HandlerExits, HandlerRaises, Threads
    <3>2. closing["caller"] \in BehindField
      <4>1. closing["caller"] \in {"done", "raised"} \/ stopper["caller"] = "raised"
        BY <2>2 DEF HandlerUnwinds, HandlerExits, HandlerRaises, Raised
      <4> QED
        BY <4>1 DEF PortInv, Staged, BehindField, Threads
    <3>3. ~fieldOpen
      BY <3>2 DEF PortInv, Staged, Threads
    <3> QED
      BY <1>2, <1>4, <3>1, <3>3 DEF Staged, BehindField
  <2> QED
    BY <2>1, <2>2
<1>8. Named' /\ OwnClose'
  BY <1>2, <1>4, <1>5 DEF PortInv, Named, OwnClose, MainOver
<1>9. PortReleased'
  <2>1. CASE main' = main
    BY <1>2, <2>1 DEF PortInv, PortReleased
  <2>2. CASE main' # main
    <3>1. main' \in {"ended", "exited"} =>
             closing["caller"] = "done" /\ caller = "signal handler"
      BY <2>2 DEF CallClose, HandlerUnwinds, HandlerExits, HandlerRaises
    <3> QED
      BY <1>2, <3>1 DEF PortInv, Staged, PortReleased, Threads, BehindField
  <2> QED
    BY <2>1, <2>2
<1> QED
  BY <1>6, <1>7, <1>8, <1>9 DEF PortInv, Threads

\* what a stage of close() leaves alone
LEMMA PortClose ==
    ASSUME Known, NEW t \in Threads, NEW here, NEW next, Close(t, here, next)
    PROVE  /\ UNCHANGED <<stopper, caller, main>>
           /\ closing[t] = here /\ (t = "main" => main = "closing")
           /\ closing'[t] = next
           /\ \A u \in Threads : u # t => closing'[u] = closing[u]
BY DEF Close, Runs, Known, TypeOK, linkVars

\* a stage that closes nothing by mistake: it is enough to look at its own thread
LEMMA PortStage ==
    ASSUME Known, PortInv, NEW t \in Threads, NEW here, NEW next \in Stages \ {"unwound"},
           Close(t, here, next), fieldOpen' => fieldOpen, serverOpen' => serverOpen,
           Staged(t)', Named'
    PROVE  PortInv'
<1>1. /\ UNCHANGED <<stopper, caller, main>> /\ (t = "main" => main = "closing")
      /\ closing'[t] = next /\ \A u \in Threads : u # t => closing'[u] = closing[u]
  BY PortClose
<1>2. ASSUME NEW u \in Threads
      PROVE  Staged(u)'
  <2>1. CASE u = t
    BY <2>1
  <2>2. CASE u # t
    BY <1>1, <2>2 DEF PortInv, Staged
  <2> QED
    BY <2>1, <2>2
<1>3. OwnClose'
  <2>1. CASE t = "main"
    BY <1>1, <2>1 DEF OwnClose
  <2>2. CASE t # "main"
    BY <1>1, <2>2 DEF PortInv, OwnClose, Threads, MainOver
  <2> QED
    BY <2>1, <2>2
<1>4. PortReleased'
  BY <1>1 DEF PortInv, PortReleased
<1> QED
  BY <1>2, <1>3, <1>4 DEF PortInv

\* every stage of close() outside the data link keeps PortInv
LEMMA PortCloses ==
    ASSUME Known, PortInv, NEW t \in Threads,
           \/ SetShutdown(t) \/ TestField(t) \/ CloseField(t) \/ ClearField(t)
           \/ TestServer(t) \/ CloseServer(t) \/ ClearServer(t)
    PROVE  PortInv'
<1>1. Staged(t) /\ Named
  BY DEF PortInv
<1>2. CASE SetShutdown(t)
  <2>1. PICK here \in {"set event", "idle"} : Close(t, here, "field test")
    BY <1>2 DEF SetShutdown
  <2>2. UNCHANGED <<serverSocket, serverOpen, fieldSocket, fieldOpen>>
    BY <1>2 DEF SetShutdown
  <2>3. /\ UNCHANGED <<stopper, caller, main>> /\ closing[t] = here
        /\ closing'[t] = "field test"
    BY <2>1, PortClose
  <2>4. Staged(t)' /\ Named'
    BY <1>1, <2>2, <2>3 DEF Staged, Named, BehindField
  <2> QED
    BY <2>1, <2>2, <2>4, PortStage DEF Stages
<1>3. CASE TestField(t)
  <2>1. PICK next \in {"field close", "link"} :
            /\ Close(t, "field test", next)
            /\ next = "link" => ~fieldSocket
    BY <1>3 DEF TestField
  <2>2. UNCHANGED <<serverSocket, serverOpen, fieldSocket, fieldOpen>>
    BY <1>3 DEF TestField, resources
  <2>3. /\ UNCHANGED <<stopper, caller, main>> /\ closing[t] = "field test"
        /\ closing'[t] = next
    BY <2>1, PortClose
  <2>4. Staged(t)' /\ Named'
    BY <1>1, <2>1, <2>2, <2>3 DEF Staged, Named, BehindField
  <2> QED
    BY <2>1, <2>2, <2>4, PortStage DEF Stages
<1>4. CASE CloseField(t)
  <2>1. PICK next \in {"field clear", "raised"} : Close(t, "field close", next)
    BY <1>4 DEF CloseField
  <2>2. /\ UNCHANGED <<serverSocket, serverOpen, fieldSocket>>
        /\ fieldOpen' = (fieldOpen /\ ~fieldSocket)
    BY <1>4 DEF CloseField
  <2>3. /\ UNCHANGED <<stopper, caller, main>> /\ closing[t] = "field close"
        /\ closing'[t] = next
    BY <2>1, PortClose
  <2>4. ~fieldOpen'
    <3>1. fieldOpen' => fieldOpen /\ ~fieldSocket
      BY <2>2
    <3> QED
      BY <1>1, <3>1 DEF Named
  <2>5. Staged(t)' /\ Named'
    BY <1>1, <2>1, <2>2, <2>3, <2>4 DEF Staged, Named, BehindField
  <2> QED
    BY <2>1, <2>2, <2>4, <2>5, PortStage DEF Stages
<1>5. CASE ClearField(t)
  <2>1. Close(t, "field clear", "link")
    BY <1>5 DEF ClearField
  <2>2. /\ UNCHANGED <<serverSocket, serverOpen, fieldOpen>> /\ fieldSocket' = FALSE
    BY <1>5 DEF ClearField
  <2>3. /\ UNCHANGED <<stopper, caller, main>> /\ closing[t] = "field clear"
        /\ closing'[t] = "link"
    BY <2>1, PortClose
  <2>4. Staged(t)' /\ Named'
    BY <1>1, <2>2, <2>3 DEF Staged, Named, BehindField
  <2> QED
    BY <2>1, <2>2, <2>4, PortStage DEF Stages
<1>6. CASE TestServer(t)
  <2>1. PICK next \in {"server close", "done"} :
            /\ Close(t, "link", next)
            /\ next = "server close" => serverSocket
            /\ next = "done" => ~serverSocket
    BY <1>6 DEF TestServer
  <2>2. UNCHANGED <<serverSocket, serverOpen, fieldSocket, fieldOpen>>
    BY <1>6 DEF TestServer, resources
  <2>3. /\ UNCHANGED <<stopper, caller, main>> /\ closing[t] = "link"
        /\ closing'[t] = next
    BY <2>1, PortClose
  <2>4. Staged(t)' /\ Named'
    BY <1>1, <2>1, <2>2, <2>3 DEF Staged, Named, BehindField
  <2> QED
    BY <2>1, <2>2, <2>4, PortStage DEF Stages
<1>7. CASE CloseServer(t)
  <2>1. PICK next \in {"server clear", "raised"} : Close(t, "server close", next)
    BY <1>7 DEF CloseServer
  <2>2. /\ UNCHANGED <<serverSocket, fieldSocket, fieldOpen>>
        /\ serverOpen' = (serverOpen /\ ~serverSocket)
    BY <1>7 DEF CloseServer
  <2>3. /\ UNCHANGED <<stopper, caller, main>> /\ closing[t] = "server close"
        /\ closing'[t] = next
    BY <2>1, PortClose
  <2>4. ~serverOpen'
    <3>1. serverOpen' => serverOpen /\ ~serverSocket
      BY <2>2
    <3> QED
      BY <1>1, <3>1 DEF Named
  <2>5. Staged(t)' /\ Named'
    BY <1>1, <2>1, <2>2, <2>3, <2>4 DEF Staged, Named, BehindField
  <2> QED
    BY <2>1, <2>2, <2>4, <2>5, PortStage DEF Stages
<1>8. CASE ClearServer(t)
  <2>1. Close(t, "server clear", "done")
    BY <1>8 DEF ClearServer
  <2>2. /\ UNCHANGED <<serverOpen, fieldSocket, fieldOpen>> /\ serverSocket' = FALSE
    BY <1>8 DEF ClearServer
  <2>3. /\ UNCHANGED <<stopper, caller, main>> /\ closing[t] = "server clear"
        /\ closing'[t] = "done"
    BY <2>1, PortClose
  <2>4. Staged(t)' /\ Named'
    BY <1>1, <2>2, <2>3 DEF Staged, Named, BehindField
  <2> QED
    BY <2>1, <2>2, <2>4, PortStage DEF Stages
<1> QED
  BY <1>2, <1>3, <1>4, <1>5, <1>6, <1>7, <1>8

(***************************************************************************)
(* When serve_forever has returned, or a signal has ended it, its port is  *)
(* free and the field manager's socket closed, wherever another close()    *)
(* is and however the two overlapped (runner.py:62-91).                    *)
(***************************************************************************)
THEOREM PortsReleased == Spec => []PortReleased
<1>1. Init => PortInv
  <2> SUFFICES ASSUME Init
               PROVE  PortInv
    OBVIOUS
  <2>1. \A t \in Threads : Staged(t)
    BY DEF Init, Link!Init, Staged, BehindField
  <2> QED
    BY <2>1 DEF Init, PortInv, Named, OwnClose, PortReleased, Threads
<1>2. ASSUME Known, PortInv, [Next]_vars
      PROVE  PortInv'
  <2>1. CASE UNCHANGED <<stopper, closing, caller, main, serverSocket, serverOpen,
                         fieldSocket, fieldOpen>>
    <3>1. ASSUME NEW t \in Threads
          PROVE  Staged(t)'
      BY <1>2, <2>1 DEF PortInv, Staged
    <3>2. Named' /\ OwnClose' /\ PortReleased'
      BY <1>2, <2>1 DEF PortInv, Named, OwnClose, PortReleased, MainOver
    <3> QED
      BY <3>1, <3>2 DEF PortInv
  <2>2. CASE UNCHANGED vars
    BY <2>1, <2>2 DEF vars, linkVars, resources
  <2>3. CASE PeerStep
    BY <2>1, <2>3 DEF PeerStep, Link!PeerNext, Link!PeerConnects, Link!PeerLeaves,
                      Daemon, resources
  <2>4. CASE ReaderStep
    BY <2>1, <2>4, ReaderFrame
  <2>5. ASSUME NEW t \in Threads, StopLink(t)
        PROVE  PortInv'
    <3>1. /\ UNCHANGED <<closing, caller, main, serverSocket, serverOpen, fieldSocket,
                         fieldOpen>>
          /\ closing[t] = "link"
      BY <1>2, <2>5, StopperFrame
    <3>2. \A u \in Threads : u # t => stopper'[u] = stopper[u]
      BY <1>2, <2>5, StopperFrame DEF Known, TypeOK, Link!TypeOK
    <3>3. ASSUME NEW u \in Threads
          PROVE  Staged(u)'
      <4>1. CASE u = t
        BY <1>2, <3>1, <4>1 DEF PortInv, Staged, BehindField
      <4>2. CASE u # t
        BY <1>2, <3>1, <3>2, <4>2 DEF PortInv, Staged
      <4> QED
        BY <4>1, <4>2
    <3>4. Named' /\ OwnClose' /\ PortReleased'
      BY <1>2, <3>1 DEF PortInv, Named, OwnClose, PortReleased, MainOver
    <3> QED
      BY <3>3, <3>4 DEF PortInv
  <2>6. CASE ServeStep
    BY <1>2, <2>6, PortMain, PortHandler, PortCloses DEF ServeStep
  <2> QED
    BY <1>2, <2>2, <2>3, <2>4, <2>5, <2>6, Steps
<1>3. PortInv => PortReleased
  BY DEF PortInv
<1> QED
  BY <1>1, <1>2, <1>3, AlwaysKnown, PTL DEF Spec
=============================================================================
