------------------------- MODULE EventServerProofs -------------------------
(***************************************************************************)
(* For any number of handles, connections, events, objects and descriptor  *)
(* numbers: the registry of fpgad belongs to the clients that asked for    *)
(* it, every connection is in one place, and no descriptor is lost.        *)
(***************************************************************************)
EXTENDS EventServer, TLAPS, SequenceTheorems, FunctionTheorems

\* Leaves go to the SMT solver unless they name another prover.
USE SMTT(120)

\* The loop of remove_client: one slot shorter, the slots behind it moved up.
LEMMA RemoveSlotProperties ==
  ASSUME NEW S, NEW s \in Seq(S), NEW k \in 1..Len(s)
  PROVE  /\ RemoveSlot(s, k) \in Seq(S)
         /\ Len(RemoveSlot(s, k)) = Len(s) - 1
         /\ \A j \in 1..(Len(s) - 1) :
              RemoveSlot(s, k)[j] = IF j < k THEN s[j] ELSE s[j + 1]
<1> DEFINE a == SubSeq(s, 1, k - 1)
           b == SubSeq(s, k + 1, Len(s))
<1>1. a \in Seq(S) /\ Len(a) = k - 1 /\ \A j \in 1..(k-1) : a[j] = s[j]
  BY SubSeqProperties
<1>2. b \in Seq(S) /\ Len(b) = Len(s) - k /\ \A j \in 1..(Len(s) - k) : b[j] = s[k + j]
  BY SubSeqProperties
<1>3. RemoveSlot(s, k) = a \o b
  BY DEF RemoveSlot, RemoveAt
<1> HIDE DEF a, b
<1>4. /\ a \o b \in Seq(S)
      /\ Len(a \o b) = Len(a) + Len(b)
      /\ \A j \in 1..(Len(a) + Len(b)) :
           (a \o b)[j] = IF j <= Len(a) THEN a[j] ELSE b[j - Len(a)]
  BY <1>1, <1>2, ConcatProperties, Zenon
<1>5. ASSUME NEW j \in 1..(Len(s) - 1)
      PROVE (a \o b)[j] = IF j < k THEN s[j] ELSE s[j + 1]
  <2>1. CASE j < k BY <2>1, <1>1, <1>2, <1>4
  <2>2. CASE ~(j < k)
    <3>1. (a \o b)[j] = b[j - (k - 1)] BY <2>2, <1>1, <1>2, <1>4
    <3>2. j - (k - 1) \in 1..(Len(s) - k) BY <2>2
    <3>3. b[j - (k - 1)] = s[j + 1] BY <3>2, <1>2
    <3> QED BY <2>2, <3>1, <3>3
  <2> QED BY <2>1, <2>2, Zenon
<1> QED BY <1>1, <1>2, <1>3, <1>4, <1>5

\* The head insertion of register_event.
LEMMA ConsProperties ==
  ASSUME NEW S, NEW s \in Seq(S), NEW e \in S
  PROVE  /\ Cons(e, s) \in Seq(S)
         /\ Len(Cons(e, s)) = Len(s) + 1
         /\ \A j \in 1..(Len(s) + 1) : Cons(e, s)[j] = IF j = 1 THEN e ELSE s[j - 1]
<1>1. <<e>> \in Seq(S) /\ Len(<<e>>) = 1 /\ <<e>>[1] = e
  OBVIOUS
<1>2. Cons(e, s) = <<e>> \o s
  BY DEF Cons
<1> QED BY <1>1, <1>2, ConcatProperties

\* The elements of a sequence are in its set.
LEMMA RangeInSeq ==
  ASSUME NEW S, NEW s \in Seq(S)
  PROVE  Range(s) \subseteq S
BY DEF Range

-----------------------------------------------------------------------------
(* Type correctness *)

\* accept() runs only in a round whose poll() saw a pending connection, and only
\* accept() takes connections off the backlog.
ReadyIsPending == pc = "clients" /\ srvReady => backlog # <<>>

TypeInv == TypeOK /\ ReadyIsPending

\* Before the first step nothing listens and every table is empty.
LEMMA TypeInit == Init => TypeInv
<1> SUFFICES ASSUME Init PROVE TypeInv
  OBVIOUS
<1> USE ClientAssumption, ServerAssumption DEF Init, ClientInit, ServerInit
<1>0. \A S : <<>> \in Seq(S)
  OBVIOUS
<1>1. ClientTypeOK
  <2>1. queue \in [Conns -> Seq(Request)] /\ backlog \in Seq(Conns)
    BY <1>0
  <2>2. fdfpgad \in [Handles -> {NoConn} \cup Conns] /\ nconn \in 0..MaxConns
    BY DEF NoConn
  <2>3. want \in [Handles -> SUBSET (Events \X EventHandles)] /\ daemonEnd \in SUBSET Conns
    OBVIOUS
  <2> QED BY <2>1, <2>2, <2>3, Zenon DEF ClientTypeOK
<1>2. ServerTypeOK
  <2>1. registry \in [Key -> Seq(Node)] /\ pollfds \in Seq(Fds)
    BY <1>0
  <2>2. fdt \in [Fds -> {Free} \cup Conns \cup EventHandles]
    OBVIOUS
  <2>3. running \in BOOLEAN /\ srvReady \in BOOLEAN
    BY Zenon
  <2>4. i \in Nat \ {0} /\ revents \in SUBSET Fds
    OBVIOUS
  <2>5. lost \in SUBSET [from : Conns, event : Events, fd : Fds]
    OBVIOUS
  <2> QED BY <2>1, <2>2, <2>3, <2>4, <2>5 DEF ServerTypeOK
<1> QED BY <1>1, <1>2 DEF TypeInv, TypeOK, ReadyIsPending

\* The requests daemon_register_event and daemon_unregister_event build.
LEMMA RegisterRequestType ==
  ASSUME NEW h \in Handles, NEW ev \in Events, NEW eh \in EventHandles
  PROVE  RegisterRequest(h, ev, eh) \in Request
BY ClientAssumption DEF RegisterRequest, Request

\* ... and the one that carries no descriptor.
LEMMA UnregisterRequestType ==
  ASSUME NEW h \in Handles, NEW ev \in Events
  PROVE  UnregisterRequest(h, ev) \in Request
BY ClientAssumption DEF UnregisterRequest, Request

\* A new connection is the next number and joins the backlog.
LEMMA ConnectType ==
  ASSUME TypeOK, NEW c \in Conns, Connect(c)
  PROVE  /\ nconn' \in 0..MaxConns /\ backlog' \in Seq(Conns)
         /\ daemonEnd' \in SUBSET Conns /\ backlog' # <<>>
<1>1. backlog \in Seq(Conns) /\ backlog' = Append(backlog, c)
  BY DEF TypeOK, ClientTypeOK, Connect
<1>2. backlog' \in Seq(Conns) /\ backlog' # <<>>
  BY <1>1, AppendProperties
<1>3. nconn' \in 0..MaxConns /\ daemonEnd' \in SUBSET Conns
  BY ClientAssumption DEF TypeOK, ClientTypeOK, Connect, Conns
<1> QED BY <1>2, <1>3

\* The calls of the library keep the types.
LEMMA TypeClient == ASSUME TypeInv, ClientNext, UNCHANGED serverVars PROVE TypeInv'
<1> USE ClientAssumption DEF TypeInv
<1>1. ServerTypeOK'
  BY DEF TypeOK, ServerTypeOK, serverVars
<1>2. ASSUME NEW h \in Handles, NEW ev \in Events, NEW eh \in EventHandles,
             RegisterFirst(h, ev, eh)
      PROVE ClientTypeOK' /\ backlog' # <<>>
  BY <1>2, ConnectType, RegisterRequestType DEF RegisterFirst, TypeOK, ClientTypeOK
<1>3. ASSUME NEW h \in Handles, NEW ev \in Events, NEW eh \in EventHandles,
             RegisterNext(h, ev, eh)
      PROVE ClientTypeOK' /\ backlog' = backlog
  BY <1>3, RegisterRequestType DEF RegisterNext, TypeOK, ClientTypeOK
<1>4. ASSUME NEW h \in Handles, NEW ev \in Events, NEW eh \in EventHandles,
             UnregisterEvent(h, ev, eh)
      PROVE ClientTypeOK' /\ backlog' = backlog
  BY <1>4, UnregisterRequestType DEF UnregisterEvent, TypeOK, ClientTypeOK
<1>5. ASSUME NEW h \in Handles, RegisterFirstFails(h)
      PROVE ClientTypeOK' /\ backlog' # <<>>
  BY <1>5, ConnectType DEF RegisterFirstFails, CloseConn, TypeOK, ClientTypeOK
<1>6. ASSUME NEW h \in Handles, Disconnect(h)
      PROVE ClientTypeOK' /\ backlog' = backlog
  BY <1>6 DEF Disconnect, CloseConn, TypeOK, ClientTypeOK
<1>7. ClientTypeOK' /\ (backlog' # <<>> \/ backlog' = backlog)
  BY <1>2, <1>3, <1>4, <1>5, <1>6 DEF ClientNext
<1> QED BY <1>1, <1>7 DEF TypeOK, ReadyIsPending, serverVars

\* Closing descriptors leaves a descriptor table.
LEMMA ClosedType ==
  ASSUME TypeOK, NEW fds
  PROVE  Closed(fds) \in [Fds -> {Free} \cup Conns \cup EventHandles]
BY DEF TypeOK, ServerTypeOK, Closed

\* unregister_event keeps the lists of nodes and the descriptor table.
LEMMA unregister_event_Type ==
  ASSUME TypeOK, NEW s, NEW ev, NEW o, unregister_event(s, ev, o), <<s, ev, o>> \in Key
  PROVE  /\ registry' \in [Key -> Seq(Node)]
         /\ fdt' \in [Fds -> {Free} \cup Conns \cup EventHandles]
<1> DEFINE k == <<s, ev, o>>
<1>1. registry \in [Key -> Seq(Node)] /\ registry[k] \in Seq(Node)
  BY DEF TypeOK, ServerTypeOK
<1>2. CASE registry[k] = <<>>
  BY <1>2 DEF unregister_event, TypeOK, ServerTypeOK
<1>3. CASE registry[k] # <<>>
  <2>1. Tail(registry[k]) \in Seq(Node)
    BY <1>1, <1>3, HeadTailProperties
  <2>2. registry' = [registry EXCEPT ![k] = Tail(@)]
    BY <1>3 DEF unregister_event
  <2>3. fdt' = Closed({Head(registry[k]).fd})
    BY <1>3 DEF unregister_event
  <2> QED BY <1>1, <2>1, <2>2, <2>3, ClosedType
<1> QED BY <1>2, <1>3

\* What handle_message knows of the request it reads.
LEMMA HeadRequest ==
  ASSUME TypeOK, NEW c \in Conns, queue[c] # <<>>
  PROVE  /\ queue[c] \in Seq(Request)
         /\ Head(queue[c]) \in Request
         /\ Tail(queue[c]) \in Seq(Request)
         /\ Head(queue[c]).event \in Events
         /\ Head(queue[c]).object \in Objects
         /\ Head(queue[c]).type = "REGISTER_EVENT" => Head(queue[c]).eh \in EventHandles
<1>1. queue[c] \in Seq(Request)
  BY DEF TypeOK, ClientTypeOK
<1>2. Head(queue[c]) \in Request /\ Tail(queue[c]) \in Seq(Request)
  BY <1>1, HeadTailProperties
<1> QED BY <1>1, <1>2 DEF Request

\* handle_message keeps the types.
LEMMA TypeReceive == ASSUME TypeInv, NEW c \in Conns, Receive(c) PROVE TypeInv'
<1> DEFINE s == pollfds[i]
           req == Head(queue[c])
<1>0. TypeOK
  BY DEF TypeInv
<1>1. s \in Fds /\ queue[c] # <<>> /\ fdt[s] = c
  BY <1>0 DEF TypeOK, ServerTypeOK, Receive
<1>2. /\ Tail(queue[c]) \in Seq(Request) /\ req.event \in Events
      /\ req.object \in Objects /\ (req.type = "REGISTER_EVENT" => req.eh \in EventHandles)
  BY <1>0, <1>1, HeadRequest
<1>3. ClientTypeOK'
  <2>1. queue' \in [Conns -> Seq(Request)]
    BY <1>0, <1>2 DEF Receive, TypeOK, ClientTypeOK
  <2> QED BY <1>0, <2>1 DEF Receive, TypeOK, ClientTypeOK
<1>4. <<s, req.event, req.object>> \in Key
  BY <1>1, <1>2 DEF Key
<1>5. /\ registry' \in [Key -> Seq(Node)]
      /\ fdt' \in [Fds -> {Free} \cup Conns \cup EventHandles]
      /\ lost' \in SUBSET [from : Conns, event : Events, fd : Fds]
  <2>1. CASE req.type = "UNREGISTER_EVENT"
    <3>1. unregister_event(s, req.event, req.object) /\ UNCHANGED lost
      BY <2>1 DEF Receive
    <3> QED BY <1>0, <1>4, <3>1, unregister_event_Type DEF TypeOK, ServerTypeOK
  <2>2. CASE req.type = "REGISTER_EVENT"
    <3>1. PICK f \in Fds :
            /\ fdt' = [fdt EXCEPT ![f] = req.eh]
            /\ \/ register_event(s, f, req) /\ UNCHANGED lost
               \/ /\ lost' = lost \cup {[from |-> c, event |-> req.event, fd |-> f]}
                  /\ UNCHANGED registry
      BY <2>2 DEF Receive
    <3>2. fdt' \in [Fds -> {Free} \cup Conns \cup EventHandles]
      BY <1>0, <1>2, <2>2, <3>1 DEF TypeOK, ServerTypeOK
    <3>3. lost' \in SUBSET [from : Conns, event : Events, fd : Fds]
      BY <1>0, <1>2, <3>1 DEF TypeOK, ServerTypeOK
    <3>4. CASE register_event(s, f, req)
      <4> DEFINE k == <<s, req.event, req.object>>
                 n == [fd |-> f, from |-> fdt[s]]
      <4>1. n \in Node
        BY <1>1 DEF Node
      <4>2. registry[k] \in Seq(Node)
        BY <1>0, <1>4 DEF TypeOK, ServerTypeOK
      <4>3. Cons(n, registry[k]) \in Seq(Node)
        BY <4>1, <4>2, ConsProperties
      <4>4. registry' = [registry EXCEPT ![k] = Cons(n, registry[k])]
        BY <3>4 DEF register_event
      <4>5. registry' \in [Key -> Seq(Node)]
        BY <1>0, <1>4, <4>3, <4>4 DEF TypeOK, ServerTypeOK
      <4> QED BY <3>2, <3>3, <4>5
    <3> QED BY <1>0, <3>1, <3>2, <3>3, <3>4 DEF TypeOK, ServerTypeOK
  <2> QED BY <2>1, <2>2 DEF Receive
<1>6. ServerTypeOK'
  BY <1>0, <1>5 DEF Receive, NextClient, TypeOK, ServerTypeOK
<1> QED BY <1>3, <1>6 DEF TypeInv, TypeOK, ReadyIsPending, Receive, NextClient

\* What the end of a round leaves behind.
LEMMA EndOfRoundType ==
  ASSUME EndOfRound
  PROVE  /\ pc' \in {"start", "poll", "clients", "exited"}
         /\ revents' \in SUBSET Fds
         /\ srvReady' \in BOOLEAN
         /\ i' \in Nat \ {0}
<1>1. pc' = "poll" /\ revents' = {} /\ srvReady' = FALSE /\ i' = 1
  BY DEF EndOfRound
<1>2. srvReady' \in BOOLEAN
  BY <1>1, Zenon
<1> QED BY <1>1, <1>2

\* Every step of server_thread keeps the types.
LEMMA TypeServer == ASSUME TypeInv, Server PROVE TypeInv'
<1>0. TypeOK
  BY DEF TypeInv
<1> USE ClientAssumption, ServerAssumption
<1>1. CASE Listen
  BY <1>0, <1>1, Zenon DEF Listen, TypeInv, TypeOK, ClientTypeOK, ServerTypeOK, ReadyIsPending
<1>2. CASE Poll
  <2>1. revents' \in SUBSET Fds
    BY <1>0, <1>2, RangeInSeq DEF Poll, TypeOK, ServerTypeOK
  <2>2. ClientTypeOK' /\ i' \in Nat \ {0}
    BY <1>0, <1>2 DEF Poll, TypeOK, ClientTypeOK, clientVars, FIRST_CLIENT_SOCKET
  <2>3. srvReady' \in BOOLEAN /\ (srvReady' => backlog' # <<>>)
    BY <1>2, ZenonT(40) DEF Poll, clientVars
  <2>4. ServerTypeOK'
    BY <1>0, <1>2, <2>1, <2>2, <2>3 DEF Poll, TypeOK, ServerTypeOK
  <2> QED BY <2>2, <2>3, <2>4 DEF TypeInv, TypeOK, ReadyIsPending
<1>3. CASE SkipClient \/ RecvError
  <2>1. ClientTypeOK'
    BY <1>0, <1>3 DEF SkipClient, RecvError, clientVars, TypeOK, ClientTypeOK
  <2>2. ServerTypeOK'
    <3>1. i' \in Nat \ {0}
      BY <1>0, <1>3 DEF SkipClient, RecvError, NextClient, TypeOK, ServerTypeOK
    <3>2. UNCHANGED <<running, pc, pollfds, revents, srvReady, fdt, registry, lost>>
      BY <1>3 DEF SkipClient, RecvError, NextClient
    <3> QED BY <1>0, <3>1, <3>2 DEF TypeOK, ServerTypeOK
  <2> QED BY <1>3, <2>1, <2>2
        DEF SkipClient, RecvError, NextClient, clientVars, TypeInv, TypeOK, ReadyIsPending
<1>4. CASE \E c \in Conns : Receive(c)
  BY <1>4, TypeReceive
<1>5. CASE remove_client
  <2>1. i \in 1..Len(pollfds) /\ pollfds \in Seq(Fds)
    BY <1>0, <1>5 DEF remove_client, TypeOK, ServerTypeOK
  <2>2. pollfds' \in Seq(Fds)
    BY <1>5, <2>1, RemoveSlotProperties DEF remove_client
  <2>3. fdt' \in [Fds -> {Free} \cup Conns \cup EventHandles]
    BY <1>0, <1>5, ClosedType DEF remove_client
  <2>4. registry' \in [Key -> Seq(Node)]
    BY <1>0, <1>5 DEF remove_client, unregister_all_events_for, TypeOK, ServerTypeOK
  <2>5. ServerTypeOK'
    <3>1. i' \in Nat \ {0}
      BY <1>0, <1>5 DEF remove_client, NextClient, TypeOK, ServerTypeOK
    <3>2. UNCHANGED <<running, pc, revents, srvReady, lost>>
      BY <1>5 DEF remove_client, NextClient
    <3> QED BY <1>0, <2>2, <2>3, <2>4, <3>1, <3>2 DEF TypeOK, ServerTypeOK
  <2>6. ClientTypeOK'
    BY <1>0, <1>5 DEF remove_client, TypeOK, ClientTypeOK
  <2> QED BY <1>5, <2>5, <2>6 DEF remove_client, NextClient, TypeInv, TypeOK, ReadyIsPending
<1>6. CASE EndRound
  <2>1. ClientTypeOK'
    BY <1>0, <1>6 DEF EndRound, clientVars, TypeOK, ClientTypeOK
  <2>2. ServerTypeOK'
    <3>1. UNCHANGED <<running, pollfds, fdt, registry, lost>>
      BY <1>6 DEF EndRound
    <3> QED BY <1>0, <1>6, <3>1, EndOfRoundType DEF EndRound, TypeOK, ServerTypeOK
  <2> QED BY <1>6, <2>1, <2>2 DEF EndRound, EndOfRound, TypeInv, TypeOK, ReadyIsPending
<1>7. CASE Accept
  <2>1. backlog # <<>> /\ backlog \in Seq(Conns)
    BY <1>0, <1>7 DEF Accept, EndOfRound, TypeInv, ReadyIsPending, TypeOK, ClientTypeOK
  <2>2. Head(backlog) \in Conns /\ Tail(backlog) \in Seq(Conns)
    BY <2>1, HeadTailProperties
  <2>3. ClientTypeOK'
    BY <1>0, <1>7, <2>2 DEF Accept, TypeOK, ClientTypeOK
  <2>4. PICK f \in Fds : fdt' = [fdt EXCEPT ![f] = Head(backlog)] /\ pollfds' = Append(pollfds, f)
    BY <1>7, ZenonT(40) DEF Accept
  <2>5. pollfds' \in Seq(Fds)
    BY <1>0, <2>4, AppendProperties DEF TypeOK, ServerTypeOK
  <2>6. ServerTypeOK'
    <3>1. fdt' \in [Fds -> {Free} \cup Conns \cup EventHandles]
      BY <1>0, <2>2, <2>4 DEF TypeOK, ServerTypeOK
    <3>2. UNCHANGED <<running, registry, lost>>
      BY <1>7 DEF Accept
    <3> QED BY <1>0, <1>7, <2>5, <3>1, <3>2, EndOfRoundType DEF Accept, TypeOK, ServerTypeOK
  <2> QED BY <1>7, <2>3, <2>6 DEF Accept, EndOfRound, TypeInv, TypeOK, ReadyIsPending
<1>8. CASE Shutdown
  <2>0. \A S : <<>> \in Seq(S)
    OBVIOUS
  <2>1. ClientTypeOK'
    BY <1>0, <1>8, <2>0, Zenon DEF Shutdown, TypeOK, ClientTypeOK
  <2>2. registry' \in [Key -> Seq(Node)]
    BY <1>8, <2>0 DEF Shutdown, unregister_all_events
  <2>3. fdt' \in [Fds -> {Free} \cup Conns \cup EventHandles]
    BY <1>0, <1>8, ClosedType DEF Shutdown
  <2>4. ServerTypeOK'
    BY <1>0, <1>8, <2>2, <2>3, Zenon DEF Shutdown, TypeOK, ServerTypeOK
  <2> QED BY <1>8, <2>1, <2>4 DEF Shutdown, TypeInv, TypeOK, ReadyIsPending
<1> QED BY <1>1, <1>2, <1>3, <1>4, <1>5, <1>6, <1>7, <1>8 DEF Server

\* Every step of the service keeps the types.
LEMMA TypeStep == TypeInv /\ [Next]_vars => TypeInv'
<1> SUFFICES ASSUME TypeInv, [Next]_vars PROVE TypeInv'
  OBVIOUS
<1>1. CASE Server
  BY <1>1, TypeServer
<1>2. CASE ClientNext /\ UNCHANGED serverVars
  BY <1>2, TypeClient
<1>3. CASE sig_handler
  BY <1>3, Zenon DEF sig_handler, clientVars, TypeInv, TypeOK, ClientTypeOK, ServerTypeOK,
              ReadyIsPending
<1>4. CASE UNCHANGED vars
  BY <1>4 DEF vars, clientVars, serverVars, TypeInv, TypeOK, ClientTypeOK, ServerTypeOK,
              ReadyIsPending
<1> QED BY <1>1, <1>2, <1>3, <1>4 DEF Next

\* Every step of the daemon, of its clients and of SIGINT keeps the types of
\* srv.c's statics, whatever the number of handles, events and connections.
THEOREM TypeCorrect == Spec => []TypeOK
<1>1. TypeInv => TypeOK
  BY DEF TypeInv
<1> QED BY TypeInit, TypeStep, <1>1, PTL DEF Spec

-----------------------------------------------------------------------------
(* The registry, the connections and the descriptors *)

\* Connections are numbered as they are made.
ConnsMade == \A c \in daemonEnd : c <= nconn

\* The server thread has no client before it listens.
StartIsEmpty == pc = "start" => pollfds = <<>>

\* RegistryOwned in two parts: whose a node is, and that its eventfd is its own.
NodesOwned ==
  \A k \in Key : \A j \in DOMAIN registry[k] :
    /\ k[1] \in Range(pollfds)
    /\ fdt[k[1]] = registry[k][j].from
    /\ fdt[registry[k][j].fd] \in EventHandles

EventfdsDistinct ==
  \A k, q \in Key : \A j \in DOMAIN registry[k], m \in DOMAIN registry[q] :
    registry[q][m].fd = registry[k][j].fd => q = k /\ m = j

Inv ==
  /\ TypeInv
  /\ ConnsMade
  /\ StartIsEmpty
  /\ ConnectionsPlaced
  /\ NodesOwned
  /\ EventfdsDistinct
  /\ FdsAccounted

\* The descriptors of a set of keys, by the nodes that hold them.
LEMMA FdsAtMember ==
  /\ \A keys, f : f \in FdsAt(keys) <=>
       \E k \in keys : \E j \in DOMAIN registry[k] : registry[k][j].fd = f
  /\ \A keys, f : f \in {m.fd : m \in UNION {Range(registry'[k]) : k \in keys}} <=>
       \E k \in keys : \E j \in DOMAIN registry'[k] : registry'[k][j].fd = f
BY DEF FdsAt, NodesAt, Range

\* A descriptor holds a connection's socket, an eventfd or nothing.
LEMMA KindsDisjoint ==
  /\ Free \notin EventHandles /\ Free \notin Conns
  /\ \A c \in Conns : c \notin EventHandles
  /\ \A x \in EventHandles : x \notin Conns
BY ClientAssumption DEF Free, Conns

\* While the server runs, the descriptors of pollfds are sockets of connections.
LEMMA SlotsAreConns ==
  ASSUME Inv, Serving
  PROVE  \A f \in Range(pollfds) : fdt[f] \in Conns /\ fdt[f] \in daemonEnd
BY DEF Inv, TypeInv, TypeOK, ClientTypeOK, ConnectionsPlaced

\* A node of the registry is one, with a descriptor and a connection.
LEMMA NodeType ==
  ASSUME TypeOK, NEW k \in Key, NEW j \in DOMAIN registry[k]
  PROVE  registry[k][j] \in Node /\ registry[k][j].fd \in Fds /\ registry[k][j].from \in Conns
<1>1. registry[k] \in Seq(Node)
  BY DEF TypeOK, ServerTypeOK
<1>2. registry[k][j] \in Node
  BY <1>1
<1> QED BY <1>2 DEF Node

\* Steps that leave connections, descriptors and the registry alone.
LEMMA Untouched ==
  ASSUME Inv, TypeInv', Serving' => Serving, pc' = "start" => pc = "start",
         Serving' = Serving \/ pc = "start",
         UNCHANGED <<fdt, registry, pollfds, backlog, daemonEnd, nconn, lost>>
  PROVE  Inv'
<1>1. ConnsMade' /\ StartIsEmpty' /\ NodesOwned' /\ EventfdsDistinct'
  BY DEF Inv, ConnsMade, StartIsEmpty, NodesOwned, EventfdsDistinct
<1>2. ConnectionsPlaced'
  BY DEF Inv, ConnectionsPlaced
<1>3. FdsAccounted'
  <2>1. CASE Serving' = Serving
    BY <2>1 DEF Inv, FdsAccounted, FdsAt, NodesAt
  <2>2. CASE pc = "start"
    <3>1. Range(pollfds) = {}
      BY <2>2 DEF Inv, StartIsEmpty, Range
    <3> QED BY <3>1 DEF Inv, FdsAccounted, FdsAt, NodesAt
  <2> QED BY <2>1, <2>2
<1> QED BY <1>1, <1>2, <1>3 DEF Inv

\* A new connection waits in the backlog; nothing else knows it yet.
LEMMA ConnectInv ==
  ASSUME Inv, TypeInv', NEW c \in Conns, Connect(c),
         UNCHANGED <<running, pc, pollfds, fdt, registry, lost>>
  PROVE  Inv'
<1>0. /\ nconn' = nconn + 1 /\ c = nconn + 1 /\ nconn \in Nat
      /\ backlog' = Append(backlog, c) /\ backlog \in Seq(Conns)
      /\ daemonEnd' = daemonEnd \cup {c} /\ daemonEnd \subseteq Conns
  BY ClientAssumption DEF Connect, Inv, TypeInv, TypeOK, ClientTypeOK
<1>1. c \notin daemonEnd
  BY <1>0 DEF Inv, ConnsMade
<1>2. ConnsMade'
  BY <1>0 DEF Inv, ConnsMade, Conns
<1>3. StartIsEmpty' /\ NodesOwned' /\ EventfdsDistinct'
  BY DEF Inv, StartIsEmpty, NodesOwned, EventfdsDistinct
<1>4. FdsAccounted'
  BY DEF Inv, FdsAccounted, Serving, FdsAt, NodesAt
<1>5. ConnectionsPlaced'
  <2> SUFFICES ASSUME Serving
               PROVE /\ daemonEnd' = Range(backlog') \cup {fdt[f] : f \in Range(pollfds)}
                     /\ \A j, k \in DOMAIN backlog' : backlog'[j] = backlog'[k] => j = k
                     /\ \A f \in Range(pollfds) : fdt[f] \notin Range(backlog')
    BY DEF Inv, ConnectionsPlaced, Serving
  <2>1. /\ DOMAIN backlog' = 1..(Len(backlog) + 1) /\ backlog'[Len(backlog) + 1] = c
        /\ \A j \in 1..Len(backlog) : backlog'[j] = backlog[j]
        /\ DOMAIN backlog = 1..Len(backlog) /\ Len(backlog) \in Nat
    BY <1>0
  <2>2. Range(backlog') = Range(backlog) \cup {c}
    <3>1. ASSUME NEW x PROVE x \in Range(backlog') <=> x \in Range(backlog) \cup {c}
      BY <2>1 DEF Range
    <3> QED BY <3>1
  <2>3. /\ daemonEnd = Range(backlog) \cup {fdt[f] : f \in Range(pollfds)}
        /\ \A j, k \in DOMAIN backlog : backlog[j] = backlog[k] => j = k
        /\ \A f \in Range(pollfds) : fdt[f] \notin Range(backlog)
    BY DEF Inv, ConnectionsPlaced
  <2>4. c \notin Range(backlog) /\ \A f \in Range(pollfds) : fdt[f] # c
    BY <1>1, <2>3
  <2>5. \A j \in DOMAIN backlog : backlog[j] # c
    BY <2>4 DEF Range
  <2>6. \A j, k \in DOMAIN backlog' : backlog'[j] = backlog'[k] => j = k
    BY <2>1, <2>3, <2>5
  <2> QED BY <1>0, <2>2, <2>3, <2>4, <2>6
<1> QED BY <1>2, <1>3, <1>4, <1>5 DEF Inv

\* The calls of the library touch neither the registry nor the descriptors.
LEMMA ClientInv == ASSUME Inv, ClientNext, UNCHANGED serverVars PROVE Inv'
<1>0. TypeInv'
  BY TypeClient DEF Inv
<1>1. UNCHANGED <<running, pc, pollfds, fdt, registry, lost>>
  BY DEF serverVars
<1>2. ASSUME NEW c \in Conns, Connect(c) PROVE Inv'
  BY <1>0, <1>1, <1>2, ConnectInv
<1>3. ASSUME UNCHANGED <<nconn, backlog, daemonEnd>> PROVE Inv'
  BY <1>0, <1>1, <1>3, Untouched DEF Serving
<1> QED BY <1>2, <1>3, ZenonT(40) DEF ClientNext, RegisterFirst, RegisterFirstFails, RegisterNext,
          UnregisterEvent, Disconnect

\* What every step of handle_message and remove_client starts from.
LEMMA AtClient ==
  ASSUME Inv, pc = "clients", i <= Len(pollfds)
  PROVE  /\ pollfds \in Seq(Fds) /\ i \in DOMAIN pollfds /\ i \in 1..Len(pollfds)
         /\ pollfds[i] \in Fds /\ pollfds[i] \in Range(pollfds) /\ Serving
         /\ fdt[pollfds[i]] \in Conns
<1>1. pollfds \in Seq(Fds) /\ i \in DOMAIN pollfds /\ i \in 1..Len(pollfds)
  BY DEF Inv, TypeInv, TypeOK, ServerTypeOK
<1>2. pollfds[i] \in Fds /\ pollfds[i] \in Range(pollfds) /\ Serving
  BY <1>1 DEF Range, Serving
<1> QED BY <1>1, <1>2, SlotsAreConns

\* A descriptor number that is unused is no socket of pollfds and no eventfd of
\* the registry.
LEMMA UnusedFd ==
  ASSUME Inv, Serving, NEW f \in Fds, fdt[f] = Free
  PROVE  /\ f \notin Range(pollfds)
         /\ \A k \in Key : \A j \in DOMAIN registry[k] : registry[k][j].fd # f /\ k[1] # f
<1>1. f \notin Range(pollfds)
  BY SlotsAreConns, KindsDisjoint
<1> QED BY <1>1, KindsDisjoint DEF Inv, NodesOwned

\* Steps that only change descriptors outside pollfds keep the connections placed.
LEMMA PlacedKept ==
  ASSUME Inv, Serving, UNCHANGED <<pollfds, backlog, daemonEnd, pc>>,
         \A f \in Range(pollfds) : fdt'[f] = fdt[f]
  PROVE  ConnectionsPlaced'
<1>1. /\ daemonEnd = Range(backlog) \cup {fdt[f] : f \in Range(pollfds)}
      /\ \A j, k \in DOMAIN pollfds : fdt[pollfds[j]] = fdt[pollfds[k]] => j = k
      /\ \A j, k \in DOMAIN backlog : backlog[j] = backlog[k] => j = k
      /\ \A f \in Range(pollfds) : fdt[f] \notin Range(backlog)
  BY DEF Inv, ConnectionsPlaced
<1>2. {fdt'[f] : f \in Range(pollfds)} = {fdt[f] : f \in Range(pollfds)}
  OBVIOUS
<1>3. \A j \in DOMAIN pollfds : fdt'[pollfds[j]] = fdt[pollfds[j]]
  BY DEF Range
<1> QED BY <1>1, <1>2, <1>3 DEF ConnectionsPlaced

\* handle_message of a registration, with memory for the node.
LEMMA RegisterInv ==
  ASSUME Inv, TypeInv', Serving, NEW c \in Conns, NEW s \in Range(pollfds), s \in Fds,
         fdt[s] = c, NEW f \in Fds, fdt[f] = Free, NEW req, req.eh \in EventHandles,
         <<s, req.event, req.object>> \in Key,
         fdt' = [fdt EXCEPT ![f] = req.eh], register_event(s, f, req),
         UNCHANGED <<pc, pollfds, backlog, daemonEnd, nconn, lost>>
  PROVE  Inv'
<1> DEFINE q == <<s, req.event, req.object>>
           x == [fd |-> f, from |-> c]
<1>0. TypeOK /\ fdt \in [Fds -> {Free} \cup Conns \cup EventHandles]
  BY DEF Inv, TypeInv, TypeOK, ServerTypeOK
<1>1. registry[q] \in Seq(Node) /\ x \in Node
  BY <1>0, ZenonT(40) DEF TypeOK, ServerTypeOK, Node
<1>2. registry' = [registry EXCEPT ![q] = Cons(x, registry[q])]
  BY DEF register_event
<1>3. /\ DOMAIN registry'[q] = 1..(Len(registry[q]) + 1) /\ registry'[q][1] = x
      /\ DOMAIN registry[q] = 1..Len(registry[q]) /\ Len(registry[q]) \in Nat
      /\ \A j \in 2..(Len(registry[q]) + 1) : registry'[q][j] = registry[q][j - 1]
  <2>1. registry'[q] = Cons(x, registry[q])
    BY <1>0, <1>2 DEF TypeOK, ServerTypeOK
  <2> HIDE DEF x, q
  <2>2. /\ Cons(x, registry[q]) \in Seq(Node)
        /\ Len(Cons(x, registry[q])) = Len(registry[q]) + 1
        /\ \A j \in 1..(Len(registry[q]) + 1) :
             Cons(x, registry[q])[j] = IF j = 1 THEN x ELSE registry[q][j - 1]
    <3>1. \A z \in Seq(Node), y \in Node :
            /\ Cons(y, z) \in Seq(Node)
            /\ Len(Cons(y, z)) = Len(z) + 1
            /\ \A j \in 1..(Len(z) + 1) : Cons(y, z)[j] = IF j = 1 THEN y ELSE z[j - 1]
      BY ConsProperties, Zenon
    <3> QED BY <1>1, <3>1, Zenon
  <2>3. Len(registry[q]) \in Nat /\ DOMAIN registry[q] = 1..Len(registry[q])
    BY <1>1
  <2>4. DOMAIN registry'[q] = 1..(Len(registry[q]) + 1)
    BY <2>1, <2>2
  <2> QED BY <2>1, <2>2, <2>3, <2>4
<1>4. \A k \in Key : k # q => registry'[k] = registry[k]
  BY <1>0, <1>2 DEF TypeOK, ServerTypeOK
<1>5. q[1] = s /\ x.fd = f /\ x.from = c
  OBVIOUS
<1> HIDE DEF q, x
<1>6. ASSUME NEW k \in Key, NEW j \in DOMAIN registry'[k]
      PROVE  \/ k = q /\ j = 1
             \/ k = q /\ j - 1 \in DOMAIN registry[q] /\ registry'[k][j] = registry[q][j - 1]
             \/ k # q /\ j \in DOMAIN registry[k] /\ registry'[k][j] = registry[k][j]
  <2>1. CASE k = q /\ j # 1
    <3>1. j \in 2..(Len(registry[q]) + 1) /\ j - 1 \in 1..Len(registry[q])
      BY <1>3, <2>1
    <3> QED BY <1>3, <2>1, <3>1
  <2>2. CASE k # q
    BY <1>4, <2>2
  <2> QED BY <2>1, <2>2
<1>7. f \notin Range(pollfds) /\ f # s
  BY UnusedFd
<1>8. \A g \in Fds : g # f => fdt'[g] = fdt[g]
  BY <1>0
<1>9. ASSUME NEW k \in Key, NEW j \in DOMAIN registry[k]
      PROVE  /\ registry[k][j].fd \in Fds /\ registry[k][j].fd # f
             /\ k[1] \in Range(pollfds) /\ k[1] \in Fds /\ k[1] # f
             /\ fdt'[k[1]] = registry[k][j].from
             /\ fdt'[registry[k][j].fd] \in EventHandles
  <2>1. registry[k][j].fd \in Fds /\ k[1] \in Fds
    BY <1>0, NodeType DEF Key
  <2>2. registry[k][j].fd # f /\ k[1] # f
    BY UnusedFd
  <2> QED BY <1>8, <2>1, <2>2 DEF Inv, NodesOwned
<1>10. NodesOwned'
  <2>1. fdt'[s] = c /\ fdt'[f] = req.eh
    BY <1>0, <1>7, <1>8
  <2>2. ASSUME NEW k \in Key, NEW j \in DOMAIN registry'[k]
        PROVE  /\ k[1] \in Range(pollfds)
               /\ fdt'[k[1]] = registry'[k][j].from
               /\ fdt'[registry'[k][j].fd] \in EventHandles
    <3>1. CASE k = q /\ j = 1
      BY <1>3, <1>5, <2>1, <3>1
    <3>2. CASE ~(k = q /\ j = 1)
      <4>1. PICK m \in DOMAIN registry[k] : registry'[k][j] = registry[k][m]
        BY <1>6, <3>2
      <4> QED BY <1>9, <4>1
    <3> QED BY <3>1, <3>2
  <2> QED BY <2>2 DEF NodesOwned
<1>11. EventfdsDistinct'
  <2>1. ASSUME NEW k \in Key, NEW p \in Key, NEW j \in DOMAIN registry'[k],
               NEW m \in DOMAIN registry'[p], registry'[p][m].fd = registry'[k][j].fd
        PROVE  p = k /\ m = j
    <3>1. CASE k = q /\ j = 1
      BY <1>3, <1>5, <1>6, <1>9, <2>1, <3>1
    <3>2. CASE p = q /\ m = 1
      BY <1>3, <1>5, <1>6, <1>9, <2>1, <3>2
    <3>3. CASE ~(k = q /\ j = 1) /\ ~(p = q /\ m = 1)
      <4>1. CASE k = q /\ p = q
        <5>1. /\ j - 1 \in DOMAIN registry[q] /\ registry'[k][j] = registry[q][j - 1]
              /\ m - 1 \in DOMAIN registry[q] /\ registry'[p][m] = registry[q][m - 1]
          BY <1>6, <3>3, <4>1
        <5>2. m - 1 = j - 1
          BY <2>1, <4>1, <5>1 DEF Inv, EventfdsDistinct
        <5>3. j \in Nat /\ m \in Nat
          BY <1>3, <4>1
        <5> QED BY <4>1, <5>2, <5>3
      <4>2. CASE k # q /\ p # q
        BY <1>6, <2>1, <4>2 DEF Inv, EventfdsDistinct
      <4>3. CASE k = q /\ p # q
        <5>1. /\ j - 1 \in DOMAIN registry[q] /\ registry'[k][j] = registry[q][j - 1]
              /\ m \in DOMAIN registry[p] /\ registry'[p][m] = registry[p][m]
          BY <1>6, <3>3, <4>3
        <5> QED BY <2>1, <4>3, <5>1 DEF Inv, EventfdsDistinct
      <4>4. CASE k # q /\ p = q
        <5>1. /\ m - 1 \in DOMAIN registry[q] /\ registry'[p][m] = registry[q][m - 1]
              /\ j \in DOMAIN registry[k] /\ registry'[k][j] = registry[k][j]
          BY <1>6, <3>3, <4>4
        <5> QED BY <2>1, <4>4, <5>1 DEF Inv, EventfdsDistinct
      <4> QED BY <4>1, <4>2, <4>3, <4>4
    <3> QED BY <3>1, <3>2, <3>3
  <2> QED BY <2>1 DEF EventfdsDistinct
<1>12. ConnectionsPlaced'
  <2>1. \A g \in Range(pollfds) : g \in Fds /\ g # f
    BY <1>0, <1>7, RangeInSeq DEF TypeOK, ServerTypeOK
  <2> QED BY <1>8, <2>1, PlacedKept
<1>13. FdsAccounted'
  <2>1. ASSUME NEW g \in Fds, fdt'[g] # Free
        PROVE  \/ g \in Range(pollfds)
               \/ \E k \in Key : \E j \in DOMAIN registry'[k] : registry'[k][j].fd = g
               \/ g \in {l.fd : l \in lost}
    <3>1. CASE g = f
      <4>1. q \in Key /\ 1 \in DOMAIN registry'[q]
        BY <1>3 DEF q
      <4> QED BY <1>3, <1>5, <3>1, <4>1
    <3>2. CASE g # f
      <4>1. fdt[g] # Free
        BY <1>8, <2>1, <3>2
      <4>2. CASE g \in FdsAt(Key)
        <5>0. PICK k \in Key : \E j \in DOMAIN registry[k] : registry[k][j].fd = g
          BY <4>2, FdsAtMember
        <5>1. PICK j \in DOMAIN registry[k] : registry[k][j].fd = g
          BY <5>0
        <5>2. CASE k = q
          <6>1. j + 1 \in DOMAIN registry'[k] /\ registry'[k][j + 1] = registry[k][j]
            BY <1>3, <5>2
          <6> QED BY <5>1, <6>1
        <5>3. CASE k # q
          BY <1>4, <5>1, <5>3
        <5> QED BY <5>2, <5>3
      <4> QED BY <4>1, <4>2 DEF Inv, FdsAccounted
    <3> QED BY <3>1, <3>2
  <2> QED BY <2>1, FdsAtMember, ZenonT(40) DEF FdsAccounted, Serving, FdsAt, NodesAt
<1> QED BY <1>10, <1>11, <1>12, <1>13 DEF Inv, ConnsMade, StartIsEmpty

\* Steps that only take nodes off the front of the lists of the registry, and close
\* no descriptor that a remaining node or its connection uses.
LEMMA NodesKept ==
  ASSUME Inv, NEW D, \A g \in Fds : g \notin D => fdt'[g] = fdt[g],
         \A k \in Key : \E n \in Nat : \A j \in DOMAIN registry'[k] :
           /\ j \in Nat /\ j + n \in DOMAIN registry[k]
           /\ registry'[k][j] = registry[k][j + n]
           /\ registry[k][j + n].fd \notin D
           /\ k[1] \notin D /\ k[1] \in Range(pollfds')
  PROVE  NodesOwned' /\ EventfdsDistinct'
<1>0. TypeOK
  BY DEF Inv, TypeInv
<1>1. ASSUME NEW k \in Key, NEW j \in DOMAIN registry'[k]
      PROVE  /\ k[1] \in Range(pollfds')
             /\ fdt'[k[1]] = registry'[k][j].from
             /\ fdt'[registry'[k][j].fd] \in EventHandles
  <2>1. PICK n \in Nat : /\ j + n \in DOMAIN registry[k]
                         /\ registry'[k][j] = registry[k][j + n]
                         /\ registry[k][j + n].fd \notin D
                         /\ k[1] \notin D /\ k[1] \in Range(pollfds')
    OBVIOUS
  <2>2. registry[k][j + n].fd \in Fds /\ k[1] \in Fds
    BY <1>0, <2>1, NodeType DEF Key
  <2>3. fdt[k[1]] = registry[k][j + n].from /\ fdt[registry[k][j + n].fd] \in EventHandles
    BY <2>1 DEF Inv, NodesOwned
  <2> QED BY <2>1, <2>2, <2>3
<1>2. ASSUME NEW k \in Key, NEW p \in Key, NEW j \in DOMAIN registry'[k],
             NEW m \in DOMAIN registry'[p], registry'[p][m].fd = registry'[k][j].fd
      PROVE  p = k /\ m = j
  <2>1. PICK n \in Nat : \A x \in DOMAIN registry'[k] :
          x \in Nat /\ x + n \in DOMAIN registry[k] /\ registry'[k][x] = registry[k][x + n]
    BY ZenonT(40)
  <2>2. PICK o \in Nat : \A x \in DOMAIN registry'[p] :
          x \in Nat /\ x + o \in DOMAIN registry[p] /\ registry'[p][x] = registry[p][x + o]
    OBVIOUS
  <2>3. p = k /\ m + o = j + n
    BY <1>2, <2>1, <2>2 DEF Inv, EventfdsDistinct
  <2>4. m + n = j + n
    <3>1. registry'[p][m] = registry[k][m + n] /\ m + n \in DOMAIN registry[k]
      BY <2>1, <2>3
    <3>2. registry'[k][j] = registry[k][j + n] /\ j + n \in DOMAIN registry[k]
      BY <2>1
    <3> QED BY <1>2, <3>1, <3>2 DEF Inv, EventfdsDistinct
  <2> QED BY <2>1, <2>2, <2>3, <2>4
<1> QED BY <1>1, <1>2 DEF NodesOwned, EventfdsDistinct

\* handle_message of an unregistration that finds a node.
LEMMA UnregisterInv ==
  ASSUME Inv, TypeInv', Serving, NEW q \in Key, registry[q] # <<>>,
         registry' = [registry EXCEPT ![q] = Tail(@)],
         fdt' = Closed({Head(registry[q]).fd}),
         UNCHANGED <<pc, pollfds, backlog, daemonEnd, nconn, lost>>
  PROVE  Inv'
<1>0. TypeOK /\ fdt \in [Fds -> {Free} \cup Conns \cup EventHandles]
      /\ registry \in [Key -> Seq(Node)] /\ registry[q] \in Seq(Node)
  BY DEF Inv, TypeInv, TypeOK, ServerTypeOK
<1>1. /\ registry'[q] = Tail(registry[q])
      /\ \A k \in Key : k # q => registry'[k] = registry[k]
  BY <1>0
<1>2. /\ DOMAIN registry[q] = 1..Len(registry[q]) /\ Len(registry[q]) \in Nat \ {0}
      /\ DOMAIN registry'[q] = 1..(Len(registry[q]) - 1)
      /\ \A j \in 1..(Len(registry[q]) - 1) : registry'[q][j] = registry[q][j + 1]
      /\ Head(registry[q]) = registry[q][1]
  BY <1>0, <1>1
<1> DEFINE d == registry[q][1].fd
<1>3. d \in Fds /\ fdt[d] \in EventHandles /\ 1 \in DOMAIN registry[q]
  <2>1. 1 \in DOMAIN registry[q]
    BY <1>2
  <2> QED BY <1>0, <2>1, NodeType DEF Inv, NodesOwned
<1>4. d \notin Range(pollfds)
  BY <1>3, SlotsAreConns, KindsDisjoint
<1>5. \A g \in Fds : fdt'[g] = IF g = d THEN Free ELSE fdt[g]
  BY <1>2 DEF Closed
<1> HIDE DEF d
<1>6. NodesOwned' /\ EventfdsDistinct'
  <2>1. ASSUME NEW k \in Key
        PROVE  \E n \in Nat : \A j \in DOMAIN registry'[k] :
                 /\ j \in Nat /\ j + n \in DOMAIN registry[k]
                 /\ registry'[k][j] = registry[k][j + n]
                 /\ registry[k][j + n].fd \notin {d}
                 /\ k[1] \notin {d} /\ k[1] \in Range(pollfds')
    <3>1. ASSUME NEW j \in DOMAIN registry[k] PROVE k[1] \in Range(pollfds) /\ k[1] # d
      <4>1. k[1] \in Range(pollfds)
        BY DEF Inv, NodesOwned
      <4> QED BY <1>4, <4>1
    <3>2. \A j \in DOMAIN registry[k] : registry[k][j].fd = d => k = q /\ j = 1
      BY <1>3 DEF d, Inv, EventfdsDistinct
    <3>3. CASE k = q
      <4>1. \A j \in DOMAIN registry'[k] :
              /\ j \in Nat /\ j + 1 \in DOMAIN registry[k] /\ j + 1 # 1
              /\ registry'[k][j] = registry[k][j + 1]
        BY <1>2, <3>3
      <4>2. \A j \in DOMAIN registry'[k] :
              /\ j \in Nat /\ j + 1 \in DOMAIN registry[k]
              /\ registry'[k][j] = registry[k][j + 1]
              /\ registry[k][j + 1].fd \notin {d}
              /\ k[1] \notin {d} /\ k[1] \in Range(pollfds')
        BY <3>1, <3>2, <4>1
      <4>3. 1 \in Nat
        OBVIOUS
      <4> QED BY <4>2, <4>3
    <3>4. CASE k # q
      <4>1. registry'[k] = registry[k] /\ registry[k] \in Seq(Node)
        BY <1>0, <1>1, <3>4
      <4>2. \A j \in DOMAIN registry[k] : j \in Nat /\ j + 0 = j
        BY <4>1
      <4>3. \A j \in DOMAIN registry[k] : registry[k][j].fd # d
        BY <3>2, <3>4
      <4>4. \A j \in DOMAIN registry'[k] :
              /\ j \in Nat /\ j + 0 \in DOMAIN registry[k]
              /\ registry'[k][j] = registry[k][j + 0]
              /\ registry[k][j + 0].fd \notin {d}
              /\ k[1] \notin {d} /\ k[1] \in Range(pollfds')
        BY <3>1, <4>1, <4>2, <4>3, Zenon
      <4> QED BY <4>4
    <3> QED BY <3>3, <3>4
  <2>2. \A g \in Fds : g \notin {d} => fdt'[g] = fdt[g]
    BY <1>5, Zenon
  <2> QED BY <2>1, <2>2, NodesKept, Zenon
<1>7. ConnectionsPlaced'
  <2>1. \A g \in Range(pollfds) : g \in Fds /\ g # d
    BY <1>0, <1>4, RangeInSeq DEF TypeOK, ServerTypeOK
  <2> QED BY <1>5, <2>1, PlacedKept, ZenonT(40)
<1>8. FdsAccounted'
  <2>1. ASSUME NEW g \in Fds, fdt'[g] # Free
        PROVE  \/ g \in Range(pollfds)
               \/ \E k \in Key : \E j \in DOMAIN registry'[k] : registry'[k][j].fd = g
               \/ g \in {l.fd : l \in lost}
    <3>1. fdt[g] # Free /\ g # d
      BY <1>5, <2>1, ZenonT(40)
    <3>2. CASE g \in FdsAt(Key)
      <4>0. PICK k \in Key : \E j \in DOMAIN registry[k] : registry[k][j].fd = g
        BY <3>2, FdsAtMember
      <4>1. PICK j \in DOMAIN registry[k] : registry[k][j].fd = g
        BY <4>0
      <4>2. CASE k = q
        <5>1. j # 1
          BY <3>1, <4>1, <4>2 DEF d
        <5>2. j - 1 \in DOMAIN registry'[k] /\ registry'[k][j - 1] = registry[k][j]
          BY <1>2, <4>2, <5>1
        <5> QED BY <4>1, <5>2
      <4>3. CASE k # q
        BY <1>1, <4>1, <4>3
      <4> QED BY <4>2, <4>3
    <3> QED BY <3>1, <3>2 DEF Inv, FdsAccounted
  <2> QED BY <2>1, FdsAtMember, ZenonT(40) DEF FdsAccounted, Serving, FdsAt, NodesAt
<1> QED BY <1>6, <1>7, <1>8 DEF Inv, ConnsMade, StartIsEmpty

\* The same for steps that drop all the nodes of a key or none.
LEMMA ListsKept ==
  ASSUME Inv, NEW D, \A g \in Fds : g \notin D => fdt'[g] = fdt[g],
         \A k \in Key :
           \/ DOMAIN registry'[k] = {}
           \/ /\ registry'[k] = registry[k]
              /\ \A j \in DOMAIN registry[k] :
                   registry[k][j].fd \notin D /\ k[1] \notin D /\ k[1] \in Range(pollfds')
  PROVE  NodesOwned' /\ EventfdsDistinct'
<1>1. ASSUME NEW k \in Key
      PROVE  \E n \in Nat : \A j \in DOMAIN registry'[k] :
               /\ j \in Nat /\ j + n \in DOMAIN registry[k]
               /\ registry'[k][j] = registry[k][j + n]
               /\ registry[k][j + n].fd \notin D
               /\ k[1] \notin D /\ k[1] \in Range(pollfds')
  <2>1. registry[k] \in Seq(Node) /\ 0 \in Nat
    BY DEF Inv, TypeInv, TypeOK, ServerTypeOK
  <2>2. \A j \in DOMAIN registry[k] : j \in Nat /\ j + 0 = j
    BY <2>1
  <2>3. \A j \in DOMAIN registry'[k] :
          /\ j \in Nat /\ j + 0 \in DOMAIN registry[k]
          /\ registry'[k][j] = registry[k][j + 0]
          /\ registry[k][j + 0].fd \notin D
          /\ k[1] \notin D /\ k[1] \in Range(pollfds')
    BY <2>2
  <2> QED BY <2>1, <2>3
<1> QED BY <1>1, NodesKept, ZenonT(40)

\* handle_message of a registration when malloc() fails.
LEMMA LostInv ==
  ASSUME Inv, TypeInv', Serving, NEW f \in Fds, fdt[f] = Free, NEW eh, NEW l, l.fd = f,
         fdt' = [fdt EXCEPT ![f] = eh], lost' = lost \cup {l},
         UNCHANGED <<pc, pollfds, backlog, daemonEnd, nconn, registry>>
  PROVE  Inv'
<1>0. TypeOK /\ fdt \in [Fds -> {Free} \cup Conns \cup EventHandles]
  BY DEF Inv, TypeInv, TypeOK, ServerTypeOK
<1>1. \A g \in Fds : g \notin {f} => fdt'[g] = fdt[g]
  BY <1>0
<1>2. NodesOwned' /\ EventfdsDistinct'
  <2>1. ASSUME NEW k \in Key, NEW j \in DOMAIN registry[k]
        PROVE  registry[k][j].fd \notin {f} /\ k[1] \notin {f} /\ k[1] \in Range(pollfds')
    BY UnusedFd DEF Inv, NodesOwned
  <2> QED BY <1>1, <2>1, ListsKept, ZenonT(40)
<1>3. ConnectionsPlaced'
  <2>1. \A g \in Range(pollfds) : g \in Fds /\ g # f
    BY <1>0, UnusedFd, RangeInSeq DEF TypeOK, ServerTypeOK
  <2> QED BY <1>1, <2>1, PlacedKept
<1>4. FdsAccounted'
  <2>1. ASSUME NEW g \in Fds, fdt'[g] # Free
        PROVE  \/ g \in Range(pollfds) \/ g \in FdsAt(Key) \/ g \in {m.fd : m \in lost'}
    <3>1. CASE g = f
      BY <3>1
    <3>2. CASE g # f
      BY <1>1, <2>1, <3>2 DEF Inv, FdsAccounted
    <3> QED BY <3>1, <3>2
  <2> QED BY <2>1 DEF FdsAccounted, Serving, FdsAt, NodesAt
<1> QED BY <1>2, <1>3, <1>4 DEF Inv, ConnsMade, StartIsEmpty

\* handle_message: a new node has a new eventfd, a removed one is closed.
LEMMA ReceiveInv == ASSUME Inv, NEW c \in Conns, Receive(c) PROVE Inv'
<1> DEFINE s == pollfds[i]
           req == Head(queue[c])
<1>0. TypeOK /\ TypeInv /\ TypeInv'
  BY TypeReceive DEF Inv, TypeInv
<1>1. /\ s \in Range(pollfds) /\ s \in Fds /\ Serving
      /\ fdt[s] = c /\ queue[c] # <<>>
  BY AtClient, ZenonT(40) DEF Receive
<1>2. /\ req.event \in Events /\ req.object \in Objects
      /\ req.type = "REGISTER_EVENT" => req.eh \in EventHandles
  BY <1>0, <1>1, HeadRequest
<1>3. <<s, req.event, req.object>> \in Key
  BY <1>1, <1>2 DEF Key
<1>4. UNCHANGED <<pc, pollfds, backlog, daemonEnd, nconn>>
  BY ZenonT(40) DEF Receive, NextClient
<1>5. CASE req.type = "REGISTER_EVENT"
  <2>1. PICK f \in Fds :
          /\ fdt[f] = Free
          /\ fdt' = [fdt EXCEPT ![f] = req.eh]
          /\ \/ register_event(s, f, req) /\ UNCHANGED lost
             \/ /\ lost' = lost \cup {[from |-> c, event |-> req.event, fd |-> f]}
                /\ UNCHANGED registry
    BY <1>5 DEF Receive, NewFd
  <2> HIDE DEF s, req
  <2>2. CASE register_event(s, f, req) /\ UNCHANGED lost
    BY <1>0, <1>1, <1>2, <1>3, <1>4, <1>5, <2>1, <2>2, RegisterInv, ZenonT(40)
  <2>3. CASE /\ lost' = lost \cup {[from |-> c, event |-> req.event, fd |-> f]}
             /\ UNCHANGED registry
    <3>1. PICK l : l = [from |-> c, event |-> req.event, fd |-> f]
      BY ZenonT(40)
    <3>2. l.fd = f /\ lost' = lost \cup {l}
      BY <2>3, <3>1
    <3> QED BY <1>0, <1>1, <1>4, <2>1, <2>3, <3>2, LostInv, ZenonT(40)
  <2> QED BY <2>1, <2>2, <2>3
<1>6. CASE req.type = "UNREGISTER_EVENT"
  <2> DEFINE k == <<s, req.event, req.object>>
  <2>1. unregister_event(s, req.event, req.object) /\ UNCHANGED lost
    BY <1>6, ZenonT(40) DEF Receive
  <2>2. CASE registry[k] = <<>>
    <3>1. UNCHANGED <<registry, fdt>>
      BY <2>1, <2>2 DEF unregister_event
    <3> QED BY <1>0, <1>4, <2>1, <3>1, Untouched DEF Serving
  <2>3. CASE registry[k] # <<>>
    <3>1. /\ registry' = [registry EXCEPT ![k] = Tail(@)]
          /\ fdt' = Closed({Head(registry[k]).fd})
      BY <2>1, <2>3, ZenonT(40) DEF unregister_event
    <3>2. k \in Key
      BY <1>3
    <3> HIDE DEF k
    <3> QED BY <1>0, <1>1, <1>4, <2>1, <2>3, <3>1, <3>2, UnregisterInv, ZenonT(40)
  <2> QED BY <2>2, <2>3
<1> QED BY <1>5, <1>6 DEF Receive

\* remove_client: the slot goes, and with it the socket and every eventfd that was
\* registered through it; nothing of another connection does.
LEMMA RemoveClientInv == ASSUME Inv, remove_client PROVE Inv'
<1> DEFINE s == pollfds[i]
           c == fdt[s]
           D == FdsAt(KeysOf(s)) \cup {s}
<1>0. /\ TypeOK /\ pollfds \in Seq(Fds) /\ i \in 1..Len(pollfds)
      /\ fdt \in [Fds -> {Free} \cup Conns \cup EventHandles]
      /\ registry \in [Key -> Seq(Node)]
      /\ s \in Fds /\ s \in Range(pollfds) /\ Serving /\ c \in Conns
  BY AtClient, Zenon DEF remove_client, Inv, TypeInv, TypeOK, ServerTypeOK
<1>1. TypeInv'
  BY TypeServer DEF Inv, Server
<1>2. /\ registry' = [k \in Key |-> IF k \in KeysOf(s) THEN <<>> ELSE registry[k]]
      /\ fdt' = Closed(D) /\ daemonEnd' = daemonEnd \ {c}
      /\ pollfds' = RemoveSlot(pollfds, i)
      /\ UNCHANGED <<pc, backlog, nconn, lost>>
  BY ZenonT(40) DEF remove_client, unregister_all_events_for, NextClient
<1>3. \A g \in Fds : fdt'[g] = IF g \in D THEN Free ELSE fdt[g]
  BY <1>2 DEF Closed
<1>4. /\ pc = "clients"
      /\ \A k \in Key : k[1] = s => registry'[k] = <<>>
      /\ \A k \in Key : k[1] # s => registry'[k] = registry[k]
  BY <1>2 DEF KeysOf, remove_client
<1>5. \A g : g \in D <=> g = s \/ \E k \in Key : k[1] = s /\ \E j \in DOMAIN registry[k] :
                                    registry[k][j].fd = g
  BY FdsAtMember DEF KeysOf
<1>6. /\ daemonEnd = Range(backlog) \cup {fdt[f] : f \in Range(pollfds)}
      /\ \A j, k \in DOMAIN pollfds : fdt[pollfds[j]] = fdt[pollfds[k]] => j = k
      /\ \A j, k \in DOMAIN backlog : backlog[j] = backlog[k] => j = k
      /\ \A f \in Range(pollfds) : fdt[f] \notin Range(backlog)
  BY <1>0 DEF Inv, ConnectionsPlaced
<1>7. /\ DOMAIN pollfds = 1..Len(pollfds) /\ Len(pollfds) \in Nat
      /\ DOMAIN pollfds' = 1..(Len(pollfds) - 1)
      /\ \A j \in 1..(Len(pollfds) - 1) :
           pollfds'[j] = IF j < i THEN pollfds[j] ELSE pollfds[j + 1]
  <2>1. Len(pollfds') = Len(pollfds) - 1 /\ pollfds' \in Seq(Fds)
    BY <1>0, <1>2, RemoveSlotProperties
  <2>2. \A j \in 1..(Len(pollfds) - 1) :
          pollfds'[j] = IF j < i THEN pollfds[j] ELSE pollfds[j + 1]
    BY <1>0, <1>2, RemoveSlotProperties, ZenonT(40)
  <2> QED BY <1>0, <2>1, <2>2
<1>8. \A j \in DOMAIN pollfds : pollfds[j] = s => j = i
  BY <1>0, <1>6, <1>7
<1>9. Range(pollfds') = Range(pollfds) \ {s}
  <2>1. ASSUME NEW j \in DOMAIN pollfds'
        PROVE  pollfds'[j] \in Range(pollfds) /\ pollfds'[j] # s
    <3>1. CASE j < i
      <4>1. j \in DOMAIN pollfds /\ pollfds'[j] = pollfds[j] /\ j # i
        BY <1>0, <1>7, <3>1
      <4> QED BY <1>8, <4>1 DEF Range
    <3>2. CASE ~(j < i)
      <4>1. j + 1 \in DOMAIN pollfds /\ pollfds'[j] = pollfds[j + 1] /\ j + 1 # i
        BY <1>0, <1>7, <3>2
      <4> QED BY <1>8, <4>1 DEF Range
    <3> QED BY <3>1, <3>2
  <2>2. ASSUME NEW m \in DOMAIN pollfds, pollfds[m] # s
        PROVE  pollfds[m] \in Range(pollfds')
    <3>1. CASE m < i
      <4>1. m \in DOMAIN pollfds' /\ pollfds'[m] = pollfds[m]
        BY <1>0, <1>7, <3>1
      <4> QED BY <4>1 DEF Range
    <3>2. CASE ~(m < i)
      <4>1. m # i
        BY <2>2
      <4>2. m - 1 \in DOMAIN pollfds' /\ ~(m - 1 < i) /\ (m - 1) + 1 = m
        BY <1>0, <1>7, <3>2, <4>1
      <4>3. pollfds'[m - 1] = pollfds[m]
        BY <1>7, <4>2
      <4> QED BY <4>2, <4>3 DEF Range
    <3> QED BY <3>1, <3>2
  <2> QED BY <2>1, <2>2 DEF Range
<1> HIDE DEF s, c, D
<1>10. \A g \in Range(pollfds') : g \in Fds /\ g \notin D /\ fdt'[g] = fdt[g]
  <2>1. ASSUME NEW g \in Range(pollfds') PROVE g \in Fds /\ g \notin D
    <3>1. g \in Fds /\ g # s /\ fdt[g] \in Conns
      BY <1>0, <1>9, RangeInSeq, SlotsAreConns
    <3> QED BY <1>5, <3>1, KindsDisjoint DEF Inv, NodesOwned
  <2> QED BY <1>3, <2>1
<1>11. NodesOwned' /\ EventfdsDistinct'
  <2>1. ASSUME NEW k \in Key, k[1] # s, NEW j \in DOMAIN registry[k]
        PROVE  registry[k][j].fd \notin D /\ k[1] \notin D /\ k[1] \in Range(pollfds')
    <3>1. k[1] \in Range(pollfds')
      BY <1>9, <2>1 DEF Inv, NodesOwned
    <3>2. fdt[registry[k][j].fd] \in EventHandles
      BY DEF Inv, NodesOwned
    <3>3. registry[k][j].fd # s
      BY <1>0, <3>2, KindsDisjoint DEF c
    <3>4. \A p \in Key : p[1] = s => \A m \in DOMAIN registry[p] :
             registry[p][m].fd # registry[k][j].fd
      BY <2>1 DEF Inv, EventfdsDistinct
    <3> QED BY <1>5, <1>10, <3>1, <3>3, <3>4
  <2>2. \A g \in Fds : g \notin D => fdt'[g] = fdt[g]
    BY <1>3
  <2>3. ASSUME NEW k \in Key
        PROVE  \/ DOMAIN registry'[k] = {}
               \/ /\ registry'[k] = registry[k]
                  /\ \A j \in DOMAIN registry[k] :
                       registry[k][j].fd \notin D /\ k[1] \notin D /\ k[1] \in Range(pollfds')
    <3>1. CASE k[1] = s
      BY <1>4, <3>1
    <3>2. CASE k[1] # s
      BY <1>4, <2>1, <3>2
    <3> QED BY <3>1, <3>2
  <2> QED BY <2>2, <2>3, ListsKept
<1>12. ConnectionsPlaced'
  <2>1. \A g \in Range(pollfds) : fdt[g] = c => g = s
    <3>1. ASSUME NEW m \in DOMAIN pollfds, fdt[pollfds[m]] = c PROVE pollfds[m] = s
      BY <1>0, <1>6, <1>7, <3>1 DEF c, s
    <3> QED BY <3>1 DEF Range
  <2>2. c \notin Range(backlog) /\ c = fdt[s]
    BY <1>0, <1>6 DEF c
  <2>3. daemonEnd' = Range(backlog') \cup {fdt'[f] : f \in Range(pollfds')}
    <3>1. ASSUME NEW x
          PROVE  x \in daemonEnd' <=> x \in Range(backlog) \cup {fdt[f] : f \in Range(pollfds')}
      BY <1>2, <1>6, <1>9, <2>1, <2>2
    <3>2. {fdt'[f] : f \in Range(pollfds')} = {fdt[f] : f \in Range(pollfds')}
      BY <1>10
    <3> QED BY <1>2, <3>1, <3>2
  <2>4. ASSUME NEW j \in DOMAIN pollfds', NEW k \in DOMAIN pollfds',
               fdt'[pollfds'[j]] = fdt'[pollfds'[k]]
        PROVE  j = k
    <3> DEFINE e(x) == IF x < i THEN x ELSE x + 1
    <3>1. \A x \in DOMAIN pollfds' : e(x) \in DOMAIN pollfds /\ pollfds'[x] = pollfds[e(x)]
      BY <1>0, <1>7
    <3>2. \A x \in DOMAIN pollfds' : fdt'[pollfds'[x]] = fdt[pollfds'[x]]
      BY <1>10 DEF Range
    <3>3. fdt[pollfds[e(j)]] = fdt[pollfds[e(k)]]
      BY <2>4, <3>1, <3>2
    <3>4. e(j) = e(k)
      BY <1>6, <3>1, <3>3
    <3>5. j \in Nat /\ k \in Nat /\ i \in Nat
      BY <1>0, <1>7
    <3> QED BY <3>4, <3>5
  <2>5. \A f \in Range(pollfds') : fdt'[f] \notin Range(backlog)
    BY <1>6, <1>9, <1>10
  <2> QED BY <1>2, <1>6, <2>3, <2>4, <2>5 DEF ConnectionsPlaced
<1>13. FdsAccounted'
  <2>1. ASSUME NEW g \in Fds, fdt'[g] # Free
        PROVE  \/ g \in Range(pollfds')
               \/ \E k \in Key : \E j \in DOMAIN registry'[k] : registry'[k][j].fd = g
               \/ g \in {l.fd : l \in lost}
    <3>1. g \notin D /\ fdt[g] # Free /\ g # s
      BY <1>3, <1>5, <2>1
    <3>2. CASE g \in FdsAt(Key)
      <4>0. PICK k \in Key : \E j \in DOMAIN registry[k] : registry[k][j].fd = g
        BY <3>2, FdsAtMember
      <4>1. k[1] # s
        BY <1>5, <3>1, <4>0
      <4> QED BY <1>4, <4>0, <4>1
    <3> QED BY <1>9, <3>1, <3>2 DEF Inv, FdsAccounted
  <2> QED BY <1>2, <1>4, <2>1, FdsAtMember, ZenonT(40) DEF FdsAccounted, Serving, FdsAt, NodesAt
<1>14. ConnsMade' /\ StartIsEmpty'
  BY <1>2, <1>4 DEF Inv, ConnsMade, StartIsEmpty
<1> QED BY <1>1, <1>11, <1>12, <1>13, <1>14 DEF Inv

\* accept(): the oldest pending connection moves to a slot and a number of its own.
LEMMA AcceptInv == ASSUME Inv, Accept PROVE Inv'
<1>0. /\ TypeOK /\ pollfds \in Seq(Fds) /\ backlog \in Seq(Conns) /\ backlog # <<>>
      /\ fdt \in [Fds -> {Free} \cup Conns \cup EventHandles]
      /\ pc = "clients" /\ pc' = "poll" /\ Serving /\ Serving'
  BY DEF Inv, TypeInv, TypeOK, ClientTypeOK, ServerTypeOK, ReadyIsPending, Accept,
         EndOfRound, Serving
<1>1. TypeInv'
  BY TypeServer DEF Inv, Server
<1>2. PICK f \in Fds : /\ fdt[f] = Free
                       /\ fdt' = [fdt EXCEPT ![f] = Head(backlog)]
                       /\ pollfds' = Append(pollfds, f)
  BY ZenonT(40) DEF Accept, NewFd
<1>3. PICK b \in Conns : b = Head(backlog)
  BY <1>0, HeadTailProperties
<1>4. backlog' = Tail(backlog) /\ UNCHANGED <<daemonEnd, nconn, registry, lost>>
  BY DEF Accept
<1>5. fdt'[f] = b /\ \A g \in Fds : g \notin {f} => fdt'[g] = fdt[g]
  BY <1>0, <1>2, <1>3
<1>6. /\ daemonEnd = Range(backlog) \cup {fdt[g] : g \in Range(pollfds)}
      /\ \A j, k \in DOMAIN pollfds : fdt[pollfds[j]] = fdt[pollfds[k]] => j = k
      /\ \A j, k \in DOMAIN backlog : backlog[j] = backlog[k] => j = k
      /\ \A g \in Range(pollfds) : fdt[g] \notin Range(backlog)
  BY <1>0 DEF Inv, ConnectionsPlaced
<1>7. /\ DOMAIN pollfds' = 1..(Len(pollfds) + 1) /\ pollfds'[Len(pollfds) + 1] = f
      /\ \A j \in 1..Len(pollfds) : pollfds'[j] = pollfds[j]
      /\ DOMAIN pollfds = 1..Len(pollfds) /\ Len(pollfds) \in Nat
  BY <1>0, <1>2
<1>8. /\ DOMAIN backlog = 1..Len(backlog) /\ Len(backlog) \in Nat \ {0}
      /\ DOMAIN backlog' = 1..(Len(backlog) - 1) /\ backlog[1] = b
      /\ \A j \in 1..(Len(backlog) - 1) : backlog'[j] = backlog[j + 1]
  BY <1>0, <1>3, <1>4
<1>9. Range(pollfds') = Range(pollfds) \cup {f}
  <2>1. ASSUME NEW x PROVE x \in Range(pollfds') <=> x \in Range(pollfds) \cup {f}
    BY <1>7 DEF Range
  <2> QED BY <2>1
<1>10. Range(backlog) = Range(backlog') \cup {b} /\ b \notin Range(backlog')
  <2>1. \A j \in DOMAIN backlog' : j + 1 \in DOMAIN backlog /\ j + 1 # 1
                                   /\ backlog'[j] = backlog[j + 1]
    BY <1>8
  <2>2. 1 \in DOMAIN backlog
    BY <1>8
  <2>3. b \notin Range(backlog')
    BY <1>6, <1>8, <2>1, <2>2 DEF Range
  <2>4. \A j \in DOMAIN backlog : j = 1 \/ (j - 1 \in DOMAIN backlog' /\ (j - 1) + 1 = j)
    BY <1>8
  <2>5. \A j \in DOMAIN backlog : backlog[j] = b \/ backlog[j] \in Range(backlog')
    <3>1. ASSUME NEW j \in DOMAIN backlog, j # 1 PROVE backlog[j] = backlog'[j - 1]
      BY <2>1, <2>4, <3>1
    <3> QED BY <1>8, <2>4, <3>1 DEF Range
  <2>6. \A x \in Range(backlog') : x \in Range(backlog)
    BY <2>1 DEF Range
  <2>7. b \in Range(backlog)
    BY <1>8, <2>2 DEF Range
  <2>8. \A x \in Range(backlog) : x = b \/ x \in Range(backlog')
    BY <2>5 DEF Range
  <2> QED BY <2>3, <2>6, <2>7, <2>8
<1>11. f \notin Range(pollfds) /\ \A g \in Range(pollfds) : g \in Fds /\ fdt'[g] = fdt[g]
  <2>1. f \notin Range(pollfds)
    BY <1>0, <1>2, UnusedFd
  <2>2. \A g \in Range(pollfds) : g \in Fds
    BY <1>0, RangeInSeq
  <2> QED BY <1>5, <2>1, <2>2
<1>12. NodesOwned' /\ EventfdsDistinct'
  <2>1. ASSUME NEW k \in Key, NEW j \in DOMAIN registry[k]
        PROVE  registry[k][j].fd \notin {f} /\ k[1] \notin {f} /\ k[1] \in Range(pollfds')
    BY <1>0, <1>2, <1>9, UnusedFd DEF Inv, NodesOwned
  <2> QED BY <1>4, <1>5, <2>1, ListsKept, ZenonT(40)
<1>13. ConnectionsPlaced'
  <2>1. {fdt'[g] : g \in Range(pollfds')} = {fdt[g] : g \in Range(pollfds)} \cup {b}
    BY <1>5, <1>9, <1>11
  <2>2. daemonEnd' = Range(backlog') \cup {fdt'[g] : g \in Range(pollfds')}
    BY <1>4, <1>6, <1>10, <2>1
  <2>3. \A j \in DOMAIN pollfds : /\ fdt'[pollfds[j]] = fdt[pollfds[j]]
                                  /\ fdt[pollfds[j]] # b
    BY <1>6, <1>10, <1>11 DEF Range
  <2>4. \A j, k \in DOMAIN pollfds' : fdt'[pollfds'[j]] = fdt'[pollfds'[k]] => j = k
    <3>1. \A j \in DOMAIN pollfds' :
            \/ j = Len(pollfds) + 1 /\ fdt'[pollfds'[j]] = b
            \/ /\ j \in DOMAIN pollfds
               /\ fdt'[pollfds'[j]] = fdt[pollfds[j]] /\ fdt[pollfds[j]] # b
      BY <1>5, <1>7, <2>3
    <3> QED BY <1>6, <3>1
  <2>5. \A j, k \in DOMAIN backlog' : backlog'[j] = backlog'[k] => j = k
    <3>1. ASSUME NEW j \in DOMAIN backlog', NEW k \in DOMAIN backlog', backlog'[j] = backlog'[k]
          PROVE  j = k
      <4>1. backlog[j + 1] = backlog[k + 1] /\ j + 1 \in DOMAIN backlog /\ k + 1 \in DOMAIN backlog
        BY <1>8, <3>1
      <4>2. j + 1 = k + 1
        BY <1>6, <4>1
      <4> QED BY <1>8, <4>2
    <3> QED BY <3>1
  <2>6. \A g \in Range(pollfds') : fdt'[g] \notin Range(backlog')
    BY <1>5, <1>6, <1>9, <1>10, <1>11
  <2> QED BY <2>2, <2>4, <2>5, <2>6 DEF ConnectionsPlaced
<1>14. FdsAccounted'
  <2>1. ASSUME NEW g \in Fds, fdt'[g] # Free
        PROVE  g \in Range(pollfds') \/ g \in FdsAt(Key) \/ g \in {l.fd : l \in lost}
    <3>1. CASE g = f
      BY <1>9, <3>1
    <3>2. CASE g # f
      BY <1>5, <1>9, <2>1, <3>2 DEF Inv, FdsAccounted
    <3> QED BY <3>1, <3>2
  <2> QED BY <1>0, <1>4, <2>1 DEF FdsAccounted, FdsAt, NodesAt
<1>15. ConnsMade' /\ StartIsEmpty'
  BY <1>0, <1>4 DEF Inv, ConnsMade, StartIsEmpty
<1> QED BY <1>1, <1>12, <1>13, <1>14, <1>15 DEF Inv

\* The exit path closes every socket and every eventfd of the registry.
LEMMA ShutdownInv == ASSUME Inv, Shutdown PROVE Inv'
<1>1. TypeInv'
  BY TypeServer DEF Inv, Server
<1>2. /\ ~Serving' /\ pc' # "start" /\ daemonEnd' = {} /\ UNCHANGED lost
      /\ fdt' = Closed(FdsAt(Key) \cup Range(pollfds))
      /\ \A k \in Key : registry'[k] = <<>>
  BY DEF Shutdown, Serving, unregister_all_events
<1>3. ConnsMade' /\ StartIsEmpty' /\ ConnectionsPlaced'
  BY <1>2 DEF ConnsMade, StartIsEmpty, ConnectionsPlaced
<1>4. NodesOwned' /\ EventfdsDistinct'
  BY <1>2 DEF NodesOwned, EventfdsDistinct
<1>5. FdsAccounted'
  <2>1. ASSUME NEW g \in Fds, fdt'[g] # Free PROVE g \in {l.fd : l \in lost}
    BY <1>2, <2>1 DEF Closed, Inv, FdsAccounted
  <2> QED BY <1>2, <2>1, Zenon DEF FdsAccounted
<1> QED BY <1>1, <1>3, <1>4, <1>5 DEF Inv

\* Nothing is registered, connected or open at the start.
LEMMA InvInit == Init => Inv
<1> SUFFICES ASSUME Init PROVE Inv
  OBVIOUS
<1>1. /\ daemonEnd = {} /\ pollfds = <<>> /\ backlog = <<>> /\ \A k \in Key : registry[k] = <<>>
      /\ \A f \in Fds : fdt[f] = Free
  BY DEF Init, ClientInit, ServerInit
<1>2. Range(pollfds) = {} /\ Range(backlog) = {}
  BY <1>1 DEF Range
<1>3. ConnsMade /\ StartIsEmpty /\ NodesOwned /\ EventfdsDistinct /\ FdsAccounted
  BY <1>1 DEF ConnsMade, StartIsEmpty, NodesOwned, EventfdsDistinct, FdsAccounted
<1>4. ConnectionsPlaced
  BY <1>1, <1>2 DEF ConnectionsPlaced
<1> QED BY <1>3, <1>4, TypeInit DEF Inv

\* One case per step of server_thread, of the library and of SIGINT.
LEMMA InvStep == Inv /\ [Next]_vars => Inv'
<1> SUFFICES ASSUME Inv, [Next]_vars PROVE Inv'
  OBVIOUS
<1>0. TypeInv
  BY DEF Inv
<1>1. CASE Server
  <2>0. TypeInv'
    BY <1>0, <1>1, TypeServer
  <2>1. CASE Listen
    <3>1. /\ UNCHANGED <<fdt, registry, pollfds, backlog, daemonEnd, nconn, lost>>
          /\ pc = "start" /\ Serving /\ pc' # "start"
      BY <2>1 DEF Listen, Serving
    <3> QED BY <2>0, <3>1, Untouched
  <2>2. CASE Poll \/ SkipClient \/ RecvError \/ EndRound
    <3>1. /\ UNCHANGED <<fdt, registry, pollfds, backlog, daemonEnd, nconn, lost>>
          /\ Serving /\ Serving' /\ pc' # "start"
      BY <2>2 DEF Poll, SkipClient, RecvError, EndRound, EndOfRound, NextClient, Serving,
                  clientVars
    <3>2. Serving' = Serving
      BY <3>1 DEF Serving
    <3> QED BY <2>0, <3>1, <3>2, Untouched
  <2>3. CASE \E c \in Conns : Receive(c)
    BY <2>3, ReceiveInv
  <2>4. CASE remove_client
    BY <2>4, RemoveClientInv
  <2>5. CASE Accept
    BY <2>5, AcceptInv
  <2>6. CASE Shutdown
    BY <2>6, ShutdownInv
  <2> QED BY <1>1, <2>1, <2>2, <2>3, <2>4, <2>5, <2>6 DEF Server
<1>2. CASE ClientNext /\ UNCHANGED serverVars
  BY <1>2, ClientInv
<1>3. CASE sig_handler \/ UNCHANGED vars
  <2>1. TypeInv'
    BY <1>0, TypeStep
  <2>2. UNCHANGED <<pc, fdt, registry, pollfds, backlog, daemonEnd, nconn, lost>>
    BY <1>3 DEF sig_handler, vars, clientVars, serverVars
  <2> QED BY <2>1, <2>2, Untouched DEF Serving
<1> QED BY <1>1, <1>2, <1>3 DEF Next

\* The inductive invariant of the event service, from which the theorems below
\* follow: the registry, pollfds, the backlog and the descriptor table agree.
THEOREM InvAlways == Spec => []Inv
BY InvInit, InvStep, PTL DEF Spec

\* Whatever order clients connect, register, unregister and close in, and whatever
\* descriptor numbers the kernel hands out again, a node of event_registry_list
\* belongs to the connection that is on its conn_socket now and has an eventfd of
\* its own.
THEOREM RegistryAlwaysOwned == Spec => []RegistryOwned
<1>1. Inv => RegistryOwned
  BY Zenon DEF Inv, NodesOwned, EventfdsDistinct, RegistryOwned
<1> QED BY InvAlways, <1>1, PTL

\* While the server thread runs, each open connection is in the backlog or in one
\* slot of pollfds, and in one place only.
THEOREM ConnectionsAlwaysPlaced == Spec => []ConnectionsPlaced
<1>1. Inv => ConnectionsPlaced
  BY DEF Inv
<1> QED BY InvAlways, <1>1, PTL

\* remove_client, unregister_event and the exit path leave no descriptor open but
\* those of registrations that malloc() failed.
THEOREM FdsAlwaysAccounted == Spec => []FdsAccounted
<1>1. Inv => FdsAccounted
  BY DEF Inv
<1> QED BY InvAlways, <1>1, PTL

\* The pollfds array of server_thread is never overrun: accept() finds a slot.
THEOREM ConnectionsAlwaysBounded == Spec => []ConnectionsBounded
<1> DEFINE B == TypeInv /\ ConnectionsBounded
<1>1. Init => B
  BY TypeInit, ServerAssumption DEF Init, ServerInit, ConnectionsBounded
<1>2. B /\ [Next]_vars => B'
  <2> SUFFICES ASSUME TypeInv, ConnectionsBounded, [Next]_vars PROVE B'
    OBVIOUS
  <2>1. pollfds \in Seq(Fds) /\ Len(pollfds) \in Nat /\ MAX_CLIENT_CONNECTIONS \in Nat
    BY ServerAssumption DEF TypeInv, TypeOK, ServerTypeOK
  <2>2. ASSUME UNCHANGED pollfds PROVE ConnectionsBounded'
    BY <2>2 DEF ConnectionsBounded
  <2>3. ASSUME remove_client PROVE ConnectionsBounded'
    <3>1. i \in Nat \ {0}
      BY DEF TypeInv, TypeOK, ServerTypeOK
    <3>2. i <= Len(pollfds) /\ pollfds' = RemoveSlot(pollfds, i)
      BY <2>3, ZenonT(40) DEF remove_client
    <3>3. i \in 1..Len(pollfds)
      BY <2>1, <3>1, <3>2
    <3>4. Len(pollfds') = Len(pollfds) - 1
      BY <2>1, <3>2, <3>3, RemoveSlotProperties
    <3> QED BY <2>1, <3>4 DEF ConnectionsBounded
  <2>4. ASSUME Accept PROVE ConnectionsBounded'
    BY <2>1, <2>4 DEF Accept, RoomForClient, ConnectionsBounded
  <2>5. ASSUME Listen \/ Poll \/ SkipClient \/ RecvError \/ EndRound \/ Shutdown
        PROVE  UNCHANGED pollfds
    BY <2>5 DEF Listen, Poll, SkipClient, RecvError, EndRound, Shutdown
  <2>6. ASSUME \E c \in Conns : Receive(c) PROVE UNCHANGED pollfds
    BY <2>6, ZenonT(40) DEF Receive
  <2>7. ASSUME (ClientNext /\ UNCHANGED serverVars) \/ sig_handler \/ UNCHANGED vars
        PROVE  UNCHANGED pollfds
    BY <2>7 DEF sig_handler, serverVars, vars
  <2>8. ConnectionsBounded'
    <3>1. CASE UNCHANGED pollfds
      BY <3>1, <2>2
    <3> QED BY <3>1, <2>3, <2>4, <2>5, <2>6, <2>7 DEF Next, Server
  <2> QED BY <2>8, TypeStep
<1>3. B => ConnectionsBounded
  OBVIOUS
<1> QED BY <1>1, <1>2, <1>3, PTL DEF Spec
=============================================================================
