---------------------------- MODULE EventServer ----------------------------
(***************************************************************************)
(* The event server of fpgad (tools/base/fpgad/srv.c).  server_thread      *)
(* polls its listening socket and the client connections, handles at most  *)
(* one request per ready connection per round, and then accepts at most    *)
(* one connection.  The registry it maintains is walked by the logger      *)
(* thread under list_lock (EventDelivery), so every operation on it is one *)
(* step.  An operator X_Fault beside X is X with a plausible mistake in    *)
(* it, for trying the properties on; no specification uses it.             *)
(***************************************************************************)
EXTENDS EventClient, FiniteSets, SequencesExt

CONSTANTS
  Fds,                    \* descriptor numbers the daemon's process can use
  MAX_CLIENT_CONNECTIONS,
  MaxLost                 \* bound: registrations lost for want of memory

ASSUME ServerAssumption ==
  MAX_CLIENT_CONNECTIONS \in Nat /\ MaxLost \in Nat /\ Fds \subseteq Nat

VARIABLES
  running,    \* config.running, cleared by the SIGINT handler
  pc,         \* where server_thread is
  pollfds,    \* pollfds[FIRST_CLIENT_SOCKET .. num_fds-1].fd
  revents,    \* the client sockets poll() reported
  srvReady,   \* pollfds[SRV_SOCKET].revents
  i,          \* loop index of server_thread
  fdt,        \* the process' descriptor table: what a number refers to
  registry,   \* event_registry_list: the nodes of each key, newest first
  lost        \* registrations received and dropped for want of memory

serverVars == <<running, pc, pollfds, revents, srvReady, i, fdt, registry, lost>>
vars == <<clientVars, serverVars>>

Free == 0      \* an unused descriptor number

FIRST_CLIENT_SOCKET_At2 == 2
FIRST_CLIENT_SOCKET == 1

\* accept() finds num_fds below MAX_CLIENT_CONNECTIONS+1.
RoomForClient_OneLess == Len(pollfds) + 1 < MAX_CLIENT_CONNECTIONS
RoomForClient == Len(pollfds) < MAX_CLIENT_CONNECTIONS

\* The number a new descriptor gets: POSIX gives the lowest one unused, so numbers
\* are used again as soon as they can be.
NewFd(f) == fdt[f] = Free /\ \A g \in Fds : fdt[g] = Free => f <= g

\* A node of event_registry_list: its eventfd, and the connection that asked for
\* it, which the code does not record.
Node == [fd : Fds, from : Conns]

\* What unregister_event compares: conn_socket, event and object_id.
Key == Fds \X Events \X Objects

\* The nodes of a set of keys, and the descriptors they hold.
NodesAt(keys) == UNION {Range(registry[k]) : k \in keys}
FdsAt(keys) == {n.fd : n \in NodesAt(keys)}
KeysOf(s) == {k \in Key : k[1] = s}

ServerTypeOK ==
  /\ running \in BOOLEAN
  /\ pc \in {"start", "poll", "clients", "exited"}
  /\ pollfds \in Seq(Fds)
  /\ revents \in SUBSET Fds
  /\ srvReady \in BOOLEAN
  /\ i \in Nat \ {0}
  /\ fdt \in [Fds -> {Free} \cup Conns \cup EventHandles]
  /\ registry \in [Key -> Seq(Node)]
  /\ lost \in SUBSET [from : Conns, event : Events, fd : Fds]

\* The type invariant of the event service: srv.c's statics and the library's
\* per-handle connection keep their types.
TypeOK == ClientTypeOK /\ ServerTypeOK

ServerInit ==
  /\ running = TRUE
  /\ pc = "start"
  /\ pollfds = <<>>
  /\ revents = {}
  /\ srvReady = FALSE
  /\ i = 1
  /\ fdt = [f \in Fds |-> Free]
  /\ registry = [k \in Key |-> <<>>]
  /\ lost = {}

Init == ClientInit /\ ServerInit

-----------------------------------------------------------------------------
(* The registry *)

\* The list matters only through what is on it and, among the nodes with one key,
\* which comes first: register_event adds at the head, unregister_event takes the
\* first match.
register_event(s, f, req) ==
  registry' = [registry EXCEPT ![<<s, req.event, req.object>>] =
                 Cons([fd |-> f, from |-> fdt[s]], @)]

\* close() on a set of descriptors.
Closed(fds) == [f \in Fds |-> IF f \in fds THEN Free ELSE fdt[f]]

unregister_event_NotHead(s, ev, o) ==
  LET k == <<s, ev, o>> IN
  IF Len(registry[k]) <= 1
  THEN UNCHANGED <<registry, fdt>>
  ELSE /\ registry' = [registry EXCEPT ![k] = Tail(@)]
       /\ fdt' = Closed({Head(registry[k]).fd})

unregister_event_NoClose(s, ev, o) ==
  LET k == <<s, ev, o>> IN
  /\ registry' = [registry EXCEPT ![k] = IF @ = <<>> THEN @ ELSE Tail(@)]
  /\ UNCHANGED fdt

unregister_event(s, ev, o) ==
  LET k == <<s, ev, o>> IN
  IF registry[k] = <<>>
  THEN UNCHANGED <<registry, fdt>>
  ELSE /\ registry' = [registry EXCEPT ![k] = Tail(@)]
       /\ fdt' = Closed({Head(registry[k]).fd})

unregister_all_events_for_None(s) == UNCHANGED registry

unregister_all_events_for(s) ==
  registry' = [k \in Key |-> IF k \in KeysOf(s) THEN <<>> ELSE registry[k]]

unregister_all_events == registry' = [k \in Key |-> <<>>]

-----------------------------------------------------------------------------
(* server_thread *)

\* Socket, bind and listen; any of them failing ends the thread.
Listen ==
  /\ pc = "start"
  /\ \/ pc' = "poll" /\ listening' = TRUE
     \/ pc' = "exited" /\ UNCHANGED listening
  /\ UNCHANGED <<fdfpgad, nconn, queue, backlog, daemonEnd, want, running, pollfds,
                 revents, srvReady, i, fdt, registry, lost>>

\* poll(): a connection is ready when there is a request to read or its client
\* end is closed.  A timeout or an error goes round the loop unchanged.
Ready_NoHangup(f) == queue[fdt[f]] # <<>>

Ready(f) == queue[fdt[f]] # <<>> \/ ~ClientEndOpen(fdt[f])

Poll ==
  /\ pc = "poll"
  /\ running
  /\ revents' = {f \in Range(pollfds) : Ready(f)}
  /\ srvReady' = (backlog # <<>>)
  /\ revents' # {} \/ srvReady'
  /\ i' = FIRST_CLIENT_SOCKET
  /\ pc' = "clients"
  /\ UNCHANGED <<clientVars, running, pollfds, fdt, registry, lost>>

NextClient ==
  /\ i' = i + 1
  /\ UNCHANGED <<pc, revents, srvReady, running>>

\* No revents on pollfds[i].
SkipClient ==
  /\ pc = "clients" /\ i <= Len(pollfds)
  /\ pollfds[i] \notin revents
  /\ NextClient
  /\ UNCHANGED <<clientVars, pollfds, fdt, registry, lost>>

\* recvmsg() failing in handle_message: the connection stays.
RecvError ==
  /\ pc = "clients" /\ i <= Len(pollfds)
  /\ pollfds[i] \in revents
  /\ NextClient
  /\ UNCHANGED <<clientVars, pollfds, fdt, registry, lost>>

\* handle_message of the request at the head of connection c.
Receive(c) ==
  /\ pc = "clients" /\ i <= Len(pollfds)
  /\ pollfds[i] \in revents
  /\ fdt[pollfds[i]] = c
  /\ queue[c] # <<>>
  /\ queue' = [queue EXCEPT ![c] = Tail(@)]
  /\ NextClient
  /\ LET s == pollfds[i]
         req == Head(queue[c])
     IN \/ /\ req.type = "REGISTER_EVENT"
           /\ \E f \in Fds :
                /\ NewFd(f)
                /\ fdt' = [fdt EXCEPT ![f] = req.eh]
                /\ \/ /\ register_event(s, f, req)
                      /\ UNCHANGED lost
                   \/ /\ Cardinality(lost) < MaxLost
                      /\ lost' = lost \cup
                           {[from |-> c, event |-> req.event, fd |-> f]}
                      /\ UNCHANGED registry
        \/ /\ req.type = "UNREGISTER_EVENT"
           /\ unregister_event(s, req.event, req.object)
           /\ UNCHANGED lost
  /\ UNCHANGED <<listening, fdfpgad, nconn, backlog, daemonEnd, want, pollfds>>

\* remove_client: pollfds closes up over the removed slot, so the loop's next
\* index passes over the connection that moved into it.
RemoveSlot_Keep(s, k) == s

RemoveSlot(s, k) == RemoveAt(s, k)

remove_client ==
  /\ pc = "clients" /\ i <= Len(pollfds)
  /\ pollfds[i] \in revents
  /\ LET s == pollfds[i]
         c == fdt[s]
     IN /\ queue[c] = <<>>
        /\ ~ClientEndOpen(c)
        /\ unregister_all_events_for(s)
        /\ fdt' = Closed(FdsAt(KeysOf(s)) \cup {s})
        /\ daemonEnd' = daemonEnd \ {c}
  /\ pollfds' = RemoveSlot(pollfds, i)
  /\ NextClient
  /\ UNCHANGED <<listening, fdfpgad, nconn, queue, backlog, want, lost>>

\* The end of a round.  What poll() reported is not read again.
EndOfRound ==
  /\ pc = "clients" /\ i > Len(pollfds)
  /\ pc' = "poll"
  /\ revents' = {} /\ srvReady' = FALSE /\ i' = 1

\* ... without a new connection: nobody connecting, no room, or accept() failing.
EndRound ==
  /\ EndOfRound
  /\ UNCHANGED <<clientVars, running, pollfds, fdt, registry, lost>>

\* ... and with one, in the first unused slot of pollfds.
Accept ==
  /\ EndOfRound
  /\ srvReady
  /\ RoomForClient
  /\ \E f \in Fds :
       /\ NewFd(f)
       /\ fdt' = [fdt EXCEPT ![f] = Head(backlog)]
       /\ pollfds' = Append(pollfds, f)
  /\ backlog' = Tail(backlog)
  /\ UNCHANGED <<listening, fdfpgad, nconn, queue, daemonEnd, want, running, registry,
                 lost>>

\* The loop's condition, tested once a round.
Stopped_WhenIdle == ~running /\ pollfds = <<>>

Stopped == ~running

\* Leaving the loop: unregister_all_events and closing every socket.
Shutdown ==
  /\ pc = "poll"
  /\ Stopped
  /\ pc' = "exited"
  /\ unregister_all_events
  /\ fdt' = Closed(FdsAt(Key) \cup Range(pollfds))
  /\ daemonEnd' = {}
  /\ backlog' = <<>>
  /\ queue' = [c \in Conns |-> <<>>]
  /\ listening' = FALSE
  /\ UNCHANGED <<fdfpgad, nconn, want, running, pollfds, revents, srvReady, i,
                 lost>>

Server ==
  \/ Listen \/ Poll \/ SkipClient \/ RecvError
  \/ \E c \in Conns : Receive(c)
  \/ remove_client \/ EndRound \/ Accept \/ Shutdown

-----------------------------------------------------------------------------
(* The rest of the process *)

\* SIGINT.
sig_handler ==
  /\ running
  /\ running' = FALSE
  /\ UNCHANGED <<clientVars, pc, pollfds, revents, srvReady, i, fdt, registry, lost>>

Next ==
  \/ Server
  \/ ClientNext /\ UNCHANGED serverVars
  \/ sig_handler

Spec == Init /\ [][Next]_vars

\* The thread is scheduled, and recvmsg() and accept() do not fail for ever.
FairSpec ==
  /\ Spec
  /\ WF_vars(Server)
  /\ \A c \in Conns : SF_vars(Receive(c))
  /\ SF_vars(remove_client)
  /\ SF_vars(Accept)

-----------------------------------------------------------------------------
(* Properties *)

Serving == pc # "exited"

\* Every connection whose daemon end is open waits in the backlog or sits in one
\* slot of pollfds, never both and never twice: remove_client, which drops every
\* slot with the socket's number, drops one, and no connection is left unpolled.
ConnectionsPlaced ==
  Serving =>
    /\ daemonEnd = Range(backlog) \cup {fdt[f] : f \in Range(pollfds)}
    /\ \A j, k \in DOMAIN pollfds : fdt[pollfds[j]] = fdt[pollfds[k]] => j = k
    /\ \A j, k \in DOMAIN backlog : backlog[j] = backlog[k] => j = k
    /\ \A f \in Range(pollfds) : fdt[f] \notin Range(backlog)

\* Every node of the registry belongs to the connection that is on its socket
\* number now, and holds an eventfd of its own: a socket number that the kernel
\* hands out again never inherits the registrations of its previous client.
RegistryOwned ==
  \A k \in Key : \A j \in DOMAIN registry[k] :
    /\ k[1] \in Range(pollfds)
    /\ fdt[k[1]] = registry[k][j].from
    /\ fdt[registry[k][j].fd] \in EventHandles
    /\ \A q \in Key : \A m \in DOMAIN registry[q] :
         registry[q][m].fd = registry[k][j].fd => q = k /\ m = j

\* A descriptor that is open is a live connection, is held by a node of the
\* registry, or came with a registration that malloc() failed: remove_client,
\* unregister_event and the exit path close everything else.
FdsAccounted ==
  \A f \in Fds : fdt[f] # Free =>
    \/ Serving /\ f \in Range(pollfds)
    \/ f \in FdsAt(Key)
    \/ f \in {l.fd : l \in lost}

\* pollfds has MAX_CLIENT_CONNECTIONS client slots and is never overrun.
ConnectionsBounded == Len(pollfds) <= MAX_CLIENT_CONNECTIONS

\* What the daemon holds for a connection without unread requests is what the
\* calls of its handle that returned FPGA_OK left registered, less what was lost
\* for want of memory.
Served(c) ==
  UNION {{<<k[2], fdt[n.fd]>> : n \in {m \in NodesAt({k}) : m.from = c}} : k \in Key}

Dropped(c) == {<<l.event, fdt[l.fd]>> : l \in {m \in lost : m.from = c}}

ServedAsAsked ==
  \A h \in Handles :
    LET c == fdfpgad[h] IN
    c \in daemonEnd /\ queue[c] = <<>> =>
      /\ Served(c) \subseteq want[h]
      /\ want[h] \subseteq Served(c) \cup Dropped(c)

\* The registrations held, as the clients know them, and the connections closed.
HeldRegs ==
  UNION {{[conn |-> m.from, event |-> k[2], object |-> k[3], eh |-> fdt[m.fd]] :
            m \in NodesAt({k})} : k \in Key}

Service == INSTANCE EventService WITH regs <- HeldRegs, gone <- (1..nconn) \ daemonEnd

\* The server implements EventService: every step adds or drops one registration of
\* a live connection, drops a closed connection's registrations and no others, or
\* changes nothing a client can see, whatever numbers the kernel reuses.
ServiceSpec == Service!Spec

\* Once a client has closed its connection the daemon forgets its registrations,
\* although remove_client makes the round skip the connection behind it.
ClosedIsForgotten ==
  \A c \in Conns :
    (c \in daemonEnd /\ c \notin Range(backlog) /\ ~ClientEndOpen(c))
      ~> (c \notin daemonEnd /\ \A n \in NodesAt(Key) : n.from # c)

\* A connection with unread requests is read: no client starves behind others.
RequestsAreRead ==
  \A c \in Conns :
    (c \in daemonEnd /\ c \notin Range(backlog) /\ Len(queue[c]) = MaxQueue)
      ~> (Len(queue[c]) < MaxQueue)

\* A connection in the backlog is accepted if there is room again and again.
PendingIsAccepted ==
  \A c \in Conns :
    []<>(Len(pollfds) < MAX_CLIENT_CONNECTIONS)
      => (c \in Range(backlog) ~> c \notin Range(backlog))

\* SIGINT ends the server thread, with every descriptor it held closed.
SigintEndsServer == ~running ~> (pc = "exited" /\ NodesAt(Key) = {})
=============================================================================
