---------------------------- MODULE EventClient ----------------------------
(***************************************************************************)
(* The library's side of the event service of fpgad.  A handle whose       *)
(* driver has no interrupt support registers its events with the daemon    *)
(* over a UNIX stream socket, fdfpgad, that it connects on first use       *)
(* (daemon_register_event and daemon_unregister_event of xfpga/event.c).   *)
(* The socket is created, connected and written by one API call under the  *)
(* handle's lock, and the daemon sees only the pending connection and the  *)
(* bytes in it, so a call is one step here.                                *)
(***************************************************************************)
EXTENDS Naturals, Sequences

CONSTANTS
  Handles,        \* open fpga_handles
  EventHandles,   \* fpga_event_handles, each with its eventfd
  Events,         \* fpga_event_type
  Objects,        \* object ids
  ObjectOf,       \* the object id of the resource a handle was opened on
  MaxConns,       \* bound: connections made to the daemon over a behaviour
  MaxQueue,       \* bound: requests unread on one connection
  Backlog,        \* pending connections before connect() blocks
  OneHandlePerEvent \* clients keep one event handle per handle and event

ASSUME ClientAssumption ==
  /\ ObjectOf \in [Handles -> Objects]
  /\ MaxConns \in Nat /\ MaxQueue \in Nat /\ Backlog \in Nat
  /\ EventHandles \cap Nat = {}
  /\ OneHandlePerEvent \in BOOLEAN

VARIABLES
  listening,  \* the daemon's server socket accepts connect()
  fdfpgad,    \* connection of each handle, NoConn when it has none
  nconn,      \* connections made so far; they are numbered 1..nconn
  queue,      \* requests written to a connection and not yet read
  backlog,    \* connections the daemon has yet to accept, oldest first
  daemonEnd,  \* connections whose daemon end is open (pending or accepted)
  want        \* per handle, the <<event, event handle>> pairs its calls that
              \* returned FPGA_OK left registered

clientVars == <<listening, fdfpgad, nconn, queue, backlog, daemonEnd, want>>

NoConn == 0
Conns == 1..MaxConns

\* struct event_request; eh is the descriptor sent along with SCM_RIGHTS, which
\* only a registration carries.
Request ==
  [type : {"REGISTER_EVENT"}, event : Events, object : Objects, eh : EventHandles]
  \cup [type : {"UNREGISTER_EVENT"}, event : Events, object : Objects]

ClientEndOpen(c) == \E h \in Handles : fdfpgad[h] = c

ClientTypeOK ==
  /\ listening \in BOOLEAN
  /\ fdfpgad \in [Handles -> {NoConn} \cup Conns]
  /\ nconn \in 0..MaxConns
  /\ queue \in [Conns -> Seq(Request)]
  /\ backlog \in Seq(Conns)
  /\ daemonEnd \in SUBSET Conns
  /\ want \in [Handles -> SUBSET (Events \X EventHandles)]

ClientInit ==
  /\ listening = FALSE
  /\ fdfpgad = [h \in Handles |-> NoConn]
  /\ nconn = 0
  /\ queue = [c \in Conns |-> <<>>]
  /\ backlog = <<>>
  /\ daemonEnd = {}
  /\ want = [h \in Handles |-> {}]

-----------------------------------------------------------------------------
RegisterRequest(h, ev, eh) ==
  [type |-> "REGISTER_EVENT", event |-> ev, object |-> ObjectOf[h], eh |-> eh]

UnregisterRequest(h, ev) ==
  [type |-> "UNREGISTER_EVENT", event |-> ev, object |-> ObjectOf[h]]

\* What applications do: an event handle serves a single event (event.h), and,
\* when OneHandlePerEvent, an event of a handle has a single event handle.
MayRegister(h, ev, eh) ==
  /\ \A g \in Handles, e \in Events : <<e, eh>> \notin want[g]
  /\ OneHandlePerEvent => \A x \in EventHandles : <<ev, x>> \notin want[h]

\* connect() on a new socket; it blocks while the backlog is full.
Connect(c) ==
  /\ listening
  /\ Len(backlog) < Backlog
  /\ nconn < MaxConns /\ c = nconn + 1
  /\ nconn' = c
  /\ backlog' = Append(backlog, c)
  /\ daemonEnd' = daemonEnd \cup {c}

\* out_close_conn: the connection goes, and with it every registration made
\* through it.
CloseConn(h) ==
  /\ fdfpgad' = [fdfpgad EXCEPT ![h] = NoConn]
  /\ want' = [want EXCEPT ![h] = {}]

\* daemon_register_event on a handle without a connection.
RegisterFirst(h, ev, eh) ==
  /\ fdfpgad[h] = NoConn
  /\ MayRegister(h, ev, eh)
  /\ \E c \in Conns :
       /\ Connect(c)
       /\ fdfpgad' = [fdfpgad EXCEPT ![h] = c]
       /\ queue' = [queue EXCEPT ![c] = Append(@, RegisterRequest(h, ev, eh))]
       /\ want' = [want EXCEPT ![h] = @ \cup {<<ev, eh>>}]
  /\ UNCHANGED listening

\* ... and when its properties cannot be read or the request cannot be sent
\* once connected.
RegisterFirstFails(h) ==
  /\ fdfpgad[h] = NoConn
  /\ \E c \in Conns : Connect(c)
  /\ CloseConn(h)
  /\ UNCHANGED <<listening, queue>>

\* daemon_register_event on a connected handle.
RegisterNext(h, ev, eh) ==
  LET c == fdfpgad[h] IN
  /\ c \in daemonEnd
  /\ MayRegister(h, ev, eh)
  /\ Len(queue[c]) < MaxQueue
  /\ queue' = [queue EXCEPT ![c] = Append(@, RegisterRequest(h, ev, eh))]
  /\ want' = [want EXCEPT ![h] = @ \cup {<<ev, eh>>}]
  /\ UNCHANGED <<listening, fdfpgad, nconn, backlog, daemonEnd>>

\* daemon_unregister_event, of a registration the application holds.  The
\* request names the event and the object; nothing in it names eh.
UnregisterEvent(h, ev, eh) ==
  LET c == fdfpgad[h] IN
  /\ c \in daemonEnd
  /\ <<ev, eh>> \in want[h]
  /\ Len(queue[c]) < MaxQueue
  /\ queue' = [queue EXCEPT ![c] = Append(@, UnregisterRequest(h, ev))]
  /\ want' = [want EXCEPT ![h] = @ \ {<<ev, eh>>}]
  /\ UNCHANGED <<listening, fdfpgad, nconn, backlog, daemonEnd>>

\* Either call failing on a connected handle (properties, or a write to a
\* connection the daemon has closed), and xfpga_fpgaClose: the socket closes.
Disconnect(h) ==
  /\ fdfpgad[h] # NoConn
  /\ CloseConn(h)
  /\ UNCHANGED <<listening, nconn, queue, backlog, daemonEnd>>

ClientNext ==
  \E h \in Handles :
    \/ \E ev \in Events, eh \in EventHandles :
         \/ RegisterFirst(h, ev, eh)
         \/ RegisterNext(h, ev, eh)
         \/ UnregisterEvent(h, ev, eh)
    \/ RegisterFirstFails(h)
    \/ Disconnect(h)
=============================================================================
