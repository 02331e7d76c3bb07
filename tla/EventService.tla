---------------------------- MODULE EventService ----------------------------
(***************************************************************************)
(* What the event server promises: a set of registrations, each made       *)
(* through a connection.  Sockets, descriptors, polling rounds and the     *)
(* linked list of srv.c are not visible here; EventServer implements this  *)
(* specification.                                                          *)
(***************************************************************************)
CONSTANTS Conns, Events, Objects, EventHandles

VARIABLES
  regs,     \* registrations held
  gone      \* connections the daemon has closed

Registration == [conn : Conns, event : Events, object : Objects, eh : EventHandles]

TypeOK == regs \subseteq Registration /\ gone \subseteq Conns

Init == regs = {} /\ gone = {}

Register(r) ==
  /\ r.conn \notin gone
  /\ regs' = regs \cup {r}
  /\ UNCHANGED gone

\* One registration of the connection for the event and object goes.
Unregister(r) ==
  /\ r \in regs
  /\ regs' = regs \ {r}
  /\ UNCHANGED gone

\* Connections close, one or, when the daemon ends, all of them, and take their
\* registrations and no others with them.
Forget(cs) ==
  /\ gone' = gone \cup cs
  /\ regs' = {r \in regs : r.conn \notin cs}

Next ==
  \/ \E r \in Registration : Register(r) \/ Unregister(r)
  \/ \E cs \in SUBSET Conns : Forget(cs)

Spec == Init /\ [][Next]_<<regs, gone>>
=============================================================================
