------------------------------ MODULE AseMmio ------------------------------
(***************************************************************************)
(* MMIO between an application and the ASE simulator (app_backend.c,       *)
(* protocol_backend.c).  Threads of the application put requests into a    *)
(* scoreboard and a named pipe; the simulator answers through another      *)
(* pipe; a watcher thread finds the slot of an answer by its transaction   *)
(* id.  The port lock orders the requests, but neither the watcher nor a   *)
(* thread that takes its answer holds it.  Sessions end and start anew,    *)
(* and applications die, while the simulator and the pipes live on.        *)
(* An operator X_Fault beside X is X with a plausible mistake in it, for   *)
(* trying the properties on; no specification uses it.                     *)
(***************************************************************************)
EXTENDS Integers, SequencesExt, FiniteSets

CONSTANTS
  Threads,               \* threads of the application that do MMIO
  MMIO_MAX_OUTSTANDING,  \* scoreboard slots
  TidCount,              \* transaction ids, 2^MMIO_TID_BITWIDTH
  MaxRequests,           \* bound: requests over a behaviour
  MaxSessions,           \* bound: sessions over a behaviour
  None

Slots == 0 .. MMIO_MAX_OUTSTANDING - 1
Tids == 0 .. TidCount - 1

\* The code has 512 ids and 64 slots.
ASSUME MmioAssumption ==
  /\ MMIO_MAX_OUTSTANDING \in Nat \ {0}
  /\ TidCount \in Nat /\ TidCount > MMIO_MAX_OUTSTANDING
  /\ None \notin Threads

VARIABLES
  session,    \* how far session_init has come: none, reset, init, open
  table,      \* mmio_table
  glbl_tid,   \* io_s.glbl_mmio_tid, masked
  lock,       \* holder of io_s.mmio_port_lock
  thread,     \* what each thread is doing
  watcher,    \* the response watcher thread
  mmioreq,    \* the pipe to the simulator
  afu,        \* reads the AFU has still to answer
  mmiorsp,    \* the pipe from the simulator
  issued,     \* requests made so far: request n asks for datum n
  sessions,   \* sessions started so far
  reused,     \* an id was drawn while a slot still held it
  stale       \* a session started with an earlier one's packets under way

appVars == <<session, table, glbl_tid, lock, thread, watcher>>
simVars == <<mmioreq, afu, mmiorsp>>
bounds == <<issued, sessions>>
vars == <<appVars, simVars, bounds, reused, stale>>

Packet == [tid : Tids, write : BOOLEAN, id : 1 .. MaxRequests]

NewTable == [i \in Slots |-> [tx |-> FALSE, rx |-> FALSE, tid |-> 0, data |-> 0]]
IdleThread == [pc |-> "idle", pkt |-> None, slot |-> 0, got |-> 0]

Init ==
  /\ session = "none"
  /\ table = NewTable
  /\ glbl_tid = 0
  /\ lock = None
  /\ thread = [t \in Threads |-> IdleThread]
  /\ watcher = [pc |-> "off", pkt |-> None, slot |-> 0]
  /\ mmioreq = <<>> /\ afu = {} /\ mmiorsp = <<>>
  /\ issued = 0 /\ sessions = 0
  /\ reused = FALSE /\ stale = FALSE

-----------------------------------------------------------------------------
(* The scoreboard *)

count_mmio_tid_used == Cardinality({i \in Slots : table[i].tx})

Empty_TxOnly(i) == ~table[i].tx

Empty(i) == ~table[i].tx /\ ~table[i].rx

\* 0xFFFF is None.
get_scoreboard_slot_by_tid_Last(tid) ==
  LET found == {i \in Slots : table[i].tx /\ table[i].tid = tid}
  IN  IF found = {} THEN None ELSE CHOOSE i \in found : \A j \in found : j <= i

get_scoreboard_slot_by_tid(tid) ==
  LET found == {i \in Slots : table[i].tx /\ table[i].tid = tid}
  IN  IF found = {} THEN None ELSE CHOOSE i \in found : \A j \in found : i <= j

-----------------------------------------------------------------------------
(* A request: mmio_write32/64 and mmio_read32/64 *)

\* The port lock and generate_mmio_tid, which waits while every slot is used.
generate_mmio_tid(t, write) ==
  /\ session = "open" /\ issued < MaxRequests
  /\ thread[t].pc = "idle" /\ lock = None
  /\ count_mmio_tid_used # MMIO_MAX_OUTSTANDING
  /\ lock' = t
  /\ glbl_tid' = (glbl_tid + 1) % TidCount
  /\ issued' = issued + 1
  /\ thread' = [thread EXCEPT ![t] = [pc |-> "find", slot |-> 0, got |-> 0,
                   pkt |-> [tid |-> glbl_tid, write |-> write, id |-> issued + 1]]]
  /\ reused' = (reused \/ \E i \in Slots : ~Empty(i) /\ table[i].tid = glbl_tid)
  /\ UNCHANGED <<session, table, watcher, simVars, sessions, stale>>

\* find_empty_mmio_scoreboard_slot looks at one slot after the other, while the
\* watcher and other threads clear them.
find_empty_mmio_scoreboard_slot(t) ==
  /\ thread[t].pc = "find" /\ thread[t].slot \in Slots
  /\ thread' = IF Empty(thread[t].slot)
               THEN [thread EXCEPT ![t].pc = "tx"]
               ELSE [thread EXCEPT ![t].slot = @ + 1]
  /\ UNCHANGED <<session, table, glbl_tid, lock, watcher, simVars, bounds, reused, stale>>

\* mmio_request_put takes the slot ...
PutFlags(t) ==
  /\ thread[t].pc = "tx"
  /\ table' = [table EXCEPT ![thread[t].slot].tx = TRUE, ![thread[t].slot].rx = FALSE]
  /\ thread' = [thread EXCEPT ![t].pc = "put"]
  /\ UNCHANGED <<session, glbl_tid, lock, watcher, simVars, bounds, reused, stale>>

\* ... enters the id ...
PutTid(t) ==
  /\ thread[t].pc = "put"
  /\ table' = [table EXCEPT ![thread[t].slot].tid = thread[t].pkt.tid,
                            ![thread[t].slot].data = 0]
  /\ thread' = [thread EXCEPT ![t].pc = "send"]
  /\ UNCHANGED <<session, glbl_tid, lock, watcher, simVars, bounds, reused, stale>>

\* ... and sends the packet; the lock is released.  A write is done with that.
Send(t) ==
  /\ thread[t].pc = "send"
  /\ mmioreq' = Append(mmioreq, thread[t].pkt)
  /\ lock' = None
  /\ thread' = [thread EXCEPT ![t] = IF @.pkt.write THEN IdleThread ELSE [@ EXCEPT !.pc = "wait"]]
  /\ UNCHANGED <<session, table, glbl_tid, watcher, afu, mmiorsp, bounds, reused, stale>>

\* A read takes its answer when rx_flag is set ...
TakeAnswer_Tx(t) ==
  /\ thread[t].pc = "wait" /\ table[thread[t].slot].tx
  /\ thread' = [thread EXCEPT ![t].pc = "clear_tx", ![t].got = table[thread[t].slot].data]
  /\ UNCHANGED <<session, table, glbl_tid, lock, watcher, simVars, bounds, reused, stale>>

TakeAnswer(t) ==
  /\ thread[t].pc = "wait" /\ table[thread[t].slot].rx
  /\ thread' = [thread EXCEPT ![t].pc = "clear_tx", ![t].got = table[thread[t].slot].data]
  /\ UNCHANGED <<session, table, glbl_tid, lock, watcher, simVars, bounds, reused, stale>>

\* ... and gives the slot back, one flag after the other.
ClearTx(t) ==
  /\ thread[t].pc = "clear_tx"
  /\ table' = [table EXCEPT ![thread[t].slot].tx = FALSE]
  /\ thread' = [thread EXCEPT ![t].pc = "clear_rx"]
  /\ UNCHANGED <<session, glbl_tid, lock, watcher, simVars, bounds, reused, stale>>

ClearRx(t) ==
  /\ thread[t].pc = "clear_rx"
  /\ table' = [table EXCEPT ![thread[t].slot].rx = FALSE]
  /\ thread' = [thread EXCEPT ![t] = IdleThread]
  /\ UNCHANGED <<session, glbl_tid, lock, watcher, simVars, bounds, reused, stale>>

-----------------------------------------------------------------------------
(* mmio_response_watcher *)

Receive ==
  /\ watcher.pc = "recv" /\ mmiorsp # <<>>
  /\ mmiorsp' = Tail(mmiorsp)
  /\ watcher' = [pc |-> "found", pkt |-> Head(mmiorsp),
                 slot |-> get_scoreboard_slot_by_tid(Head(mmiorsp).tid)]
  /\ UNCHANGED <<session, table, glbl_tid, lock, thread, mmioreq, afu, bounds, reused, stale>>

\* An answer to a write frees the slot.
WriteDone ==
  /\ watcher.pc = "found" /\ watcher.slot # None /\ watcher.pkt.write
  /\ table' = [table EXCEPT ![watcher.slot].tx = FALSE, ![watcher.slot].rx = FALSE]
  /\ watcher' = [watcher EXCEPT !.pc = "recv"]
  /\ UNCHANGED <<session, glbl_tid, lock, thread, simVars, bounds, reused, stale>>

\* An answer to a read: the datum first, then the flags.
ReadData ==
  /\ watcher.pc = "found" /\ watcher.slot # None /\ ~watcher.pkt.write
  /\ table' = [table EXCEPT ![watcher.slot].tid = watcher.pkt.tid,
                            ![watcher.slot].data = watcher.pkt.id]
  /\ watcher' = [watcher EXCEPT !.pc = "flags"]
  /\ UNCHANGED <<session, glbl_tid, lock, thread, simVars, bounds, reused, stale>>

ReadFlags ==
  /\ watcher.pc = "flags"
  /\ table' = [table EXCEPT ![watcher.slot].tx = TRUE, ![watcher.slot].rx = TRUE]
  /\ watcher' = [watcher EXCEPT !.pc = "recv"]
  /\ UNCHANGED <<session, glbl_tid, lock, thread, simVars, bounds, reused, stale>>

-----------------------------------------------------------------------------
(* The simulator.  A pipe that no application has open drops what is written. *)

Answer(pkt) == mmiorsp' = IF session = "none" THEN mmiorsp ELSE Append(mmiorsp, pkt)

\* ase_listener and mmio_dispatch: a write is acknowledged when it is issued.
ase_listener ==
  /\ mmioreq # <<>>
  /\ mmioreq' = Tail(mmioreq)
  /\ IF Head(mmioreq).write
     THEN Answer(Head(mmioreq)) /\ UNCHANGED afu
     ELSE afu' = afu \cup {Head(mmioreq)} /\ UNCHANGED mmiorsp
  /\ UNCHANGED <<appVars, bounds, reused, stale>>

\* The AFU answers the reads in an order of its own.
mmio_response ==
  /\ \E pkt \in afu : afu' = afu \ {pkt} /\ Answer(pkt)
  /\ UNCHANGED <<appVars, mmioreq, bounds, reused, stale>>

-----------------------------------------------------------------------------
(* Sessions *)

\* session_init opens the pipes ...
session_init ==
  /\ session = "none" /\ sessions < MaxSessions
  /\ session' = "reset"
  /\ sessions' = sessions + 1
  /\ stale' = (stale \/ mmioreq # <<>> \/ afu # {} \/ mmiorsp # <<>>)
  /\ UNCHANGED <<table, glbl_tid, lock, thread, watcher, simVars, issued, reused>>

\* ... send_swreset waits until no slot is used; then the watcher is started ...
send_swreset ==
  /\ session = "reset" /\ count_mmio_tid_used = 0
  /\ session' = "init"
  /\ glbl_tid' = 0
  /\ watcher' = [watcher EXCEPT !.pc = "recv"]
  /\ UNCHANGED <<table, lock, thread, simVars, bounds, reused, stale>>

\* ... and the scoreboard is set up.
ScoreboardSetup ==
  /\ session = "init"
  /\ session' = "open"
  /\ table' = NewTable
  /\ UNCHANGED <<glbl_tid, lock, thread, watcher, simVars, bounds, reused, stale>>

\* session_deinit, called when no thread does MMIO: the watcher is cancelled where
\* it waits for a packet, and the pipes are closed.
session_deinit ==
  /\ session = "open" /\ watcher.pc = "recv"
  /\ \A t \in Threads : thread[t].pc = "idle"
  /\ session' = "none"
  /\ watcher' = [watcher EXCEPT !.pc = "off"]
  /\ UNCHANGED <<table, glbl_tid, lock, thread, simVars, bounds, reused, stale>>

\* The process is gone, with all that is in its memory.
Gone ==
  /\ session' = "none"
  /\ table' = NewTable
  /\ glbl_tid' = 0
  /\ lock' = None
  /\ thread' = [t \in Threads |-> IdleThread]
  /\ watcher' = [pc |-> "off", pkt |-> None, slot |-> 0]
  /\ UNCHANGED <<simVars, bounds, reused, stale>>

\* raise(SIGABRT) in mmio_request_put: no slot was empty when it was looked at.
PutAborts(t) == thread[t].pc = "find" /\ thread[t].slot \notin Slots /\ Gone

\* raise(SIGABRT) in the watcher: no slot has the id of the answer.
WatcherAborts == watcher.pc = "found" /\ watcher.slot = None /\ Gone

\* The application exits without a session, or is killed.
Exits == sessions > 0 /\ Gone

mmio_request_put(t) ==
  \/ find_empty_mmio_scoreboard_slot(t) \/ PutAborts(t)
  \/ PutFlags(t) \/ PutTid(t) \/ Send(t)

\* mmio_write32 and mmio_write64 are a request; mmio_read32 and mmio_read64 wait for
\* its answer, too.
mmio_write(t) == generate_mmio_tid(t, TRUE) \/ mmio_request_put(t)

mmio_read(t) ==
  \/ generate_mmio_tid(t, FALSE) \/ mmio_request_put(t)
  \/ TakeAnswer(t) \/ ClearTx(t) \/ ClearRx(t)

\* A request, once begun, goes on.
Progress(t) == thread[t].pc # "idle" /\ mmio_read(t)

Watcher == Receive \/ WriteDone \/ ReadData \/ ReadFlags \/ WatcherAborts

Simulator == ase_listener \/ mmio_response

Next ==
  \/ \E t \in Threads : mmio_write(t) \/ mmio_read(t)
  \/ Watcher
  \/ Simulator
  \/ session_init \/ send_swreset \/ ScoreboardSetup \/ session_deinit
  \/ Exits

Spec == Init /\ [][Next]_vars

\* Threads are scheduled, and the AFU answers every read: the simulator's protocol
\* checker stops one that does not.
FairSpec ==
  /\ Spec
  /\ \A t \in Threads : WF_vars(Progress(t))
  /\ WF_vars(Watcher)
  /\ WF_vars(Simulator)

-----------------------------------------------------------------------------
(* Properties.  They are promised as long as no id is drawn that a slot still      *)
(* holds, 512 requests late, and no session finds packets of an earlier one.       *)

Undisturbed == ~reused /\ ~stale

\* Packets of requests whose answer has not been entered yet.
UnderWay ==
  Range(mmioreq) \cup afu \cup Range(mmiorsp)
    \cup (IF watcher.pc \in {"found", "flags"} THEN {watcher.pkt} ELSE {})

\* A read returns the answer to its own request, although the watcher looks slots
\* up by an id while a thread that holds the port lock is about to enter another.
ReadsOwnAnswer ==
  Undisturbed =>
    \A t \in Threads : thread[t].pc \in {"clear_tx", "clear_rx"} =>
      thread[t].got = thread[t].pkt.id

\* The scoreboard and the packets agree: the watcher would find for each packet the
\* slot of its request, and a slot in use belongs to a thread or to a write whose
\* acknowledgement is under way.  No answer is unexpected and no slot is lost.
SlotsAccounted ==
  (Undisturbed /\ session = "open") =>
    /\ \A pkt \in UnderWay :
         LET i == get_scoreboard_slot_by_tid(pkt.tid)
         IN  /\ i # None
             /\ ~pkt.write => \E t \in Threads : thread[t].pkt = pkt /\ thread[t].slot = i
    /\ \A i \in Slots : table[i].tx =>
         \/ \E t \in Threads : /\ thread[t].slot = i
                               /\ thread[t].pc \in {"put", "send", "wait", "clear_tx"}
         \/ \E pkt \in UnderWay : pkt.write /\ pkt.tid = table[i].tid

\* A read that waits gets an answer, or its process goes.
ReadReturns ==
  \A t \in Threads : thread[t].pc = "wait" ~> (thread[t].pc # "wait" \/ ~Undisturbed)
=============================================================================
