------------------------------- MODULE Fpgad -------------------------------
(***************************************************************************)
(* The life of the fpgad process (fpgad.c, daemonize.c, log.c): main       *)
(* starts its threads one after the other, joins them and returns; SIGINT  *)
(* is handled on whichever thread the kernel picks; every thread, and the  *)
(* handler, writes the log under log_lock, which is not recursive.  What   *)
(* the threads do between two tests of config.running is in EventServer,   *)
(* ErrorLogger and Ap6; here a pass through the loop writes the log or not.*)
(* An operator X_Fault beside X is X with a plausible mistake in it, for   *)
(* trying the properties on; no specification uses it.                     *)
(***************************************************************************)
EXTENDS Integers, Sequences

CONSTANT MAX_SOCKETS    \* AP6 threads

ASSUME FpgadAssumption == MAX_SOCKETS \in Nat

\* Threads in the order main creates them: ap6[0..MAX_SOCKETS-1], logger, server and
\* apevent.  0 is main itself.
Logger == MAX_SOCKETS + 1
Apevent == MAX_SOCKETS + 3
Workers == 1..Apevent
Main == 0
Threads == {Main} \cup Workers
Nobody == -1

VARIABLES
  running,      \* config.running
  main,         \* where main is
  next,         \* the worker main is to create
  joins,        \* the workers main has yet to join, in order
  state,        \* of each worker: "none", "test", "body" or "exited"
  log,          \* of each thread: "out" of dlog, "want" log_lock, "in" it
  log_lock,     \* its holder
  handler,      \* where the SIGINT handler is
  victim        \* the thread it runs on

vars == <<running, main, next, joins, state, log, log_lock, handler, victim>>

\* The type invariant of the process.
TypeOK ==
  /\ running \in BOOLEAN
  /\ main \in {"setup", "open_log", "create", "create_failed", "join", "returned"}
  /\ next \in Workers \cup {Apevent + 1}
  /\ joins \in Seq(Workers)
  /\ state \in [Workers -> {"none", "test", "body", "exited"}]
  /\ log \in [Threads -> {"out", "want", "in"}]
  /\ log_lock \in Threads \cup {Nobody}
  /\ handler \in {"default", "installed", "want", "in", "clear", "done"}
  /\ victim \in Threads \cup {Nobody}

Init ==
  /\ running = TRUE
  /\ main = "setup"
  /\ next = 1
  /\ joins = <<>>
  /\ state = [t \in Workers |-> "none"]
  /\ log = [t \in Threads |-> "out"]
  /\ log_lock = Nobody
  /\ handler = "default"
  /\ victim = Nobody

-----------------------------------------------------------------------------
(* log.c *)

\* A thread runs its own code when the handler is not on top of it.
OnCpu(t) == victim # t
Free(t) == OnCpu(t) /\ log[t] = "out"

\* dlog and open_log: lock log_lock, write, unlock.
CallLog(t) == log' = [log EXCEPT ![t] = "want"]

LockLog(t) ==
  /\ OnCpu(t)
  /\ log[t] = "want" /\ log_lock = Nobody
  /\ log' = [log EXCEPT ![t] = "in"]
  /\ log_lock' = t
  /\ UNCHANGED <<running, main, next, joins, state, handler, victim>>

UnlockLog(t) ==
  /\ OnCpu(t)
  /\ log[t] = "in"
  /\ log' = [log EXCEPT ![t] = "out"]
  /\ log_lock' = Nobody
  /\ UNCHANGED <<running, main, next, joins, state, handler, victim>>

-----------------------------------------------------------------------------
(* main *)

\* sigaction for SIGINT, by main or by daemonize, which goes on to open the log.
InstallHandler ==
  /\ main = "setup"
  /\ handler' = "installed"
  /\ \/ main' = "create" /\ UNCHANGED log
     \/ main' = "open_log" /\ CallLog(Main)
  /\ UNCHANGED <<running, next, joins, state, log_lock, victim>>

LogOpened ==
  /\ main = "open_log" /\ Free(Main)
  /\ main' = "create"
  /\ UNCHANGED <<running, next, joins, state, log, log_lock, handler, victim>>

CreateThread ==
  /\ main = "create" /\ Free(Main) /\ next \in Workers
  /\ state' = [state EXCEPT ![next] = "test"]
  /\ next' = next + 1
  /\ UNCHANGED <<running, main, joins, log, log_lock, handler, victim>>

\* pthread_create failing: dlog, clear running and join the threads made so far.
CreateFails ==
  /\ main = "create" /\ Free(Main) /\ next \in Workers
  /\ main' = "create_failed"
  /\ CallLog(Main)
  /\ UNCHANGED <<running, next, joins, state, log_lock, handler, victim>>

JoinsAfterFailure_OneLess == [k \in 1..(IF next > 2 THEN next - 2 ELSE 0) |-> k]

JoinsAfterFailure == [k \in 1..(next - 1) |-> k]

GiveUp ==
  /\ main = "create_failed" /\ Free(Main)
  /\ running' = FALSE
  /\ joins' = JoinsAfterFailure
  /\ main' = "join"
  /\ UNCHANGED <<next, state, log, log_lock, handler, victim>>

\* logger, server, apevent, and then the AP6 threads.
AllCreated ==
  /\ main = "create" /\ Free(Main) /\ next \notin Workers
  /\ joins' = [k \in 1..3 |-> MAX_SOCKETS + k] \o [k \in 1..MAX_SOCKETS |-> k]
  /\ main' = "join"
  /\ UNCHANGED <<running, next, state, log, log_lock, handler, victim>>

JoinThread ==
  /\ main = "join" /\ Free(Main) /\ joins # <<>>
  /\ state[Head(joins)] = "exited"
  /\ joins' = Tail(joins)
  /\ UNCHANGED <<running, main, next, state, log, log_lock, handler, victim>>

Return ==
  /\ main = "join" /\ Free(Main) /\ joins = <<>>
  /\ main' = "returned"
  /\ UNCHANGED <<running, next, joins, state, log, log_lock, handler, victim>>

MainStep ==
  \/ InstallHandler \/ LogOpened \/ CreateThread \/ CreateFails \/ GiveUp
  \/ AllCreated \/ JoinThread \/ Return

-----------------------------------------------------------------------------
(* The threads *)

\* while (c->running), or an error before or in the loop that ends the thread.
TestRunning(t) ==
  /\ state[t] = "test" /\ Free(t)
  /\ \/ running /\ state' = [state EXCEPT ![t] = "body"]
     \/ state' = [state EXCEPT ![t] = "exited"]
  /\ UNCHANGED <<running, main, next, joins, log, log_lock, handler, victim>>

Body(t) ==
  /\ state[t] = "body" /\ Free(t)
  /\ state' = [state EXCEPT ![t] = "test"]
  /\ CallLog(t) \/ UNCHANGED log
  /\ UNCHANGED <<running, main, next, joins, log_lock, handler, victim>>

WorkerStep(t) == TestRunning(t) \/ Body(t)

-----------------------------------------------------------------------------
(* SIGINT *)

Alive(t) == IF t = Main THEN main # "returned" ELSE state[t] \in {"test", "body"}

\* SA_RESETHAND: the handler runs once.
Sigint(t) ==
  /\ handler = "installed" /\ Alive(t)
  /\ handler' = "want"
  /\ victim' = t
  /\ UNCHANGED <<running, main, next, joins, state, log, log_lock>>

\* dlog in sig_handler.
HandlerLock ==
  /\ handler = "want" /\ log_lock = Nobody
  /\ handler' = "in"
  /\ log_lock' = victim
  /\ UNCHANGED <<running, main, next, joins, state, log, victim>>

HandlerUnlock ==
  /\ handler = "in"
  /\ handler' = "clear"
  /\ log_lock' = Nobody
  /\ UNCHANGED <<running, main, next, joins, state, log, victim>>

HandlerClear_Forgets ==
  /\ handler = "clear"
  /\ handler' = "done"
  /\ victim' = Nobody
  /\ UNCHANGED <<running, main, next, joins, state, log, log_lock>>

HandlerClear ==
  /\ handler = "clear"
  /\ running' = FALSE
  /\ handler' = "done"
  /\ victim' = Nobody
  /\ UNCHANGED <<main, next, joins, state, log, log_lock>>

HandlerStep == HandlerLock \/ HandlerUnlock \/ HandlerClear

Next ==
  /\ main # "returned"
  /\ \/ MainStep \/ HandlerStep
     \/ \E t \in Workers : WorkerStep(t)
     \/ \E t \in Threads : LockLog(t) \/ UnlockLog(t) \/ Sigint(t)

Spec == Init /\ [][Next]_vars

\* Threads are scheduled, and log_lock goes to every thread that keeps asking.
FairSpec ==
  /\ Spec
  /\ WF_vars(MainStep)
  /\ \A t \in Workers : WF_vars(WorkerStep(t))
  /\ \A t \in Threads : SF_vars(LockLog(t)) /\ WF_vars(UnlockLog(t))
  /\ SF_vars(HandlerLock) /\ WF_vars(HandlerUnlock) /\ WF_vars(HandlerClear)

-----------------------------------------------------------------------------
\* main returns only when every thread it created has ended, on the error paths
\* too: the AP6 threads use contexts on its stack.
JoinedBeforeReturn ==
  main = "returned" => \A t \in Workers : state[t] \in {"none", "exited"}

\* sig_handler is waiting for the lock the thread under it holds.
SelfDeadlock == handler = "want" /\ log[victim] = "in"

\* Once a SIGINT is delivered, or config.running is cleared by a failed pthread_create,
\* every thread ends and main returns, unless a SIGINT finds its thread inside dlog.
StopsWhenAsked ==
  (~running \/ handler = "want") ~> (main = "returned" \/ SelfDeadlock)

-----------------------------------------------------------------------------
(* What fpgad.md says and log_lock makes untrue. *)

\* SIGINT stops the daemon.
SigintStops == (handler = "want") ~> main = "returned"
=============================================================================
