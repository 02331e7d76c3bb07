---------------------------- MODULE FpgadProofs ----------------------------
(***************************************************************************)
(* main of fpgad leaves no thread behind, for any number of AP6 threads,   *)
(* wherever pthread_create fails and SIGINT arrives: JoinedBeforeReturn.   *)
(* The invariant says of every thread that it was not created, has ended,  *)
(* or, once main has begun to join, is still to be joined.                 *)
(***************************************************************************)
EXTENDS Fpgad, TLAPS

\* Leaves go to the SMT solver unless they name another prover.
USE SMTT(120)

\* The types the argument needs: of what main counts and what it joins.
MainTypes ==
  /\ next \in 1..(Apevent + 1)
  /\ joins \in Seq(Workers)
  /\ state \in [Workers -> {"none", "test", "body", "exited"}]

Ended(t) == state[t] \in {"none", "exited"}

Starting == main \in {"setup", "open_log", "create", "create_failed"}

\* Threads are created in order, and none after main began to join.
InOrder == Starting => \A t \in Workers : t >= next => state[t] = "none"

\* A thread that may still run is among those main waits for.
AwaitsAll ==
  ~Starting => \A t \in Workers : Ended(t) \/ \E k \in DOMAIN joins : joins[k] = t

\* main returns with nothing left to join.
ReturnsLast == main = "returned" => joins = <<>>

Inv == MainTypes /\ InOrder /\ AwaitsAll /\ ReturnsLast

\* The process starts with no thread but main.
LEMMA InitInv == Init => Inv
  BY FpgadAssumption
  DEF Init, Inv, MainTypes, InOrder, AwaitsAll, ReturnsLast, Starting, Ended, Workers, Apevent

\* The threads joined after a failed pthread_create are those that were created.
LEMMA GiveUpInv ==
  ASSUME Inv, GiveUp
  PROVE  Inv'
<1>1. joins' = [k \in 1..(next - 1) |-> k] /\ UNCHANGED <<next, state>> /\ main' = "join"
  BY DEF GiveUp, JoinsAfterFailure
<1>2. next \in 1..(Apevent + 1) /\ Apevent \in Nat
  BY FpgadAssumption DEF Inv, MainTypes, Apevent
<1>3. joins' \in Seq(Workers) /\ DOMAIN joins' = 1..(next - 1)
  BY <1>1, <1>2 DEF Workers
<1>4. ASSUME NEW t \in Workers
      PROVE  Ended(t)' \/ \E k \in DOMAIN joins' : joins'[k] = t
  <2>1. CASE t >= next
    BY <1>1, <2>1 DEF Inv, InOrder, Starting, GiveUp, Ended
  <2>2. CASE t < next
    <3>1. t \in 1..(next - 1)
      BY <1>2, <2>2 DEF Workers
    <3> QED BY <1>1, <1>3, <3>1
  <2> QED BY <1>2, <2>1, <2>2 DEF Workers
<1> QED BY <1>1, <1>3, <1>4 DEF Inv, MainTypes, InOrder, AwaitsAll, ReturnsLast, Starting, Ended

\* logger, server, apevent and the AP6 threads are all the threads there are.
LEMMA AllCreatedInv ==
  ASSUME Inv, AllCreated
  PROVE  Inv'
<1> DEFINE a == [k \in 1..3 |-> MAX_SOCKETS + k]
           b == [k \in 1..MAX_SOCKETS |-> k]
<1>1. joins' = a \o b /\ UNCHANGED <<next, state>> /\ main' = "join"
  BY DEF AllCreated
<1>2. a \in Seq(Workers) /\ Len(a) = 3 /\ b \in Seq(Workers) /\ Len(b) = MAX_SOCKETS
  BY FpgadAssumption DEF Workers, Apevent
<1>3. joins' \in Seq(Workers) /\ DOMAIN joins' = 1..(3 + MAX_SOCKETS)
  BY <1>1, <1>2, FpgadAssumption
<1>4. ASSUME NEW t \in Workers
      PROVE  \E k \in DOMAIN joins' : joins'[k] = t
  <2>0. t \in Int /\ 1 <= t /\ t <= MAX_SOCKETS + 3
    BY FpgadAssumption DEF Workers, Apevent
  <2>1. CASE t <= MAX_SOCKETS
    <3>1. t + 3 \in DOMAIN joins' /\ joins'[t + 3] = b[t]
      BY <1>1, <1>2, <1>3, <2>0, <2>1, FpgadAssumption
    <3> QED BY <2>0, <2>1, <3>1
  <2>2. CASE t > MAX_SOCKETS
    <3>1. t - MAX_SOCKETS \in DOMAIN joins' /\ joins'[t - MAX_SOCKETS] = a[t - MAX_SOCKETS]
      BY <1>1, <1>2, <1>3, <2>0, <2>2, FpgadAssumption
    <3>2. a[t - MAX_SOCKETS] = t
      BY <2>0, <2>2, FpgadAssumption
    <3> QED BY <3>1, <3>2
  <2> QED BY <2>0, <2>1, <2>2, FpgadAssumption
<1> HIDE DEF a, b
<1>5. MainTypes
  BY DEF Inv
<1>6. MainTypes'
  BY <1>1, <1>3, <1>5 DEF MainTypes
<1>7. AwaitsAll'
  BY <1>4 DEF AwaitsAll
<1>8. InOrder' /\ ReturnsLast'
  BY <1>1 DEF InOrder, ReturnsLast, Starting
<1> QED BY <1>6, <1>7, <1>8 DEF Inv

\* A thread that leaves the list of those to join has ended.
LEMMA JoinThreadInv ==
  ASSUME Inv, JoinThread
  PROVE  Inv'
<1>1. /\ joins # <<>> /\ state[Head(joins)] = "exited" /\ joins' = Tail(joins)
      /\ UNCHANGED <<next, state, main>> /\ main = "join"
  BY DEF JoinThread
<1>2. joins \in Seq(Workers) /\ joins' \in Seq(Workers)
  BY <1>1 DEF Inv, MainTypes
<1>3. ASSUME NEW t \in Workers, NEW k \in DOMAIN joins, joins[k] = t
      PROVE  Ended(t) \/ \E j \in DOMAIN joins' : joins'[j] = t
  <2>1. CASE k = 1
    BY <1>1, <1>2, <1>3, <2>1 DEF Ended
  <2>2. CASE k # 1
    <3>1. k - 1 \in DOMAIN joins' /\ joins'[k - 1] = joins[k]
      BY <1>1, <1>2, <2>2
    <3> QED BY <1>3, <3>1
  <2> QED BY <2>1, <2>2
<1>4. AwaitsAll'
  BY <1>1, <1>3 DEF Inv, AwaitsAll, Starting, Ended
<1> QED BY <1>1, <1>2, <1>4 DEF Inv, MainTypes, InOrder, ReturnsLast, Starting

\* Creating a thread makes the next one in order run.
LEMMA CreateThreadInv ==
  ASSUME Inv, CreateThread
  PROVE  Inv'
<1>1. /\ main = "create" /\ next \in Workers /\ next' = next + 1
      /\ state' = [state EXCEPT ![next] = "test"] /\ UNCHANGED <<main, joins>>
  BY DEF CreateThread
<1>2. MainTypes'
  BY <1>1, FpgadAssumption DEF Inv, MainTypes, Workers, Apevent
<1>3. InOrder'
  BY <1>1, FpgadAssumption DEF Inv, MainTypes, InOrder, Starting, Workers, Apevent
<1> QED BY <1>1, <1>2, <1>3 DEF Inv, AwaitsAll, ReturnsLast, Starting

\* A thread that runs can end, but none that has ended, or was not created, runs.
LEMMA WorkerInv ==
  ASSUME Inv, NEW t \in Workers, WorkerStep(t)
  PROVE  Inv'
<1>1. /\ state[t] \in {"test", "body"} /\ UNCHANGED <<main, next, joins>>
      /\ \E v \in {"test", "body", "exited"} : state' = [state EXCEPT ![t] = v]
  BY DEF WorkerStep, TestRunning, Body
<1>2. MainTypes'
  BY <1>1 DEF Inv, MainTypes
<1>3. InOrder'
  BY <1>1 DEF Inv, MainTypes, InOrder, Starting
<1>4. AwaitsAll'
  BY <1>1 DEF Inv, MainTypes, AwaitsAll, Starting, Ended
<1> QED BY <1>1, <1>2, <1>3, <1>4 DEF Inv, ReturnsLast

\* The other steps change neither the threads nor what main is to join, and main
\* returns only with nothing left to join.
LEMMA OtherInv ==
  ASSUME Inv,
         UNCHANGED <<next, joins, state>>,
         \/ main' = main
         \/ main \in {"setup", "open_log", "create"}
              /\ main' \in {"open_log", "create", "create_failed"}
         \/ main = "join" /\ main' = "returned" /\ joins = <<>>
  PROVE  Inv'
  BY DEF Inv, MainTypes, InOrder, AwaitsAll, ReturnsLast, Starting, Ended

\* When main of fpgad returns, every thread it created has ended, whatever the number
\* of AP6 threads, wherever pthread_create failed and SIGINT arrived.
THEOREM AlwaysJoined == Spec => []JoinedBeforeReturn
<1>1. Inv /\ [Next]_vars => Inv'
  <2> SUFFICES ASSUME Inv, [Next]_vars PROVE Inv'
    OBVIOUS
  <2>1. CASE CreateThread
    BY <2>1, CreateThreadInv
  <2>2. CASE GiveUp
    BY <2>2, GiveUpInv
  <2>3. CASE AllCreated
    BY <2>3, AllCreatedInv
  <2>4. CASE JoinThread
    BY <2>4, JoinThreadInv
  <2>5. CASE \E t \in Workers : WorkerStep(t)
    BY <2>5, WorkerInv
  <2>6. CASE InstallHandler \/ LogOpened \/ CreateFails \/ Return
    BY <2>6, OtherInv DEF InstallHandler, LogOpened, CreateFails, Return
  <2>7. CASE HandlerStep \/ UNCHANGED vars
    BY <2>7, OtherInv DEF HandlerStep, HandlerLock, HandlerUnlock, HandlerClear, vars
  <2>8. CASE \E t \in Threads : LockLog(t) \/ UnlockLog(t) \/ Sigint(t)
    BY <2>8, OtherInv DEF LockLog, UnlockLog, Sigint
  <2> QED BY <2>1, <2>2, <2>3, <2>4, <2>5, <2>6, <2>7, <2>8 DEF Next, MainStep
<1>2. Inv => JoinedBeforeReturn
  BY DEF Inv, AwaitsAll, ReturnsLast, JoinedBeforeReturn, Starting, Ended
<1> QED BY InitInv, <1>1, <1>2, PTL DEF Spec
============================================================================
