---------------------------- MODULE ErrorLogger ----------------------------
(***************************************************************************)
(* The polling threads of fpgad: logger_thread (errtable.c), which watches *)
(* the error registers of ports and FMEs, and apevent_thread (ap_event.c), *)
(* which watches the AP event registers in the same way.  The thread reads *)
(* one sysfs file after another, remembers per device which table entries  *)
(* it has reported, and reports an entry again only after having read it   *)
(* clear.  The hardware changes between a read and what is done about it.  *)
(* An operator X_Fault beside X is X with a plausible mistake in it, for   *)
(* trying the properties on; no specification uses it.                     *)
(***************************************************************************)
EXTENDS Integers, SequencesExt

CONSTANTS
  Tokens,           \* the tokens fpgaEnumerate returns, in order
  Errors,           \* struct fpga_err entries
  Table,            \* per token, the entries of the first table it matches
  Values,           \* values of a register field; 0 is "no error"
  MAX_ERROR_COUNT,
  MaxChanges        \* bound: changes of the hardware over a behaviour

Devices == Range(Tokens)

\* The longest table of errtable.c has 54 entries and MAX_ERROR_COUNT is 64.
ASSUME LoggerAssumption ==
  /\ Tokens \in Seq(Devices)
  /\ Table \in [Devices -> Seq(Errors)]
  /\ MAX_ERROR_COUNT \in Nat /\ MaxChanges \in Nat
  /\ \A t \in Devices : /\ IsFiniteSet(Range(Table[t]))
                        /\ Cardinality(Range(Table[t])) <= MAX_ERROR_COUNT
  /\ 0 \in Values

VARIABLES
  running,    \* config.running
  pc,         \* where the thread is
  n,          \* tokens considered so far
  list,       \* monitored_device_list
  d,          \* position in list of the device being polled
  e,          \* position in its error_table
  err,        \* err & mask, as read
  occ,        \* per device, how many slots of error_occurrences hold an entry
  num,        \* per device, num_error_occurrences
  hw,         \* the register fields
  changes,    \* how often the hardware changed
  rises,      \* per device and entry, how often the field left 0
  reports,    \* per device and entry, how often the thread reported it
  logged      \* per device and entry, the value last reported

threadVars == <<pc, n, list, d, e, err, occ, num, reports, logged>>
hwVars == <<hw, changes, rises>>
vars == <<running, threadVars, hwVars>>

Device == list[d]
Entry == Table[Device][e]
InRound == d <= Len(list)
InTable == e <= Len(Table[Device])

\* The type invariant of the thread's locals and of a monitored_device.
TypeOK ==
  /\ running \in BOOLEAN
  /\ pc \in {"start", "consider", "poll", "act", "exited"}
  /\ n \in 0..Len(Tokens)
  /\ list \in Seq(Devices) /\ Len(list) <= n
  /\ d \in Nat \ {0} /\ e \in Nat \ {0}
  /\ err \in Values
  /\ occ \in [Devices -> [Errors -> Nat]]
  /\ num \in [Devices -> Nat]
  /\ hw \in [Devices -> [Errors -> Values]]
  /\ changes \in Nat
  /\ rises \in [Devices -> [Errors -> Nat]]
  /\ reports \in [Devices -> [Errors -> Nat]]
  /\ logged \in [Devices -> [Errors -> Values]]

Init ==
  /\ running = TRUE
  /\ pc = "start"
  /\ n = 0
  /\ list = <<>>
  /\ d = 1 /\ e = 1 /\ err = 0
  /\ occ = [t \in Devices |-> [x \in Errors |-> 0]]
  /\ num = [t \in Devices |-> 0]
  /\ hw = [t \in Devices |-> [x \in Errors |-> 0]]
  /\ changes = 0
  /\ rises = [t \in Devices |-> [x \in Errors |-> 0]]
  /\ reports = [t \in Devices |-> [x \in Errors |-> 0]]
  /\ logged = [t \in Devices |-> [x \in Errors |-> 0]]

-----------------------------------------------------------------------------
(* Starting up *)

\* fpgaEnumerate, twice, and calloc: failing, or finding nothing, ends the thread.
Enumerate ==
  /\ pc = "start"
  /\ pc' \in IF Tokens = <<>> THEN {"exited"} ELSE {"consider", "exited"}
  /\ UNCHANGED <<running, hwVars, n, list, d, e, err, occ, num, reports, logged>>

\* add_monitored_device puts the device at the head of the list.
add_monitored_device(t) ==
  /\ list' = Cons(t, list)
  /\ num' = [num EXCEPT ![t] = 0]
  /\ occ' = [occ EXCEPT ![t] = [x \in Errors |-> 0]]

\* consider_device: a device in none of the tables, one whose properties or errors
\* revision cannot be read, and one malloc() fails for are passed over.
consider_device ==
  /\ pc = "consider" /\ n < Len(Tokens)
  /\ \/ Table[Tokens[n + 1]] # <<>> /\ add_monitored_device(Tokens[n + 1])
     \/ UNCHANGED <<list, occ, num>>
  /\ n' = n + 1
  /\ UNCHANGED <<running, hwVars, pc, d, e, err, reports, logged>>

\* Leaving the thread frees the list.
Exit ==
  /\ pc' = "exited"
  /\ list' = <<>>
  /\ d' = 1 /\ e' = 1 /\ err' = 0
  /\ UNCHANGED <<running, hwVars, n, occ, num, reports, logged>>

\* The test of the while loop, or no device to monitor.
StartRound ==
  /\ running /\ list # <<>>
  /\ pc' = "poll"
  /\ d' = 1 /\ e' = 1
  /\ UNCHANGED <<running, hwVars, n, list, err, occ, num, reports, logged>>

AllConsidered ==
  /\ pc = "consider" /\ n = Len(Tokens)
  /\ IF running /\ list # <<>> THEN StartRound ELSE Exit

-----------------------------------------------------------------------------
(* poll_errors and poll_error *)

\* Reading the sysfs file of the entry.
ReadObject ==
  /\ pc = "poll" /\ InRound /\ InTable
  /\ err' = hw[Device][Entry]
  /\ pc' = "act"
  /\ UNCHANGED <<running, hwVars, n, list, d, e, occ, num, reports, logged>>

\* A read that fails ends the thread, for every device.
ReadFails ==
  /\ pc = "poll" /\ InRound /\ InTable
  /\ Exit

error_already_occurred(t, x) == occ[t][x] > 0

error_just_occurred_OneLess(t, x) ==
  IF num[t] + 1 >= MAX_ERROR_COUNT
  THEN UNCHANGED <<occ, num>>
  ELSE /\ occ' = [occ EXCEPT ![t][x] = @ + 1]
       /\ num' = [num EXCEPT ![t] = @ + 1]

error_just_occurred(t, x) ==
  IF num[t] = MAX_ERROR_COUNT
  THEN UNCHANGED <<occ, num>>
  ELSE /\ occ' = [occ EXCEPT ![t][x] = @ + 1]
       /\ num' = [num EXCEPT ![t] = @ + 1]

clear_occurrences_of(t, x) ==
  /\ occ' = [occ EXCEPT ![t][x] = 0]
  /\ num' = [num EXCEPT ![t] = @ - occ[t][x]]

NextEntry_SkipOne == e' = e + 2 /\ UNCHANGED <<n, list, d>>

NextEntry == e' = e + 1 /\ UNCHANGED <<n, list, d>>

\* log_fpga_error and log_ap_event, for an entry not reported since it was clear.
\* The callback of the entry is called here.
Report(t, x) ==
  /\ pc = "act" /\ t = Device /\ x = Entry
  /\ err # 0
  /\ ~error_already_occurred(t, x)
  /\ error_just_occurred(t, x)
  /\ reports' = [reports EXCEPT ![t][x] = @ + 1]
  /\ logged' = [logged EXCEPT ![t][x] = err]
  /\ pc' = "poll" /\ err' = 0
  /\ NextEntry
  /\ UNCHANGED <<running, hwVars>>

\* ... and for one that was.
ReportedBefore ==
  /\ pc = "act"
  /\ err # 0
  /\ error_already_occurred(Device, Entry)
  /\ pc' = "poll" /\ err' = 0
  /\ NextEntry
  /\ UNCHANGED <<running, hwVars, occ, num, reports, logged>>

NoError ==
  /\ pc = "act"
  /\ err = 0
  /\ clear_occurrences_of(Device, Entry)
  /\ pc' = "poll" /\ UNCHANGED err
  /\ NextEntry
  /\ UNCHANGED <<running, hwVars, reports, logged>>

NextDevice ==
  /\ pc = "poll" /\ InRound /\ ~InTable
  /\ d' = d + 1 /\ e' = 1
  /\ UNCHANGED <<running, hwVars, pc, n, list, err, occ, num, reports, logged>>

\* usleep, and the loop's test again.
EndRound ==
  /\ pc = "poll" /\ ~InRound
  /\ IF running THEN StartRound ELSE Exit

Thread ==
  \/ Enumerate \/ consider_device \/ AllConsidered
  \/ ReadObject \/ ReadFails
  \/ \E t \in Devices, x \in Errors : Report(t, x)
  \/ ReportedBefore \/ NoError
  \/ NextDevice \/ EndRound

-----------------------------------------------------------------------------
(* The environment *)

Change(t, x, v) ==
  /\ changes < MaxChanges
  /\ v # hw[t][x]
  /\ hw' = [hw EXCEPT ![t][x] = v]
  /\ changes' = changes + 1
  /\ rises' = IF hw[t][x] = 0 THEN [rises EXCEPT ![t][x] = @ + 1] ELSE rises
  /\ UNCHANGED <<running, threadVars>>

Hardware == \E t \in Devices, x \in Errors, v \in Values : Change(t, x, v)

sig_handler ==
  /\ running
  /\ running' = FALSE
  /\ UNCHANGED <<threadVars, hwVars>>

Next == Thread \/ Hardware \/ sig_handler

Spec == Init /\ [][Next]_vars

\* The thread is scheduled.
FairSpec == Spec /\ WF_vars(Thread)

-----------------------------------------------------------------------------
(* Properties *)

\* num_error_occurrences counts the entries error_occurrences holds, each of them
\* once and of the device's own table, so error_just_occurred never finds the
\* array full and forgets nothing.
Occurring(t) == {x \in Range(Table[t]) : occ[t][x] > 0}

OccurrencesFit ==
  \A t \in Devices :
    /\ \A x \in Errors : occ[t][x] = IF x \in Occurring(t) THEN 1 ELSE 0
    /\ num[t] = Cardinality(Occurring(t))
    /\ num[t] <= MAX_ERROR_COUNT

\* An error is reported at most once for every time it was raised, however the
\* register changes between poll_error's read and log_fpga_error.
OncePerRise ==
  \A t \in Devices, x \in Errors : reports[t][x] <= rises[t][x]

\* An error that stays raised on a monitored device is reported, unless the thread
\* ends.
RaisedIsReported ==
  \A t \in Devices : \A x \in Range(Table[t]) :
    (t \in Range(list) /\ hw[t][x] # 0)
      ~> (error_already_occurred(t, x) \/ hw[t][x] = 0 \/ pc = "exited")

-----------------------------------------------------------------------------
(* What the AP entry's text, "Power state changed to", says and a change does not do. *)

\* The state last reported for a field becomes the one it has settled in.
StateIsReported ==
  \A t \in Devices : \A x \in Range(Table[t]) : \A v \in Values \ {0} :
    (<>[](t \in Range(list) /\ hw[t][x] = v)) => <>[](logged[t][x] = v)
=============================================================================
