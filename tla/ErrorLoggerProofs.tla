------------------------- MODULE ErrorLoggerProofs -------------------------
(***************************************************************************)
(* For any devices, tables and hardware: the polling threads report an     *)
(* error at most once for each time it is raised, and error_occurrences    *)
(* never overflows.                                                        *)
(***************************************************************************)
EXTENDS ErrorLogger, TLAPS, SequenceTheorems, FiniteSetTheorems

\* Leaves go to the SMT solver unless they name another prover.
USE SMTT(120)

\* add_monitored_device adds at the head of the list of monitored devices.
LEMMA ConsType ==
  ASSUME NEW S, NEW s \in Seq(S), NEW x \in S
  PROVE  Cons(x, s) \in Seq(S) /\ Len(Cons(x, s)) = Len(s) + 1
<1>1. <<x>> \in Seq(S) /\ Len(<<x>>) = 1
  OBVIOUS
<1>2. Cons(x, s) = <<x>> \o s
  BY DEF Cons
<1> QED BY <1>1, <1>2, ConcatProperties

\* poll_error acts on an entry of the device it is polling.
AtEntry == pc = "act" => InRound /\ InTable

\* Nothing has been reported while the devices are being collected.
Fresh ==
  pc \in {"start", "consider"} =>
    \A t \in Devices, x \in Errors : occ[t][x] = 0 /\ num[t] = 0 /\ reports[t][x] = 0

\* poll_error is acting on x of t.
ActingOn(t, x) == pc = "act" /\ t = Device /\ x = Entry

\* A raised entry that is not remembered, or is about to be forgotten, has been
\* raised once more than it was reported, and so has one about to be reported.
Owed ==
  \A t \in Devices, x \in Errors :
    /\ reports[t][x] <= rises[t][x]
    /\ hw[t][x] # 0 /\ (occ[t][x] = 0 \/ (ActingOn(t, x) /\ err = 0))
         => reports[t][x] < rises[t][x]
    /\ ActingOn(t, x) /\ err # 0 /\ occ[t][x] = 0 => reports[t][x] < rises[t][x]

Inv == TypeOK /\ AtEntry /\ Fresh /\ OccurrencesFit /\ Owed

-----------------------------------------------------------------------------
\* Before the first round nothing is remembered and nothing is reported.
LEMMA InvInit == Init => Inv
<1> SUFFICES ASSUME Init PROVE Inv
  OBVIOUS
<1> USE LoggerAssumption DEF Init
<1>1. TypeOK
  <2>1. list \in Seq(Devices) /\ Len(list) <= n /\ n \in 0..Len(Tokens)
    OBVIOUS
  <2>2. running \in BOOLEAN
    OBVIOUS
  <2>3. /\ occ \in [Devices -> [Errors -> Nat]] /\ num \in [Devices -> Nat]
        /\ hw \in [Devices -> [Errors -> Values]]
    OBVIOUS
  <2>4. /\ rises \in [Devices -> [Errors -> Nat]]
        /\ reports \in [Devices -> [Errors -> Nat]]
        /\ logged \in [Devices -> [Errors -> Values]]
    OBVIOUS
  <2> QED BY <2>1, <2>2, <2>3, <2>4 DEF TypeOK
<1>2. OccurrencesFit
  <2>1. ASSUME NEW t \in Devices PROVE Occurring(t) = {}
    <3>1. \A x \in Range(Table[t]) : x \in Errors
      BY DEF Range
    <3> QED BY <3>1 DEF Occurring
  <2>2. Cardinality({}) = 0 /\ 0 <= MAX_ERROR_COUNT
    BY FS_EmptySet
  <2>3. ASSUME NEW t \in Devices
        PROVE  /\ \A x \in Errors : occ[t][x] = IF x \in Occurring(t) THEN 1 ELSE 0
               /\ num[t] = Cardinality(Occurring(t))
               /\ num[t] <= MAX_ERROR_COUNT
    BY <2>1, <2>2, Zenon
  <2> QED BY <2>3 DEF OccurrencesFit
<1> QED BY <1>1, <1>2 DEF Inv, AtEntry, Fresh, Owed, ActingOn

\* The entry being polled is one of the device's table.
LEMMA EntryType ==
  ASSUME TypeOK, InRound, InTable
  PROVE  /\ Device \in Devices
         /\ Entry \in Errors
         /\ Entry \in Range(Table[Device])
<1>1. Device \in Devices
  BY DEF TypeOK, InRound, Device
<1>2. Table[Device] \in Seq(Errors)
  BY <1>1, LoggerAssumption
<1>3. e \in DOMAIN Table[Device]
  BY <1>2 DEF TypeOK, InTable
<1> QED BY <1>1, <1>2, <1>3 DEF Entry, Range

\* What occurs on a device are entries of its table, at most MAX_ERROR_COUNT.
LEMMA OccurringFinite ==
  ASSUME NEW t \in Devices
  PROVE  /\ IsFiniteSet(Occurring(t))
         /\ Cardinality(Occurring(t)) \in Nat
         /\ Cardinality(Occurring(t)) <= MAX_ERROR_COUNT
<1>1. /\ IsFiniteSet(Range(Table[t])) /\ Cardinality(Range(Table[t])) <= MAX_ERROR_COUNT
      /\ MAX_ERROR_COUNT \in Nat
  BY LoggerAssumption
<1>2. Occurring(t) \in SUBSET Range(Table[t])
  BY DEF Occurring
<1>3. IsFiniteSet(Occurring(t)) /\ Cardinality(Occurring(t)) <= Cardinality(Range(Table[t]))
  BY <1>1, <1>2, FS_Subset
<1>4. Cardinality(Occurring(t)) \in Nat /\ Cardinality(Range(Table[t])) \in Nat
  BY <1>1, <1>3, FS_CardinalityType
<1> QED BY <1>1, <1>3, <1>4

\* An entry of the table that is not remembered finds room in error_occurrences.
LEMMA RoomToRemember ==
  ASSUME TypeOK, OccurrencesFit, NEW t \in Devices, NEW x \in Range(Table[t]),
         x \in Errors, occ[t][x] = 0
  PROVE  /\ num[t] < MAX_ERROR_COUNT
         /\ Cardinality(Occurring(t) \cup {x}) = num[t] + 1
<1>1. /\ IsFiniteSet(Range(Table[t])) /\ Cardinality(Range(Table[t])) <= MAX_ERROR_COUNT
      /\ MAX_ERROR_COUNT \in Nat
  BY LoggerAssumption
<1>2. x \notin Occurring(t)
  BY DEF Occurring
<1>3. Cardinality(Occurring(t) \cup {x}) = Cardinality(Occurring(t)) + 1
  BY <1>2, OccurringFinite, FS_AddElement, Zenon
<1>4. Occurring(t) \cup {x} \in SUBSET Range(Table[t])
  BY DEF Occurring
<1>5. Cardinality(Occurring(t) \cup {x}) <= Cardinality(Range(Table[t]))
  BY <1>1, <1>4, FS_Subset
<1>6. Cardinality(Range(Table[t])) \in Nat
  BY <1>1, FS_CardinalityType
<1>7. num[t] = Cardinality(Occurring(t))
  BY DEF OccurrencesFit
<1> QED BY <1>1, <1>3, <1>5, <1>6, <1>7, OccurringFinite

-----------------------------------------------------------------------------
\* The steps that leave error_occurrences and the reports alone.
LEMMA OccurrencesKept ==
  ASSUME OccurrencesFit, UNCHANGED <<occ, num>>
  PROVE  OccurrencesFit'
BY DEF OccurrencesFit, Occurring

\* Report: log_fpga_error remembers an entry it did not have.
LEMMA ReportInv ==
  ASSUME Inv, NEW t \in Devices, NEW x \in Errors, Report(t, x)
  PROVE  Inv'
<1> USE DEF Inv
<1>0. /\ t = Device /\ x = Entry /\ x \in Range(Table[t]) /\ pc = "act" /\ err # 0
      /\ occ[t][x] = 0
  BY EntryType DEF Report, AtEntry, error_already_occurred, TypeOK
<1>1. num[t] < MAX_ERROR_COUNT /\ Cardinality(Occurring(t) \cup {x}) = num[t] + 1
  BY <1>0, RoomToRemember
<1>2. /\ occ' = [occ EXCEPT ![t][x] = 1]
      /\ num' = [num EXCEPT ![t] = num[t] + 1]
  BY <1>0, <1>1, LoggerAssumption DEF Report, error_just_occurred, TypeOK
<1>3. TypeOK'
  <2>1. occ' \in [Devices -> [Errors -> Nat]] /\ num' \in [Devices -> Nat]
    BY <1>2 DEF TypeOK
  <2>2. reports' \in [Devices -> [Errors -> Nat]]
    BY DEF TypeOK, Report
  <2>3. logged' \in [Devices -> [Errors -> Values]]
    BY DEF TypeOK, Report
  <2>4. e' \in Nat \ {0} /\ UNCHANGED <<n, list, d>> /\ UNCHANGED <<running, hwVars>>
    BY DEF TypeOK, Report, NextEntry
  <2>5. pc' = "poll" /\ err' \in Values
    BY LoggerAssumption DEF Report
  <2> QED BY <2>1, <2>2, <2>3, <2>4, <2>5 DEF TypeOK, hwVars
<1>4. OccurrencesFit'
  <2>1. Occurring(t)' = Occurring(t) \cup {x}
    <3>1. \A y \in Range(Table[t]) : y \in Errors
      BY LoggerAssumption DEF Range
    <3> QED BY <1>0, <1>2, <3>1 DEF Occurring, TypeOK
  <2>2. \A s \in Devices \ {t} : Occurring(s)' = Occurring(s)
    BY <1>2 DEF Occurring, TypeOK
  <2>3. ASSUME NEW s \in Devices
        PROVE  /\ \A y \in Errors : occ'[s][y] = IF y \in Occurring(s)' THEN 1 ELSE 0
               /\ num'[s] = Cardinality(Occurring(s)')
               /\ num'[s] <= MAX_ERROR_COUNT
    <3>1. CASE s = t
      <4>1. num'[t] = Cardinality(Occurring(t)') /\ num'[t] <= MAX_ERROR_COUNT
        BY <1>1, <1>2, <2>1, LoggerAssumption DEF TypeOK
      <4>2. \A y \in Errors : occ'[t][y] = IF y = x THEN 1 ELSE occ[t][y]
        BY <1>2 DEF TypeOK
      <4>3. \A y \in Errors : occ[t][y] = IF y \in Occurring(t) THEN 1 ELSE 0
        BY DEF OccurrencesFit
      <4>4. \A y \in Errors : occ'[t][y] = IF y \in Occurring(t) \cup {x} THEN 1 ELSE 0
        BY <4>2, <4>3
      <4> QED BY <2>1, <3>1, <4>1, <4>4
    <3>2. CASE s # t
      BY <1>2, <2>2, <3>2 DEF OccurrencesFit, TypeOK
    <3> QED BY <3>1, <3>2
  <2> QED BY <2>3 DEF OccurrencesFit
<1>5. Owed'
  <2>0. pc' = "poll" /\ UNCHANGED <<hw, rises>>
    BY DEF Report, hwVars
  <2>1. ASSUME NEW s \in Devices, NEW y \in Errors
        PROVE  /\ reports'[s][y] <= rises[s][y]
               /\ hw[s][y] # 0 /\ occ'[s][y] = 0 => reports'[s][y] < rises[s][y]
    <3>1. CASE s = t /\ y = x
      <4>1. reports[t][x] < rises[t][x]
        BY <1>0 DEF Owed, ActingOn
      <4>2. reports'[t][x] = reports[t][x] + 1
        BY DEF Report, TypeOK
      <4>3. occ'[t][x] = 1
        BY <1>2 DEF TypeOK
      <4> QED BY <3>1, <4>1, <4>2, <4>3 DEF TypeOK
    <3>2. CASE ~(s = t /\ y = x)
      <4>1. reports'[s][y] = reports[s][y] /\ occ'[s][y] = occ[s][y]
        BY <1>2, <3>2 DEF Report, TypeOK
      <4> QED BY <4>1 DEF Owed
    <3> QED BY <3>1, <3>2
  <2> QED BY <2>0, <2>1 DEF Owed, ActingOn
<1> QED BY <1>3, <1>4, <1>5 DEF AtEntry, Fresh, Report

\* NoError: clear_occurrences_of forgets the entry just read clear.
LEMMA NoErrorInv == ASSUME Inv, NoError PROVE Inv'
<1> USE DEF Inv
<1>a. PICK t \in Devices, x \in Errors : t = Device /\ x = Entry /\ x \in Range(Table[t])
  BY EntryType DEF NoError, AtEntry
<1>0. t \in Devices /\ x \in Errors /\ x \in Range(Table[t]) /\ pc = "act" /\ err = 0
  BY <1>a DEF NoError
<1>1. occ' = [occ EXCEPT ![t][x] = 0] /\ num' = [num EXCEPT ![t] = @ - occ[t][x]]
  BY <1>a DEF NoError, clear_occurrences_of
<1>2. ASSUME NEW s \in Devices
      PROVE  /\ \A y \in Errors : occ'[s][y] = IF y \in Occurring(s)' THEN 1 ELSE 0
             /\ num'[s] = Cardinality(Occurring(s)')
             /\ num'[s] <= MAX_ERROR_COUNT /\ num'[s] \in Nat
  <2>0. \A y \in Range(Table[s]) : y \in Errors
    BY LoggerAssumption DEF Range
  <2>1. CASE s = t
    <3>1. Occurring(t)' = Occurring(t) \ {x}
      BY <1>0, <1>1, <2>0, <2>1 DEF Occurring, TypeOK
    <3>2. Cardinality(Occurring(t) \ {x}) =
            IF x \in Occurring(t) THEN Cardinality(Occurring(t)) - 1
                                  ELSE Cardinality(Occurring(t))
      BY <1>0, OccurringFinite, FS_RemoveElement, Zenon
    <3>3. IsFiniteSet(Occurring(t) \ {x})
      BY <1>0, OccurringFinite, FS_RemoveElement
    <3>4. Cardinality(Occurring(t) \ {x}) \in Nat
      BY <3>3, FS_CardinalityType
    <3>5. /\ num[t] = Cardinality(Occurring(t)) /\ num[t] <= MAX_ERROR_COUNT
          /\ num[t] \in Nat /\ occ[t][x] = IF x \in Occurring(t) THEN 1 ELSE 0
      BY <1>0 DEF OccurrencesFit, TypeOK
    <3>6. num'[t] = num[t] - occ[t][x]
      BY <1>0, <1>1 DEF TypeOK
    <3>7. num'[t] = Cardinality(Occurring(t)') /\ num'[t] <= MAX_ERROR_COUNT
      BY <3>1, <3>2, <3>4, <3>5, <3>6, LoggerAssumption
    <3>8. \A y \in Errors : occ'[t][y] = IF y \in Occurring(t)' THEN 1 ELSE 0
      BY <1>0, <1>1, <3>1 DEF OccurrencesFit, TypeOK
    <3> QED BY <2>1, <3>1, <3>4, <3>7, <3>8
  <2>2. CASE s # t
    <3>1. Occurring(s)' = Occurring(s)
      BY <1>0, <1>1, <2>0, <2>2 DEF Occurring, TypeOK
    <3> QED BY <1>0, <1>1, <2>2, <3>1 DEF OccurrencesFit, TypeOK
  <2> QED BY <2>1, <2>2
<1>3. TypeOK'
  <2>1. occ' \in [Devices -> [Errors -> Nat]]
    BY <1>0, <1>1 DEF TypeOK
  <2>2. num' \in [Devices -> Nat]
    <3>1. DOMAIN num' = Devices /\ num' = [s \in Devices |-> num'[s]]
      BY <1>0, <1>1, ZenonT(40) DEF TypeOK
    <3> QED BY <1>2, <3>1
  <2>4. e' \in Nat \ {0} /\ UNCHANGED <<n, list, d>> /\ UNCHANGED <<running, hwVars>>
    BY DEF TypeOK, NoError, NextEntry
  <2>5. pc' = "poll" /\ UNCHANGED <<err, reports, logged>>
    BY DEF NoError
  <2> QED BY <2>1, <2>2, <2>4, <2>5 DEF TypeOK, hwVars
<1>4. Owed'
  <2>0. pc' = "poll" /\ UNCHANGED <<hw, rises, reports>>
    BY DEF NoError, hwVars
  <2>1. ASSUME NEW s \in Devices, NEW y \in Errors, hw[s][y] # 0, occ'[s][y] = 0
        PROVE  reports[s][y] < rises[s][y]
    <3>1. CASE s = t /\ y = x
      BY <1>a, <1>0, <2>1, <3>1 DEF Owed, ActingOn
    <3>2. CASE ~(s = t /\ y = x)
      BY <1>0, <1>1, <2>1, <3>2 DEF Owed, TypeOK
    <3> QED BY <3>1, <3>2
  <2> QED BY <2>0, <2>1 DEF Owed, ActingOn
<1> QED BY <1>2, <1>3, <1>4 DEF AtEntry, Fresh, NoError, OccurrencesFit

\* Steps of the thread outside poll_error's last part keep Owed: the reports, the
\* memory and the hardware stay as they are.
LEMMA OwedKept ==
  ASSUME Inv, UNCHANGED <<occ, reports, hw, rises>>, pc' # "act"
  PROVE  Owed'
BY DEF Inv, Owed, ActingOn

\* The thread ends without touching what it remembers.
LEMMA ExitInv == ASSUME Inv, Exit PROVE Inv'
<1> USE DEF Inv
<1>1. TypeOK'
  <2>1. list' = <<>> /\ list' \in Seq(Devices) /\ Len(list') = 0
    BY DEF Exit
  <2>2. n' \in 0..Len(Tokens) /\ Len(list') <= n'
    BY <2>1, LoggerAssumption DEF Exit, TypeOK
  <2>3. d' \in Nat \ {0} /\ e' \in Nat \ {0} /\ err' \in Values /\ pc' = "exited"
    BY LoggerAssumption DEF Exit
  <2>4. UNCHANGED <<running, occ, num, reports, logged, hw, changes, rises>>
    BY DEF Exit, hwVars
  <2> QED BY <2>1, <2>2, <2>3, <2>4 DEF TypeOK
<1>2. OccurrencesFit'
  BY OccurrencesKept DEF Exit
<1>3. Owed'
  BY OwedKept DEF Exit, hwVars
<1> QED BY <1>1, <1>2, <1>3 DEF AtEntry, Fresh, Exit

\* A round starts at the first token.
LEMMA StartRoundInv == ASSUME Inv, StartRound PROVE Inv'
<1> USE DEF Inv
<1>1. TypeOK'
  <2>1. d' \in Nat \ {0} /\ e' \in Nat \ {0} /\ pc' = "poll"
    BY DEF StartRound
  <2>2. UNCHANGED <<running, n, list, err, occ, num, reports, logged, hw, changes, rises>>
    BY DEF StartRound, hwVars
  <2> QED BY <2>1, <2>2 DEF TypeOK
<1>2. OccurrencesFit'
  BY OccurrencesKept DEF StartRound
<1>3. Owed'
  BY OwedKept DEF StartRound, hwVars
<1> QED BY <1>1, <1>2, <1>3 DEF AtEntry, Fresh, StartRound

\* Considering a token adds its device to the list or passes over it.
LEMMA ConsiderInv == ASSUME Inv, consider_device PROVE Inv'
<1> USE DEF Inv
<1>0. Tokens[n + 1] \in Devices /\ n' = n + 1 /\ n' \in 0..Len(Tokens) /\ pc = "consider"
  BY LoggerAssumption DEF consider_device, TypeOK
<1>1. UNCHANGED <<running, pc, d, e, err, reports, logged, hw, changes, rises>>
  BY DEF consider_device, hwVars
<1>2. UNCHANGED <<occ, num>>
  <2>1. CASE add_monitored_device(Tokens[n + 1])
    <3>1. PICK t \in Devices : add_monitored_device(t)
      BY <1>0, <2>1
    <3>2. num[t] = 0 \/ Errors = {}
      BY <1>0 DEF Fresh
    <3>3. occ[t] = [x \in Errors |-> 0]
      BY <1>0 DEF Fresh, TypeOK
    <3>4. num[t] = 0
      <4>1. CASE Errors = {}
        <5>1. Occurring(t) = {}
          BY <4>1, LoggerAssumption DEF Occurring, Range
        <5> QED BY <5>1, FS_EmptySet DEF OccurrencesFit
      <4> QED BY <3>2, <4>1
    <3> QED BY <3>1, <3>3, <3>4 DEF add_monitored_device, TypeOK
  <2> QED BY <2>1 DEF consider_device
<1>3. list' \in Seq(Devices) /\ Len(list') <= n'
  <2>1. CASE list' = list
    BY <1>0, <2>1 DEF TypeOK
  <2>2. CASE list' = Cons(Tokens[n + 1], list)
    BY <1>0, <2>2, ConsType DEF TypeOK
  <2> QED BY <2>1, <2>2 DEF consider_device, add_monitored_device
<1>4. TypeOK'
  BY <1>0, <1>1, <1>2, <1>3 DEF TypeOK
<1>5. OccurrencesFit'
  BY <1>2, OccurrencesKept
<1>6. Owed'
  BY <1>0, <1>1, <1>2, OwedKept
<1> QED BY <1>0, <1>1, <1>2, <1>4, <1>5, <1>6 DEF AtEntry, Fresh

\* Reading the register: the value acted on is that of the entry being polled.
LEMMA ReadInv == ASSUME Inv, ReadObject PROVE Inv'
<1> USE DEF Inv
<1>0. Device \in Devices /\ Entry \in Errors
  BY EntryType DEF ReadObject
<1>1. UNCHANGED <<running, n, list, d, e, occ, num, reports, logged, hw, changes, rises>>
  BY DEF ReadObject, hwVars
<1>2. pc' = "act" /\ err' = hw[Device][Entry] /\ err' \in Values
  BY <1>0 DEF ReadObject, TypeOK
<1>3. TypeOK'
  BY <1>1, <1>2 DEF TypeOK
<1>4. OccurrencesFit'
  BY <1>1, OccurrencesKept
<1>5. Device' = Device /\ Entry' = Entry
  BY <1>1 DEF Device, Entry
<1>6. AtEntry'
  BY <1>1 DEF AtEntry, InRound, InTable, Device, ReadObject
<1>7. Owed'
  BY <1>1, <1>2, <1>5 DEF Owed, ActingOn
<1> QED BY <1>2, <1>3, <1>4, <1>6, <1>7 DEF Fresh

\* Every step of logger_thread.
LEMMA ThreadInv == ASSUME Inv, Thread PROVE Inv'
<1>1. CASE Enumerate
  <2>1. pc' \in {"consider", "exited"} /\ pc = "start"
    BY <1>1 DEF Enumerate
  <2>2. UNCHANGED <<running, n, list, d, e, err, occ, num, reports, logged, hw, changes, rises>>
    BY <1>1 DEF Enumerate, hwVars
  <2>3. TypeOK'
    BY <2>1, <2>2 DEF Inv, TypeOK
  <2>4. Owed' /\ OccurrencesFit'
    BY <2>1, <2>2, OwedKept, OccurrencesKept DEF Inv
  <2> QED BY <2>1, <2>2, <2>3, <2>4 DEF Inv, AtEntry, Fresh
<1>2. CASE ReportedBefore
  <2>1. UNCHANGED <<running, n, list, d, occ, num, reports, logged, hw, changes, rises>>
    BY <1>2 DEF ReportedBefore, NextEntry, hwVars
  <2>2. pc' = "poll" /\ e' \in Nat \ {0} /\ err' \in Values
    BY <1>2, LoggerAssumption DEF ReportedBefore, NextEntry, Inv, TypeOK
  <2>3. TypeOK'
    BY <2>1, <2>2 DEF Inv, TypeOK
  <2>4. Owed' /\ OccurrencesFit'
    BY <2>1, <2>2, OwedKept, OccurrencesKept DEF Inv
  <2> QED BY <2>2, <2>3, <2>4 DEF Inv, AtEntry, Fresh
<1>3. CASE NextDevice
  <2>1. UNCHANGED <<running, pc, n, list, err, occ, num, reports, logged, hw, changes, rises>>
    BY <1>3 DEF NextDevice, hwVars
  <2>2. pc = "poll" /\ e' \in Nat \ {0} /\ d' \in Nat \ {0}
    BY <1>3 DEF NextDevice, Inv, TypeOK
  <2>3. TypeOK'
    BY <2>1, <2>2 DEF Inv, TypeOK
  <2>4. Owed' /\ OccurrencesFit'
    BY <2>1, <2>2, OwedKept, OccurrencesKept DEF Inv
  <2> QED BY <2>1, <2>2, <2>3, <2>4 DEF Inv, AtEntry, Fresh
<1> QED BY <1>1, <1>2, <1>3, ExitInv, StartRoundInv, ConsiderInv, ReadInv, ReportInv,
          NoErrorInv DEF Thread, AllConsidered, ReadFails, EndRound

\* The hardware raising or clearing an entry, at any point of the polling round.
LEMMA ChangeInv ==
  ASSUME Inv, NEW t \in Devices, NEW x \in Errors, NEW v \in Values, Change(t, x, v)
  PROVE  Inv'
<1> USE DEF Inv
<1>1. UNCHANGED <<running, pc, n, list, d, e, err, occ, num, reports, logged>>
  BY DEF Change, threadVars
<1>2. /\ hw' = [hw EXCEPT ![t][x] = v]
      /\ rises' = IF hw[t][x] = 0 THEN [rises EXCEPT ![t][x] = @ + 1] ELSE rises
  BY DEF Change
<1>3. hw' \in [Devices -> [Errors -> Values]] /\ rises' \in [Devices -> [Errors -> Nat]]
  BY <1>2 DEF TypeOK
<1>4. changes' \in Nat
  BY DEF Change, TypeOK
<1>5. TypeOK'
  BY <1>1, <1>3, <1>4 DEF TypeOK
<1>6. OccurrencesFit'
  BY <1>1, OccurrencesKept
<1>7. AtEntry' /\ Fresh'
  BY <1>1 DEF AtEntry, Fresh, InRound, InTable, Device
<1>8. Owed'
  <2>1. \A s \in Devices, y \in Errors : ActingOn(s, y)' <=> ActingOn(s, y)
    BY <1>1 DEF ActingOn, Device, Entry
  <2>2. ASSUME NEW s \in Devices, NEW y \in Errors
        PROVE  /\ reports'[s][y] <= rises'[s][y]
               /\ hw'[s][y] # 0 /\ (occ'[s][y] = 0 \/ (ActingOn(s, y) /\ err' = 0))
                    => reports'[s][y] < rises'[s][y]
               /\ ActingOn(s, y) /\ err' # 0 /\ occ'[s][y] = 0
                    => reports'[s][y] < rises'[s][y]
    <3>1. CASE s = t /\ y = x /\ hw[t][x] = 0
      <4>1. rises'[s][y] = rises[s][y] + 1
        BY <1>2, <3>1 DEF TypeOK
      <4>2. reports[s][y] <= rises[s][y] /\ reports[s][y] \in Nat /\ rises[s][y] \in Nat
        BY DEF Owed, TypeOK
      <4> QED BY <1>1, <4>1, <4>2
    <3>2. CASE s = t /\ y = x /\ hw[t][x] # 0
      BY <1>1, <1>2, <3>2 DEF Owed, TypeOK
    <3>3. CASE ~(s = t /\ y = x)
      <4>1. hw'[s][y] = hw[s][y] /\ rises'[s][y] = rises[s][y]
        BY <1>2, <3>3 DEF TypeOK
      <4> QED BY <1>1, <4>1 DEF Owed
    <3> QED BY <3>1, <3>2, <3>3
  <2> QED BY <2>1, <2>2 DEF Owed
<1> QED BY <1>5, <1>6, <1>7, <1>8

\* One case per step of the thread, of the hardware and of SIGINT.
LEMMA InvStep == ASSUME Inv, [Next]_vars PROVE Inv'
<1>1. CASE sig_handler
  <2>1. running' \in BOOLEAN
    BY <1>1, Zenon DEF sig_handler
  <2>2. UNCHANGED <<threadVars, hwVars>>
    BY <1>1 DEF sig_handler
  <2> QED BY <2>1, <2>2, Zenon DEF threadVars, hwVars, Inv, TypeOK, AtEntry, Fresh, OccurrencesFit,
             Occurring, Owed, ActingOn, Device, Entry, InRound, InTable
<1>2. CASE UNCHANGED vars
  BY <1>2, Zenon DEF vars, threadVars, hwVars, Inv, TypeOK, AtEntry, Fresh, OccurrencesFit,
             Occurring, Owed, ActingOn, Device, Entry, InRound, InTable
<1> QED BY <1>1, <1>2, ThreadInv, ChangeInv DEF Next, Hardware

\* For any hardware behaviour an error is reported at most once per rise, although
\* the register may change between poll_error's read and what follows it.
THEOREM ReportedOncePerRise == Spec => []OncePerRise
<1>1. Inv => OncePerRise
  BY DEF Inv, Owed, OncePerRise
<1>2. Inv /\ [Next]_vars => Inv'
  BY InvStep
<1> QED BY InvInit, <1>1, <1>2, PTL DEF Spec

\* error_occurrences holds each entry of a table at most once, so the test against
\* MAX_ERROR_COUNT in error_just_occurred never succeeds, for any tables that fit.
THEOREM OccurrencesAlwaysFit == Spec => []OccurrencesFit
<1>1. Inv => OccurrencesFit
  BY DEF Inv
<1>2. Inv /\ [Next]_vars => Inv'
  BY InvStep
<1> QED BY InvInit, <1>1, <1>2, PTL DEF Spec
=============================================================================
