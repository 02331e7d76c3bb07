-------------------------- MODULE PluginMgrProofs --------------------------
(***************************************************************************)
(* For any table of platforms, any libraries and any sequence of failing   *)
(* and repeated calls of fpgaInitialize and fpgaFinalize: adapter_list,    *)
(* the LOADED flags and the open libraries agree (LoadedIsListed), and     *)
(* once the library is marked initialized all its plugins are ready        *)
(* (ReadyOnceInitialized).                                                 *)
(***************************************************************************)
EXTENDS PluginMgr, TLAPS, FiniteSetTheorems

\* Leaves go to the SMT solver unless they name another prover.
USE SMTT(120)

\* What the steps of a call have achieved when they reach row or adapter i: without an
\* error so far the rows before i have their plugins and the adapters before i are
\* ready.
Achieved ==
  /\ pc # "idle" => ~initialized
  /\ pc = "load" /\ ~errors => \A r \in detected : r < i => native_plugin[r] \in Listed
  /\ pc = "init" /\ ~errors =>
       /\ \A r \in detected : native_plugin[r] \in Listed
       /\ \A k \in DOMAIN adapter_list : k < i => adapter_list[k].ready

Inv == TypeOK /\ LoadedIsListed /\ Achieved /\ ReadyOnceInitialized

\* The manager starts with nothing loaded.
LEMMA InitInv == Init => Inv
<1> SUFFICES ASSUME Init PROVE Inv
  OBVIOUS
<1>1. TypeOK
  <2>1. present \subseteq Rows /\ detected \subseteq Rows /\ loaded \subseteq Rows
    BY DEF Init
  <2>2. adapter_list \in Seq(Adapter) /\ dl \in [Plugins -> Nat] /\ i \in Nat \ {0}
    BY DEF Init
  <2>3. initialized \in BOOLEAN /\ errors \in BOOLEAN /\ pc = "idle" /\ ret = "none"
    BY Zenon DEF Init
  <2> QED BY <2>1, <2>2, <2>3 DEF TypeOK
<1>2. DOMAIN adapter_list = {} /\ Listed = {}
  BY DEF Init, Listed
<1>3. LoadedIsListed
  BY <1>2 DEF Init, LoadedIsListed, OneAdapterPerPlugin, FlagsMatchList, HandlesMatchList
<1>4. Achieved /\ ReadyOnceInitialized
  BY DEF Init, Achieved, ReadyOnceInitialized
<1> QED BY <1>1, <1>3, <1>4 DEF Inv

\* Appending an adapter adds its plugin to the listed ones.
LEMMA AppendListed ==
  ASSUME NEW a \in Adapter, adapter_list \in Seq(Adapter),
         adapter_list' = Append(adapter_list, a)
  PROVE  /\ adapter_list' \in Seq(Adapter)
         /\ Listed' = Listed \cup {a.plugin}
         /\ Len(adapter_list') = Len(adapter_list) + 1
         /\ \A k \in DOMAIN adapter_list : adapter_list'[k] = adapter_list[k]
         /\ adapter_list'[Len(adapter_list) + 1] = a
<1>1. /\ adapter_list' \in Seq(Adapter)
      /\ Len(adapter_list') = Len(adapter_list) + 1
      /\ \A k \in DOMAIN adapter_list : adapter_list'[k] = adapter_list[k]
      /\ adapter_list'[Len(adapter_list) + 1] = a
      /\ DOMAIN adapter_list' = DOMAIN adapter_list \cup {Len(adapter_list) + 1}
  OBVIOUS
<1>2. Listed' = Listed \cup {a.plugin}
  BY <1>1 DEF Listed
<1> QED BY <1>1, <1>2

\* opae_plugin_mgr_register_adapter adds a plugin that was not listed.
LEMMA RegisterInv ==
  ASSUME Inv, Register
  PROVE  Inv'
<1> DEFINE p == native_plugin[i]
           a == [plugin |-> p, calls |-> 0, ready |-> FALSE]
<1>0. TypeOK /\ FlagsMatchList /\ OneAdapterPerPlugin /\ HandlesMatchList /\ Achieved
  BY DEF Inv, LoadedIsListed
<1>1. /\ pc = "load" /\ i \in Rows /\ i \in detected /\ p \in Plugins /\ i \in Nat
      /\ p \notin {native_plugin[r] : r \in loaded}
  <2>1. pc = "load" /\ i \in Rows /\ i \in detected /\ ~AlreadyLoaded
    BY DEF Register, LoadingRow
  <2>2. p \in Plugins
    BY <2>1, PluginAssumption
  <2>3. i \in Nat
    BY <2>1, PluginAssumption DEF Rows
  <2>4. p \notin {native_plugin[r] : r \in loaded}
    BY <2>1 DEF AlreadyLoaded
  <2> QED BY <2>1, <2>2, <2>3, <2>4
<1>2. p \notin Listed
  BY <1>0, <1>1 DEF FlagsMatchList
<1>3. /\ dl' = [dl EXCEPT ![p] = @ + 1] /\ loaded' = loaded \cup {i} /\ i' = i + 1
      /\ adapter_list' = Append(adapter_list, a)
      /\ UNCHANGED <<present, detected, initialized, pc, errors, ret>>
  BY DEF Register
<1>4. a \in Adapter
  BY <1>1, PluginAssumption DEF Adapter
<1> HIDE DEF a
<1>5. a.plugin = p
  BY DEF a
<1> HIDE DEF p
<1>6. /\ adapter_list' \in Seq(Adapter) /\ Listed' = Listed \cup {p}
      /\ Len(adapter_list') = Len(adapter_list) + 1
      /\ \A k \in DOMAIN adapter_list : adapter_list'[k] = adapter_list[k]
      /\ adapter_list'[Len(adapter_list) + 1] = a
  BY <1>0, <1>3, <1>4, <1>5, AppendListed DEF TypeOK
<1>7. TypeOK'
  BY <1>0, <1>1, <1>3, <1>6 DEF TypeOK
<1>8. OneAdapterPerPlugin'
  <2>1. \A k \in DOMAIN adapter_list : adapter_list[k].plugin # p
    BY <1>2 DEF Listed
  <2>2. DOMAIN adapter_list' = DOMAIN adapter_list \cup {Len(adapter_list) + 1}
    BY <1>0, <1>6 DEF TypeOK
  <2> QED BY <1>0, <1>5, <1>6, <2>1, <2>2 DEF OneAdapterPerPlugin
<1>9. FlagsMatchList'
  <2>1. {native_plugin[r] : r \in loaded'} = {native_plugin[r] : r \in loaded} \cup {p}
    BY <1>3 DEF p
  <2> QED BY <1>0, <1>1, <1>3, <1>6, <2>1 DEF FlagsMatchList
<1>10. HandlesMatchList'
  BY <1>0, <1>1, <1>2, <1>3, <1>6 DEF HandlesMatchList, TypeOK
<1>11. Achieved'
  <2>1. ASSUME ~errors, NEW r \in detected, r < i + 1
        PROVE  native_plugin[r] \in Listed \cup {p}
    <3>1. r \in Nat /\ (r < i \/ r = i)
      BY <1>0, <1>1, <2>1 DEF TypeOK, Rows
    <3> QED BY <1>0, <1>1, <2>1, <3>1 DEF Achieved, p
  <2> QED BY <1>0, <1>1, <1>3, <1>6, <2>1 DEF Achieved
<1>12. ReadyOnceInitialized'
  BY <1>0, <1>1, <1>3 DEF Achieved, ReadyOnceInitialized
<1> QED BY <1>7, <1>8, <1>9, <1>10, <1>11, <1>12 DEF Inv, LoadedIsListed

\* The steps that leave the list, the LOADED flags and the libraries alone, given that
\* flags are only added to the detected ones.
LEMMA SameList ==
  ASSUME LoadedIsListed, UNCHANGED <<loaded, adapter_list, dl>>, detected \subseteq detected'
  PROVE  LoadedIsListed' /\ Listed' = Listed
<1>1. Listed' = Listed
  BY DEF Listed
<1>2. OneAdapterPerPlugin'
  BY DEF LoadedIsListed, OneAdapterPerPlugin
<1>3. FlagsMatchList'
  BY <1>1 DEF LoadedIsListed, FlagsMatchList
<1>4. HandlesMatchList'
  BY <1>1 DEF LoadedIsListed, HandlesMatchList
<1> QED BY <1>1, <1>2, <1>3, <1>4 DEF LoadedIsListed

\* The scan of the bus only adds flags, and only while the library is not initialized.
LEMMA DetectInv ==
  ASSUME Inv, Detect
  PROVE  Inv'
<1>0. TypeOK /\ LoadedIsListed
  BY DEF Inv
<1>1. /\ ~initialized /\ UNCHANGED <<present, loaded, adapter_list, initialized, dl>>
      /\ detected \subseteq detected' /\ detected' \subseteq Rows
      /\ \/ pc' = "load" /\ i' = 1 /\ errors' = FALSE /\ ret' = ret
         \/ pc' = "idle" /\ ret' = "FPGA_EXCEPTION" /\ UNCHANGED <<i, errors>>
  <2>1. /\ ~initialized /\ UNCHANGED <<present, loaded, adapter_list, initialized, dl>>
        /\ \/ pc' = "load" /\ i' = 1 /\ errors' = FALSE /\ ret' = ret
           \/ pc' = "idle" /\ ret' = "FPGA_EXCEPTION" /\ UNCHANGED <<i, errors>>
    BY DEF Detect, Return
  <2>2. PICK seen \in SUBSET present : detected' = detected \cup seen
    BY DEF Detect
  <2>3. detected \subseteq Rows /\ present \subseteq Rows
    BY <1>0 DEF TypeOK
  <2> QED BY <2>1, <2>2, <2>3
<1>2. TypeOK'
  <2>1. initialized' \in BOOLEAN /\ errors' \in BOOLEAN
    BY <1>0, <1>1, Zenon DEF TypeOK
  <2> QED BY <1>0, <1>1, <2>1 DEF TypeOK
<1>3. LoadedIsListed'
  BY <1>0, <1>1, SameList
<1>4. \A r \in detected' : ~(r < 1)
  BY <1>1, PluginAssumption DEF Rows
<1>5. Achieved' /\ ReadyOnceInitialized'
  BY <1>1, <1>4 DEF Achieved, ReadyOnceInitialized
<1> QED BY <1>2, <1>3, <1>5 DEF Inv

\* A row that is skipped has its plugin listed, or was not detected.
LEMMA SkipRowInv ==
  ASSUME Inv, SkipRow
  PROVE  Inv'
<1>0. TypeOK /\ LoadedIsListed /\ Achieved
  BY DEF Inv
<1>1. /\ pc = "load" /\ i \in Nat /\ i' = i + 1 /\ (i \notin detected \/ AlreadyLoaded)
      /\ UNCHANGED <<present, detected, loaded, adapter_list, initialized, dl, pc, errors, ret>>
  BY <1>0 DEF SkipRow, TypeOK
<1>2. TypeOK'
  BY <1>0, <1>1 DEF TypeOK
<1>3. LoadedIsListed' /\ Listed' = Listed
  BY <1>0, <1>1, SameList
<1>4. AlreadyLoaded => native_plugin[i] \in Listed
  BY <1>0 DEF AlreadyLoaded, LoadedIsListed, FlagsMatchList
<1>5. ASSUME ~errors, NEW r \in detected, r < i + 1
      PROVE  native_plugin[r] \in Listed
  <2>1. r \in Nat /\ (r < i \/ r = i)
    BY <1>0, <1>1, <1>5, PluginAssumption DEF TypeOK, Rows
  <2> QED BY <1>0, <1>1, <1>4, <1>5, <2>1 DEF Achieved
<1>6. Achieved' /\ ReadyOnceInitialized'
  BY <1>0, <1>1, <1>3, <1>5 DEF Achieved, ReadyOnceInitialized
<1> QED BY <1>2, <1>3, <1>6 DEF Inv

\* A failure in the loading loop is counted, which excuses what is missing.
LEMMA LoadFailsInv ==
  ASSUME Inv, AllocFails \/ ConfigureFails
  PROVE  Inv'
<1>0. TypeOK /\ LoadedIsListed /\ Achieved
  BY DEF Inv
<1>1. /\ pc = "load" /\ errors' = TRUE /\ i' \in Nat \ {0}
      /\ pc' \in {"idle", "load"} /\ ret' \in {ret, "FPGA_EXCEPTION"}
      /\ UNCHANGED <<present, detected, loaded, adapter_list, initialized, dl>>
  BY <1>0 DEF AllocFails, ConfigureFails, LoadingRow, Return, TypeOK
<1>2. TypeOK'
  BY <1>0, <1>1 DEF TypeOK
<1>3. LoadedIsListed'
  BY <1>0, <1>1, SameList
<1>4. Achieved' /\ ReadyOnceInitialized'
  BY <1>0, <1>1 DEF Achieved, ReadyOnceInitialized
<1> QED BY <1>2, <1>3, <1>4 DEF Inv

\* At the end of the table every detected row has its plugin.
LEMMA LoadedAllInv ==
  ASSUME Inv, LoadedAll
  PROVE  Inv'
<1>0. TypeOK /\ LoadedIsListed /\ Achieved
  BY DEF Inv
<1>1. /\ pc = "load" /\ i > N /\ pc' = "init" /\ i' = 1
      /\ UNCHANGED <<present, detected, loaded, adapter_list, initialized, dl, errors, ret>>
  BY DEF LoadedAll
<1>2. TypeOK'
  BY <1>0, <1>1 DEF TypeOK
<1>3. LoadedIsListed' /\ Listed' = Listed
  BY <1>0, <1>1, SameList
<1>4. \A r \in detected : r < i
  BY <1>0, <1>1, PluginAssumption DEF TypeOK, Rows
<1>5. \A k \in DOMAIN adapter_list' : ~(k < 1)
  BY <1>2 DEF TypeOK
<1>6. Achieved' /\ ReadyOnceInitialized'
  BY <1>0, <1>1, <1>3, <1>4, <1>5 DEF Achieved, ReadyOnceInitialized
<1> QED BY <1>2, <1>3, <1>6 DEF Inv

\* A call of a plugin's initialize() changes its adapter's result and no plugin.
LEMMA InitializePluginInv ==
  ASSUME Inv, InitializePlugin
  PROVE  Inv'
<1>0. TypeOK /\ LoadedIsListed /\ Achieved
  BY DEF Inv
<1>1. PICK ok \in BOOLEAN :
        /\ adapter_list' = [adapter_list EXCEPT
             ![i] = [plugin |-> @.plugin, calls |-> @.calls + 1, ready |-> ok]]
        /\ errors' = (errors \/ ~ok)
  BY Zenon DEF InitializePlugin
<1>2. /\ pc = "init" /\ i <= Len(adapter_list) /\ adapter_list[i].calls < MaxCalls
      /\ i' = i + 1 /\ UNCHANGED <<present, detected, loaded, initialized, dl, pc, ret>>
  BY DEF InitializePlugin
<1>3. i \in DOMAIN adapter_list /\ i \in Nat /\ adapter_list[i] \in Adapter
  BY <1>0, <1>2 DEF TypeOK
<1>4. PICK a \in Adapter :
        /\ a.plugin = adapter_list[i].plugin /\ a.ready = ok
        /\ adapter_list' = [adapter_list EXCEPT ![i] = a]
  <2> DEFINE b == [plugin |-> adapter_list[i].plugin,
                   calls |-> adapter_list[i].calls + 1, ready |-> ok]
  <2>1. b \in Adapter
    BY <1>2, <1>3, PluginAssumption DEF Adapter
  <2>2. adapter_list' = [adapter_list EXCEPT ![i] = b]
    BY <1>1
  <2>3. b.plugin = adapter_list[i].plugin /\ b.ready = ok
    OBVIOUS
  <2> HIDE DEF b
  <2> QED BY <2>1, <2>2, <2>3, Zenon
<1>5. /\ adapter_list' \in Seq(Adapter) /\ DOMAIN adapter_list' = DOMAIN adapter_list
      /\ \A k \in DOMAIN adapter_list : adapter_list'[k].plugin = adapter_list[k].plugin
      /\ \A k \in DOMAIN adapter_list : k # i => adapter_list'[k] = adapter_list[k]
      /\ adapter_list'[i].ready = ok
  BY <1>0, <1>3, <1>4 DEF TypeOK
<1>6. Listed' = Listed
  BY <1>5 DEF Listed
<1>7. errors' \in BOOLEAN
  BY <1>0, <1>1 DEF TypeOK
<1>8. TypeOK'
  BY <1>0, <1>2, <1>3, <1>5, <1>7 DEF TypeOK
<1>9. LoadedIsListed'
  <2>1. OneAdapterPerPlugin'
    BY <1>0, <1>5 DEF LoadedIsListed, OneAdapterPerPlugin
  <2> QED BY <1>0, <1>2, <1>6, <2>1 DEF LoadedIsListed, FlagsMatchList, HandlesMatchList
<1>10. Achieved'
  <2>1. ~errors' => ~errors /\ ok
    BY <1>1, Zenon
  <2>2. ASSUME ~errors', NEW k \in DOMAIN adapter_list', k < i + 1
        PROVE  adapter_list'[k].ready
    <3>1. k \in Nat /\ (k < i \/ k = i)
      BY <1>0, <1>3, <1>5, <2>2 DEF TypeOK
    <3>2. CASE k = i
      BY <1>5, <2>1, <2>2, <3>2, Zenon
    <3>3. CASE k < i
      <4>1. adapter_list'[k] = adapter_list[k] /\ k \in DOMAIN adapter_list
        BY <1>3, <1>5, <3>1, <3>3
      <4>2. adapter_list[k].ready
        BY <1>0, <1>2, <2>1, <2>2, <3>3, <4>1 DEF Achieved
      <4> QED BY <4>1, <4>2
    <3> QED BY <3>1, <3>2, <3>3
  <2> QED BY <1>0, <1>2, <1>6, <2>1, <2>2 DEF Achieved
<1>11. ReadyOnceInitialized'
  BY <1>0, <1>2 DEF Achieved, ReadyOnceInitialized
<1> QED BY <1>8, <1>9, <1>10, <1>11 DEF Inv

\* Without an error all plugins are listed and ready when the call returns.
LEMMA InitializeReturnsInv ==
  ASSUME Inv, InitializeReturns
  PROVE  Inv'
<1>0. TypeOK /\ LoadedIsListed /\ Achieved
  BY DEF Inv
<1>1. /\ pc = "init" /\ i > Len(adapter_list) /\ pc' = "idle"
      /\ ret' \in {"FPGA_OK", "FPGA_EXCEPTION"}
      /\ UNCHANGED <<present, detected, loaded, adapter_list, dl, i, errors>>
  BY DEF InitializeReturns, Return
<1>2. initialized' = (~errors /\ detected # {})
  BY DEF InitializeReturns, SetInitialized
<1>3. initialized' \in BOOLEAN
  BY <1>2
<1>4. TypeOK'
  BY <1>0, <1>1, <1>3 DEF TypeOK
<1>5. LoadedIsListed' /\ Listed' = Listed
  BY <1>0, <1>1, SameList
<1>6. \A k \in DOMAIN adapter_list : k < i
  BY <1>0, <1>1 DEF TypeOK
<1>7. ReadyOnceInitialized'
  <2>1. ASSUME initialized'
        PROVE  /\ \A r \in detected : native_plugin[r] \in Listed
               /\ \A k \in DOMAIN adapter_list : adapter_list[k].ready
    <3>1. ~errors
      BY <1>2, <2>1, Zenon
    <3> QED BY <1>0, <1>1, <1>6, <3>1 DEF Achieved
  <2> QED BY <1>1, <1>5, <2>1 DEF ReadyOnceInitialized
<1>8. Achieved'
  BY <1>1 DEF Achieved
<1> QED BY <1>4, <1>5, <1>7, <1>8 DEF Inv

\* fpgaFinalize closes each library as often as it has adapters, which is once for
\* those listed.
LEMMA FinalizeInv ==
  ASSUME Inv, Finalize
  PROVE  Inv'
<1>0. TypeOK /\ OneAdapterPerPlugin /\ HandlesMatchList
  BY DEF Inv, LoadedIsListed
<1> DEFINE At(p) == {k \in DOMAIN adapter_list : adapter_list[k].plugin = p}
<1>1. /\ pc = "idle" /\ dl' = [p \in Plugins |-> dl[p] - Cardinality(At(p))]
      /\ adapter_list' = <<>> /\ detected' = {} /\ loaded' = {}
      /\ initialized' = FALSE /\ ret' = "none" /\ UNCHANGED <<present, pc, i, errors>>
  BY DEF Finalize, ClearedFlags
<1>2. ASSUME NEW p \in Plugins
      PROVE  dl[p] = Cardinality(At(p))
  <2>1. CASE p \in Listed
    <3>1. PICK k \in DOMAIN adapter_list : adapter_list[k].plugin = p
      BY <2>1 DEF Listed
    <3>2. At(p) = {k}
      BY <1>0, <3>1 DEF OneAdapterPerPlugin
    <3>3. Cardinality({k}) = 1
      BY FS_Singleton
    <3> QED BY <1>0, <2>1, <3>2, <3>3 DEF HandlesMatchList
  <2>2. CASE p \notin Listed
    <3>1. At(p) = {}
      BY <2>2 DEF Listed
    <3> QED BY <1>0, <2>2, <3>1, FS_EmptySet DEF HandlesMatchList
  <2> QED BY <2>1, <2>2
<1>3. dl' = [p \in Plugins |-> 0]
  BY <1>0, <1>1, <1>2 DEF TypeOK
<1> HIDE DEF At
<1>4. DOMAIN adapter_list' = {} /\ Listed' = {}
  BY <1>1 DEF Listed
<1>5. TypeOK'
  <2>1. initialized' \in BOOLEAN /\ errors' \in BOOLEAN
    BY <1>0, <1>1, Zenon DEF TypeOK
  <2> QED BY <1>0, <1>1, <1>3, <2>1 DEF TypeOK
<1>6. LoadedIsListed'
  BY <1>1, <1>3, <1>4
  DEF LoadedIsListed, OneAdapterPerPlugin, FlagsMatchList, HandlesMatchList
<1>7. Achieved' /\ ReadyOnceInitialized'
  BY <1>1 DEF Achieved, ReadyOnceInitialized
<1> QED BY <1>5, <1>6, <1>7 DEF Inv

\* Devices that come and go, and fpgaInitialize of an initialized library, change
\* nothing the manager relies on.
LEMMA IdleInv ==
  ASSUME Inv, Hotplug \/ InitializeAgain \/ UNCHANGED vars
  PROVE  Inv'
<1>0. TypeOK /\ LoadedIsListed
  BY DEF Inv
<1>1. /\ UNCHANGED <<detected, loaded, adapter_list, initialized, dl, pc, i, errors>>
      /\ present' \in SUBSET Rows /\ ret' \in {ret, "FPGA_OK"}
  BY <1>0 DEF Hotplug, InitializeAgain, Return, vars, TypeOK
<1>2. TypeOK'
  BY <1>0, <1>1 DEF TypeOK
<1>3. LoadedIsListed' /\ Listed' = Listed
  BY <1>0, <1>1, SameList
<1>4. Achieved' /\ ReadyOnceInitialized'
  BY <1>1, <1>3 DEF Inv, Achieved, ReadyOnceInitialized
<1> QED BY <1>2, <1>3, <1>4 DEF Inv

\* Every step of a call keeps the invariant.
LEMMA NextInv == Inv /\ [Next]_vars => Inv'
<1> SUFFICES ASSUME Inv, [Next]_vars PROVE Inv'
  OBVIOUS
<1>1. CASE Hotplug \/ InitializeAgain \/ UNCHANGED vars
  BY <1>1, IdleInv
<1>2. CASE Detect
  BY <1>2, DetectInv
<1>3. CASE SkipRow
  BY <1>3, SkipRowInv
<1>4. CASE AllocFails \/ ConfigureFails
  BY <1>4, LoadFailsInv
<1>5. CASE Register
  BY <1>5, RegisterInv
<1>6. CASE LoadedAll
  BY <1>6, LoadedAllInv
<1>7. CASE InitializePlugin
  BY <1>7, InitializePluginInv
<1>8. CASE InitializeReturns
  BY <1>8, InitializeReturnsInv
<1>9. CASE Finalize
  BY <1>9, FinalizeInv
<1> QED BY <1>1, <1>2, <1>3, <1>4, <1>5, <1>6, <1>7, <1>8, <1>9 DEF Next

\* adapter_list, the LOADED flags and the libraries opened agree after any sequence of
\* calls, failed ones and retries included.
THEOREM AlwaysListed == Spec => []LoadedIsListed
<1>1. Inv => LoadedIsListed
  BY DEF Inv
<1> QED BY InitInv, NextInv, <1>1, PTL DEF Spec

\* A library marked initialized has a plugin that reported success for every platform
\* it detected.
THEOREM AlwaysReady == Spec => []ReadyOnceInitialized
<1>1. Inv => ReadyOnceInitialized
  BY DEF Inv
<1> QED BY InitInv, NextInv, <1>1, PTL DEF Spec
============================================================================
