----------------------------- MODULE PluginMgr -----------------------------
(***************************************************************************)
(* The plugin manager of libopae-c (libopae/pluginmgr.c): fpgaInitialize   *)
(* finds the platforms on the PCI bus, loads each native plugin once and   *)
(* runs the plugins' initialize(); fpgaFinalize undoes all of it; every    *)
(* fpgaEnumerate walks adapter_list.  All three hold adapter_list_lock     *)
(* throughout, so the steps of one call are never interleaved with         *)
(* another's; pc says how far the call that holds the lock has got.  An    *)
(* operator X_Fault beside X is X with a plausible mistake in it, for      *)
(* trying the properties on.                                               *)
(***************************************************************************)
EXTENDS Naturals, Sequences, FiniteSets

CONSTANTS
  N,             \* rows of platform_data_table
  Plugins,       \* libraries
  native_plugin, \* the library of each row
  MaxCalls       \* bound: calls of initialize() a behaviour counts per adapter

Rows == 1..N

ASSUME PluginAssumption ==
  N \in Nat /\ MaxCalls \in Nat /\ native_plugin \in [Rows -> Plugins]

VARIABLES
  present,      \* rows whose device is on the bus
  detected,     \* rows flagged OPAE_PLATFORM_DATA_DETECTED
  loaded,       \* rows flagged OPAE_PLATFORM_DATA_LOADED
  adapter_list,
  initialized,
  dl,           \* dlopen()s of each library not yet undone
  pc, i,        \* where the call holding the lock is
  errors,       \* its error count is not 0
  ret           \* what the last fpgaInitialize returned, "none" after fpgaFinalize

vars == <<present, detected, loaded, adapter_list, initialized, dl, pc, i, errors, ret>>

\* ready: what the last call of the plugin's initialize() reported.
Adapter == [plugin : Plugins, calls : 0..MaxCalls, ready : BOOLEAN]

\* The type invariant of the manager's statics.
TypeOK ==
  /\ present \subseteq Rows /\ detected \subseteq Rows /\ loaded \subseteq Rows
  /\ adapter_list \in Seq(Adapter)
  /\ initialized \in BOOLEAN
  /\ dl \in [Plugins -> Nat]
  /\ pc \in {"idle", "load", "init"}
  /\ i \in Nat \ {0}
  /\ errors \in BOOLEAN
  /\ ret \in {"none", "FPGA_OK", "FPGA_EXCEPTION"}

Init ==
  /\ present \in SUBSET Rows
  /\ detected = {} /\ loaded = {}
  /\ adapter_list = <<>>
  /\ initialized = FALSE
  /\ dl = [p \in Plugins |-> 0]
  /\ pc = "idle" /\ i = 1
  /\ errors = FALSE
  /\ ret = "none"

\* Devices come and go.
Hotplug ==
  /\ present' \in SUBSET Rows
  /\ UNCHANGED <<detected, loaded, adapter_list, initialized, dl, pc, i, errors, ret>>

-----------------------------------------------------------------------------
(* opae_plugin_mgr_initialize *)

Return(rc) == pc' = "idle" /\ ret' = rc

\* opae_plugin_mgr_detect_platforms: an unreadable device ends the scan, and rows
\* seen before it keep their flag.
Detect ==
  /\ pc = "idle"
  /\ ~initialized
  /\ \/ /\ detected' = detected \cup present
        /\ pc' = "load" /\ i' = 1 /\ errors' = FALSE
        /\ UNCHANGED ret
     \/ /\ \E seen \in SUBSET present : detected' = detected \cup seen
        /\ Return("FPGA_EXCEPTION")
        /\ UNCHANGED <<i, errors>>
  /\ UNCHANGED <<present, loaded, adapter_list, initialized, dl>>

InitializeAgain ==
  /\ pc = "idle" /\ initialized
  /\ Return("FPGA_OK")
  /\ UNCHANGED <<present, detected, loaded, adapter_list, initialized, dl, i, errors>>

\* The inner loop over the table.
AlreadyLoaded == \E j \in loaded : native_plugin[j] = native_plugin[i]

SkipRow ==
  /\ pc = "load" /\ i \in Rows
  /\ i \notin detected \/ AlreadyLoaded
  /\ i' = i + 1
  /\ UNCHANGED <<present, detected, loaded, adapter_list, initialized, dl, pc, errors, ret>>

LoadingRow == pc = "load" /\ i \in Rows /\ i \in detected /\ ~AlreadyLoaded

\* dlopen() or calloc() fails: the whole call gives up, before any initialize().
AllocFails ==
  /\ LoadingRow
  /\ Return("FPGA_EXCEPTION")
  /\ errors' = TRUE
  /\ UNCHANGED <<present, detected, loaded, adapter_list, initialized, dl, i>>

\* opae_plugin_mgr_configure_plugin fails and opae_plugin_mgr_free_adapter undoes the
\* dlopen().
ConfigureFails_KeepHandle ==
  /\ LoadingRow
  /\ errors' = TRUE
  /\ i' = i + 1
  /\ dl' = [dl EXCEPT ![native_plugin[i]] = @ + 1]
  /\ UNCHANGED <<present, detected, loaded, adapter_list, initialized, pc, ret>>

ConfigureFails ==
  /\ LoadingRow
  /\ errors' = TRUE
  /\ i' = i + 1
  /\ UNCHANGED <<present, detected, loaded, adapter_list, initialized, dl, pc, ret>>

\* opae_plugin_mgr_register_adapter, at the end of the list.
Register ==
  /\ LoadingRow
  /\ dl' = [dl EXCEPT ![native_plugin[i]] = @ + 1]
  /\ adapter_list' = Append(adapter_list,
                            [plugin |-> native_plugin[i], calls |-> 0, ready |-> FALSE])
  /\ loaded' = loaded \cup {i}
  /\ i' = i + 1
  /\ UNCHANGED <<present, detected, initialized, pc, errors, ret>>

LoadedAll ==
  /\ pc = "load" /\ i > N
  /\ pc' = "init" /\ i' = 1
  /\ UNCHANGED <<present, detected, loaded, adapter_list, initialized, dl, errors, ret>>

\* opae_plugin_mgr_initialize_all, one plugin: every adapter of the list, those that
\* an earlier fpgaInitialize has initialized included.
InitializePlugin ==
  /\ pc = "init" /\ i <= Len(adapter_list)
  /\ adapter_list[i].calls < MaxCalls
  /\ \E ok \in BOOLEAN :
       /\ adapter_list' = [adapter_list EXCEPT
            ![i] = [plugin |-> @.plugin, calls |-> @.calls + 1, ready |-> ok]]
       /\ errors' = (errors \/ ~ok)
  /\ i' = i + 1
  /\ UNCHANGED <<present, detected, loaded, initialized, dl, pc, ret>>

\* platforms_detected counts the rows with the flag.
SetInitialized_Anyway == detected # {}

SetInitialized == ~errors /\ detected # {}

InitializeReturns ==
  /\ pc = "init" /\ i > Len(adapter_list)
  /\ initialized' = SetInitialized
  /\ Return(IF errors THEN "FPGA_EXCEPTION" ELSE "FPGA_OK")
  /\ UNCHANGED <<present, detected, loaded, adapter_list, dl, i, errors>>

-----------------------------------------------------------------------------
(* opae_plugin_mgr_finalize_all: the adapters go whatever their finalize() and
   dlclose() report. *)

ClearedFlags == {}

Finalize ==
  /\ pc = "idle"
  /\ dl' = [p \in Plugins |-> dl[p] - Cardinality({k \in DOMAIN adapter_list : adapter_list[k].plugin = p})]
  /\ adapter_list' = <<>>
  /\ detected' = {} /\ loaded' = ClearedFlags
  /\ initialized' = FALSE
  /\ ret' = "none"
  /\ UNCHANGED <<present, pc, i, errors>>

Next ==
  \/ Hotplug \/ Detect \/ InitializeAgain
  \/ SkipRow \/ AllocFails \/ ConfigureFails \/ Register \/ LoadedAll
  \/ InitializePlugin \/ InitializeReturns \/ Finalize

Spec == Init /\ [][Next]_vars

-----------------------------------------------------------------------------
(* Properties *)

Listed == {adapter_list[k].plugin : k \in DOMAIN adapter_list}

\* A plugin is loaded once: no two adapters of the list are of one library, although
\* many rows of the table name it and a failed fpgaInitialize is tried again.
OneAdapterPerPlugin ==
  \A j, k \in DOMAIN adapter_list :
    adapter_list[j].plugin = adapter_list[k].plugin => j = k

\* The LOADED flags say exactly which plugins are listed, so that a retry loads what
\* is missing and nothing else, and only detected platforms are loaded.
FlagsMatchList ==
  /\ Listed = {native_plugin[r] : r \in loaded}
  /\ loaded \subseteq detected

\* Each dlopen() that was not undone has its adapter: a failed configuration and
\* fpgaFinalize leave no library open.
HandlesMatchList ==
  \A p \in Plugins : dl[p] = IF p \in Listed THEN 1 ELSE 0

\* After every call, failed or not, list, flags and open libraries agree, so that the
\* next fpgaInitialize or fpgaFinalize finds what there is.
LoadedIsListed == OneAdapterPerPlugin /\ FlagsMatchList /\ HandlesMatchList

\* Once fpgaInitialize has marked the library initialized, every platform detected
\* has its plugin in adapter_list and every plugin there last reported success.
ReadyOnceInitialized ==
  initialized =>
    /\ \A r \in detected : native_plugin[r] \in Listed
    /\ \A k \in DOMAIN adapter_list : adapter_list[k].ready

-----------------------------------------------------------------------------
(* What a comment of pluginmgr.c says and a retry makes untrue. *)

\* A plugin whose initialize() succeeded is not initialized a second time before it
\* is finalized ("prevent multiple init.", pluginmgr.c).
InitializedOnce ==
  [][\A k \in DOMAIN adapter_list :
       (adapter_list[k].ready /\ adapter_list' # <<>>)
         => adapter_list'[k].calls = adapter_list[k].calls]_vars
=============================================================================
