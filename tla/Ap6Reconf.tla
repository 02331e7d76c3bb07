----------------------------- MODULE Ap6Reconf -----------------------------
(***************************************************************************)
(* ap6_thread of fpgad and the library calls it makes when it is told of   *)
(* an AP6 event: fpgaOpen, fpgaReconfigureSlot and fpgaClose of Reconf,    *)
(* beside applications that reconfigure and use the same FPGA.             *)
(* An operator X_Fault beside X is X with a plausible mistake in it, for   *)
(* trying the properties on; no specification uses it.                     *)
(***************************************************************************)
EXTENDS Ap6, Reconf

CONSTANT Daemon       \* the thread, among the callers of the library

Apps == Callers \ {Daemon}

\* What validate_bitstream and get_bitstream_json_len find in a NULL bitstream.
ValidGbs ==
  {g \in Gbs : HasGuid(g) /\ (Format[g] = "json" => InterfaceId[g] = Interface)}
JsonGbs == {g \in Gbs : Format[g] = "json"}

ASSUME Ap6ReconfAssumption ==
  Daemon \in Callers /\ Gbs \cap Valid = ValidGbs /\ Gbs \cap Json = JsonGbs

Ap6ReconfInit == Init /\ ReconfInit

\* fpgaOpen of the FME, with no flags.
FmeMode_Shared == "shared"

FmeMode == "excl"

OpenForPr == Open /\ OpenFme(Daemon, FmeMode)

\* fpgaReconfigureSlot with the bitstream held and no flags.
BeginWrite == pc = "write" /\ Begin(Daemon, data, FALSE) /\ UNCHANGED vars

WriteStep == Step(Daemon) /\ UNCHANGED vars

WriteReturns ==
  /\ Return(Daemon)
  /\ Write
  /\ programmed' # programmed <=> call[Daemon].result = "FPGA_OK"

CloseAfterPr == Close /\ CloseFme(Daemon)

DaemonStep ==
  \/ OpenForPr \/ BeginWrite \/ WriteStep \/ WriteReturns \/ CloseAfterPr
  \/ /\ \/ Start \/ ReadBitstreamFails \/ Probe \/ ProbeFails \/ Probed
        \/ TakePost \/ Leave \/ OpenFails
     /\ UNCHANGED libVars

Ap6ReconfNext ==
  \/ DaemonStep
  \/ (SkippedElsewhere \/ Post \/ sig_handler) /\ UNCHANGED libVars
  \/ (\E c \in Apps : CallerStep(c)) /\ UNCHANGED vars
  \/ (\E u \in Users : UserStep(u)) /\ UNCHANGED vars

Ap6ReconfSpec == Ap6ReconfInit /\ [][Ap6ReconfNext]_<<vars, libVars>>

\* The thread is scheduled, and the calls it makes do not wait for anyone.
FairAp6ReconfSpec == Ap6ReconfSpec /\ WF_<<vars, libVars>>(DaemonStep)

-----------------------------------------------------------------------------
\* When the thread counts its bitstream as programmed it is loaded, and from fpgaOpen
\* to fpgaClose nobody else writes the slot, forced reconfigurations included: the
\* thread has the FME to itself.
ProgrammedIsLoaded ==
  [][/\ programmed' # programmed => slot = data
     /\ (handle /\ slot' # slot) => call[Daemon].pc = "pr"]_<<vars, libVars>>
=============================================================================
