------------------------------- MODULE Reconf -------------------------------
(***************************************************************************)
(* fpgaReconfigureSlot of the xfpga plugin (reconf.c): it makes sure that  *)
(* nobody uses the accelerator by opening it exclusively, then sets user   *)
(* clock and power threshold as the bitstream's metadata says, writes the  *)
(* bitstream and closes the accelerator.  The accelerator is found by      *)
(* enumerating (enum.c), which opens and closes every port on the way.     *)
(* Several processes do this, and others open and close the accelerator    *)
(* and set its clock (userclk.c) meanwhile.  Each caller has an FME handle *)
(* of its own, whose lock it holds during the call.                        *)
(* An operator X_Fault beside X is X with a plausible mistake in it, for   *)
(* trying the properties on; no specification uses it.                     *)
(***************************************************************************)
EXTENDS Integers

CONSTANTS
  Callers,      \* call fpgaReconfigureSlot
  Users,        \* use the accelerator
  Bitstreams,   \* 1, 2, ...
  Valid,        \* those with a metadata GUID and, if any, metadata for this FPGA
  Json,         \* those with metadata behind the GUID
  Clock,        \* of each bitstream, clock_frequency_low or _high, 0 for none
  Power,        \* of each bitstream, in watts, 0 for none
  Integrated,   \* the device has power thresholds
  UserClocks    \* frequencies users set

FPGA_BBS_IDLE_POWER == 30
FPGA_GBS_MAX_POWER == 60

Broken == -1    \* a bitstream, or a frequency, that was not set completely

VARIABLES
  fme,        \* per caller, how it has the FME open
  port,       \* per caller and user, how it has the accelerator open
  probe,      \* who has the port open in enum_afu
  call,       \* per caller, the call in progress
  slot,       \* the bitstream that is loaded
  clock,      \* the user clock
  threshold,  \* power_mgmt/threshold1
  disturbed   \* calls during which others changed what they set

hardware == <<slot, clock, threshold, disturbed>>
libVars == <<fme, port, probe, call, hardware>>

\* holds: what open_accel has acquired and still to release.
NoCall == [pc |-> "idle", bits |-> 0, force |-> FALSE, holds |-> {}, result |-> "none"]

ReconfInit ==
  /\ fme = [c \in Callers |-> "none"]
  /\ port = [a \in Callers \cup Users |-> "none"]
  /\ probe = {}
  /\ call = [c \in Callers |-> NoCall]
  /\ slot = 0 /\ clock = 0 /\ threshold = 0
  /\ disturbed = {}

-----------------------------------------------------------------------------
(* The driver: an exclusive open is refused while the device is open, and any     *)
(* open while it is open exclusively.                                             *)

Admits(modes, mode) ==
  /\ "excl" \notin modes
  /\ mode = "excl" => modes \subseteq {"none"}

FmeModes == {fme[c] : c \in Callers}
PortModes ==
  {port[a] : a \in Callers \cup Users} \cup {IF probe = {} THEN "none" ELSE "shared"}

-----------------------------------------------------------------------------
(* Calls around the reconfiguration *)

\* xfpga_fpgaOpen and xfpga_fpgaClose on the FME.
OpenFme(c, mode) ==
  /\ call[c].pc = "idle" /\ fme[c] = "none"
  /\ Admits(FmeModes, mode)
  /\ fme' = [fme EXCEPT ![c] = mode]
  /\ UNCHANGED <<port, probe, call, hardware>>

CloseFme(c) ==
  /\ call[c].pc = "idle" /\ fme[c] # "none"
  /\ fme' = [fme EXCEPT ![c] = "none"]
  /\ UNCHANGED <<port, probe, call, hardware>>

\* A user opens the accelerator, sets its clock and closes it.
UserOpen(u, mode) ==
  /\ port[u] = "none"
  /\ Admits(PortModes, mode)
  /\ port' = [port EXCEPT ![u] = mode]
  /\ UNCHANGED <<fme, probe, call, hardware>>

UserClose(u) ==
  /\ port[u] # "none"
  /\ port' = [port EXCEPT ![u] = "none"]
  /\ UNCHANGED <<fme, probe, call, hardware>>

\* Forced calls go on while others use the accelerator and reconfigure it.
Disturbs(force, a) ==
  disturbed' = disturbed \cup
    {c \in Callers \ {a} : call[c].pc # "idle" /\ (force \/ call[c].force)}

xfpga_fpgaSetUserClock(u, f) ==
  /\ port[u] # "none"
  /\ clock' \in {f, Broken}
  /\ Disturbs(FALSE, u)
  /\ UNCHANGED <<fme, port, probe, call, slot, threshold>>

-----------------------------------------------------------------------------
(* xfpga_fpgaReconfigureSlot *)

\* The call goes on at pc.
Move(c, pc, holds, result) ==
  call' = [call EXCEPT ![c] = [pc |-> pc, bits |-> call[c].bits, force |-> call[c].force,
                               holds |-> holds, result |-> result]]

Goto(c, pc) == Move(c, pc, {}, "none")

\* goto out_unlock with an error, with what open_accel holds released.
Fail(c) == Move(c, "close", {}, "error")

\* handle_check_and_lock and validate_bitstream.
Begin(c, b, force) ==
  /\ call[c].pc = "idle" /\ fme[c] # "none"
  /\ call' = [call EXCEPT ![c] =
       [pc |-> IF b \notin Valid THEN "close" ELSE IF force THEN "clock" ELSE "filter",
        bits |-> b, force |-> force, holds |-> {},
        result |-> IF b \in Valid THEN "none" ELSE "error"]]
  /\ disturbed' = disturbed \ {c}
  /\ UNCHANGED <<fme, port, probe, slot, clock, threshold>>

\* open_accel: the filter is made,
MakeFilter(c) ==
  /\ call[c].pc = "filter"
  /\ \/ Move(c, "probe", {"filter"}, "none")
     \/ Fail(c)
  /\ UNCHANGED <<fme, port, probe, hardware>>

\* xfpga_fpgaEnumerate opens the port for a moment to see whether it can,
enum_afu(c) ==
  /\ call[c].pc = "probe"
  /\ \/ /\ probe' = IF Admits(PortModes, "shared") THEN probe \cup {c} ELSE probe
        /\ Move(c, "probed", {"filter"}, "none")
     \/ Fail(c) /\ UNCHANGED probe
  /\ UNCHANGED <<fme, port, hardware>>

\* and returns a token for it, or none if its GUID cannot be read or memory is short.
Enumerated(c) ==
  /\ call[c].pc = "probed"
  /\ probe' = probe \ {c}
  /\ \/ Move(c, "accel", {"filter", "token"}, "none")
     \/ Fail(c)
  /\ UNCHANGED <<fme, port, hardware>>

\* xfpga_fpgaOpen; token and filter are released.
AccelMode_Shared == "shared"

AccelMode == "excl"

open_accel(c) ==
  /\ call[c].pc = "accel"
  /\ \/ /\ Admits(PortModes, AccelMode)
        /\ port' = [port EXCEPT ![c] = AccelMode]
        /\ Goto(c, "clock")
     \/ Fail(c) /\ UNCHANGED port
  /\ UNCHANGED <<fme, probe, hardware>>

\* read_gbs_metadata and set_afu_userclock.
SetClock(c) ==
  LET b == call[c].bits
  IN  /\ call[c].pc = "clock"
      /\ \/ b \notin Json /\ Goto(c, "pr") /\ UNCHANGED <<clock, disturbed>>
         \/ b \in Json /\ Clock[b] = 0 /\ Goto(c, "power") /\ UNCHANGED <<clock, disturbed>>
         \/ /\ b \in Json /\ Clock[b] # 0
            /\ clock' = Clock[b] /\ Goto(c, "power") /\ Disturbs(call[c].force, c)
         \/ /\ b \in Json /\ Clock[b] # 0
            /\ clock' \in {Clock[b], Broken} /\ Fail(c)
            /\ Disturbs(call[c].force, c)
         \/ b \in Json /\ Fail(c) /\ UNCHANGED <<clock, disturbed>>
      /\ UNCHANGED <<fme, port, probe, slot, threshold>>

\* The threshold set_fpga_pwr_threshold writes; power 0 stands for the most there is.
Threshold(power) == (IF power = 0 THEN FPGA_GBS_MAX_POWER ELSE power) + FPGA_BBS_IDLE_POWER

\* get_fpga_deviceid and set_fpga_pwr_threshold, which only an integrated FPGA has.
set_fpga_pwr_threshold_IfAsked(c) ==
  LET power == Power[call[c].bits]
  IN  /\ call[c].pc = "power"
      /\ \/ /\ Goto(c, "pr")
            /\ IF Integrated /\ power # 0
               THEN /\ power <= FPGA_GBS_MAX_POWER
                    /\ threshold' = Threshold(power)
                    /\ Disturbs(call[c].force, c)
               ELSE UNCHANGED <<threshold, disturbed>>
         \/ Fail(c) /\ UNCHANGED <<threshold, disturbed>>
      /\ UNCHANGED <<fme, port, probe, slot, clock>>

set_fpga_pwr_threshold(c) ==
  LET power == Power[call[c].bits]
  IN  /\ call[c].pc = "power"
      /\ \/ /\ Goto(c, "pr")
            /\ IF Integrated
               THEN /\ power <= FPGA_GBS_MAX_POWER
                    /\ threshold' = Threshold(power)
                    /\ Disturbs(call[c].force, c)
               ELSE UNCHANGED <<threshold, disturbed>>
         \/ Fail(c) /\ UNCHANGED <<threshold, disturbed>>
      /\ UNCHANGED <<fme, port, probe, slot, clock>>

\* opae_fme_port_pr and the error bits it returns.
opae_fme_port_pr(c) ==
  /\ call[c].pc = "pr"
  /\ \/ slot' = call[c].bits /\ Move(c, "close", {}, "FPGA_OK")
     \/ slot' \in {slot, Broken} /\ Fail(c)
  /\ Disturbs(call[c].force, c)
  /\ UNCHANGED <<fme, port, probe, clock, threshold>>

\* out_unlock: the accelerator is closed if it was opened, and the call returns.
Return_KeepOnError(c) ==
  /\ call[c].pc = "close"
  /\ port' = IF call[c].result = "FPGA_OK" THEN [port EXCEPT ![c] = "none"] ELSE port
  /\ call' = [call EXCEPT ![c] = NoCall]
  /\ UNCHANGED <<fme, probe, hardware>>

Return(c) ==
  /\ call[c].pc = "close"
  /\ port' = [port EXCEPT ![c] = "none"]
  /\ call' = [call EXCEPT ![c] = NoCall]
  /\ UNCHANGED <<fme, probe, hardware>>

\* The process is killed: its files are closed.
Killed(c) ==
  /\ call[c].pc # "idle"
  /\ fme' = [fme EXCEPT ![c] = "none"]
  /\ port' = [port EXCEPT ![c] = "none"]
  /\ probe' = probe \ {c}
  /\ call' = [call EXCEPT ![c] = NoCall]
  /\ UNCHANGED hardware

-----------------------------------------------------------------------------
\* The call, up to its return.
Step(c) ==
  \/ MakeFilter(c) \/ enum_afu(c) \/ Enumerated(c) \/ open_accel(c)
  \/ SetClock(c) \/ set_fpga_pwr_threshold(c) \/ opae_fme_port_pr(c)

UserStep(u) ==
  \/ UserClose(u)
  \/ \E mode \in {"shared", "excl"} : UserOpen(u, mode)
  \/ \E f \in UserClocks : xfpga_fpgaSetUserClock(u, f)

\* A process that reconfigures, from its fpgaOpen to its fpgaClose.
CallerStep(c) ==
  \/ \E mode \in {"shared", "excl"} : OpenFme(c, mode)
  \/ \E b \in Bitstreams, force \in BOOLEAN : Begin(c, b, force)
  \/ Step(c) \/ Return(c) \/ CloseFme(c) \/ Killed(c)

ReconfNext == (\E c \in Callers : CallerStep(c)) \/ (\E u \in Users : UserStep(u))

ReconfSpec == ReconfInit /\ [][ReconfNext]_libVars

-----------------------------------------------------------------------------
(* Properties *)

\* Without FPGA_RECONF_FORCE nothing of the slot is changed while someone has the
\* accelerator open, also when it is opened after open_accel looked.
NotWhileInUse ==
  \A c \in Callers : (call[c].pc \in {"clock", "power", "pr"} /\ ~call[c].force) =>
    \A a \in (Callers \cup Users) \ {c} : port[a] = "none"

\* Whichever step failed, a call that returned holds no accelerator, token, filter or
\* probing descriptor.
NothingLeft ==
  \A c \in Callers : call[c].pc = "idle" =>
    port[c] = "none" /\ c \notin probe /\ call[c].holds = {}

\* Clock and threshold are those of b.
SetFor(b) ==
  b \in Json => /\ Clock[b] # 0 => clock = Clock[b]
                /\ Integrated => threshold = Threshold(Power[b])

\* When a call succeeds the bitstream is loaded and runs with its own clock and
\* threshold: between setting them and writing it no other call and no user changes
\* them, unless this call or another is forced.
SettingsOfLoaded ==
  \A c \in Callers :
    (call[c].pc = "close" /\ call[c].result = "FPGA_OK" /\ c \notin disturbed) =>
      slot = call[c].bits /\ SetFor(slot)
=============================================================================
