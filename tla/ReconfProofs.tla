---------------------------- MODULE ReconfProofs ----------------------------
(***************************************************************************)
(* Proofs about Reconf, for any number of callers and users.  The argument *)
(* is that of a lock: the accelerator is open exclusively for at most one  *)
(* of them and then open for no one else, and between open_accel and       *)
(* fpgaClose a call that is not forced is that one.                        *)
(***************************************************************************)
EXTENDS Reconf, TLAPS

Actors == Callers \cup Users
Modes == {"none", "shared", "excl"}

CallRecord ==
  [pc : {"idle", "filter", "probe", "probed", "accel", "clock", "power", "pr", "close"},
   bits : {0} \cup Bitstreams, force : BOOLEAN, holds : SUBSET {"filter", "token"},
   result : {"none", "FPGA_OK", "error"}]

\* The type invariant.
Types ==
  /\ fme \in [Callers -> Modes]
  /\ port \in [Actors -> Modes]
  /\ probe \subseteq Callers
  /\ call \in [Callers -> CallRecord]

\* Who has the accelerator exclusively is alone, probing included.
Alone ==
  \A a \in Actors : port[a] = "excl" =>
    probe = {} /\ \A b \in Actors \ {a} : port[b] = "none"

\* What a call holds at each step.
Held(c) ==
  /\ call[c].pc \in {"clock", "power", "pr"} /\ call[c].force = FALSE => port[c] = "excl"
  /\ call[c].pc \in {"idle", "filter", "probe", "probed", "accel"} => port[c] = "none"
  /\ c \in probe => call[c].pc = "probed"
  /\ call[c].holds # {} => call[c].pc \in {"probe", "probed", "accel"}

HoldsInv == Types /\ Alone /\ \A c \in Callers : Held(c)

USE SMTT(120)

\* The driver admits an exclusive open only while nobody has the port open.
LEMMA AdmitsExclusive ==
  ASSUME Types, Admits(PortModes, "excl")
  PROVE  probe = {} /\ \A a \in Actors : port[a] = "none"
  BY DEF Admits, PortModes, Types, Actors, Modes

\* A shared open is refused while the accelerator is open exclusively.
LEMMA AdmitsShared ==
  ASSUME Types, NEW mode \in {"shared", "excl"}, Admits(PortModes, mode)
  PROVE  \A a \in Actors : port[a] # "excl"
  BY DEF Admits, PortModes, Types, Actors, Modes

\* The invariant holds at the start, when nothing is open.
LEMMA HoldsInit ==
  ASSUME ReconfInit
  PROVE  HoldsInv
  BY DEF ReconfInit, HoldsInv, Types, Alone, Held, NoCall, CallRecord, Actors, Modes

\* What Move does to the call and leaves to the others.
LEMMA MoveChanges ==
  ASSUME HoldsInv, NEW c \in Callers,
         NEW pc \in {"probe", "probed", "accel", "clock", "power", "pr", "close"},
         NEW holds \in SUBSET {"filter", "token"}, NEW result \in {"none", "FPGA_OK", "error"},
         Move(c, pc, holds, result)
  PROVE  /\ call' \in [Callers -> CallRecord]
         /\ call'[c].pc = pc /\ call'[c].force = call[c].force /\ call'[c].holds = holds
         /\ call'[c].bits = call[c].bits /\ call'[c].result = result
         /\ \A k \in Callers \ {c} : call'[k] = call[k]
  <1> DEFINE new == [pc |-> pc, bits |-> call[c].bits, force |-> call[c].force,
                     holds |-> holds, result |-> result]
  <1>1. new \in CallRecord
    BY DEF HoldsInv, Types, CallRecord
  <1>2. call \in [Callers -> CallRecord] /\ call' = [call EXCEPT ![c] = new]
    BY DEF HoldsInv, Types, Move
  <1>3. call' \in [Callers -> CallRecord] /\ call'[c] = new
    BY <1>1, <1>2
  <1> QED
    BY <1>2, <1>3

\* A step of one call that opens and closes nothing.
LEMMA CallMoves ==
  ASSUME HoldsInv, NEW c \in Callers,
         NEW pc \in {"probe", "power", "pr", "close"},
         NEW holds \in SUBSET {"filter", "token"}, NEW result \in {"none", "FPGA_OK", "error"},
         Move(c, pc, holds, result),
         UNCHANGED <<fme, port, probe>>,
         c \notin probe,
         pc \in {"power", "pr"} => call[c].pc \in {"clock", "power"},
         pc = "probe" => call[c].pc = "filter",
         pc # "probe" => holds = {}
  PROVE  HoldsInv'
  <1>1. /\ call' \in [Callers -> CallRecord]
        /\ call'[c].pc = pc /\ call'[c].force = call[c].force /\ call'[c].holds = holds
        /\ \A k \in Callers \ {c} : call'[k] = call[k]
    BY MoveChanges
  <1>2. Types'
    BY <1>1 DEF HoldsInv, Types
  <1>3. Alone'
    BY DEF HoldsInv, Alone
  <1>4. ASSUME NEW k \in Callers PROVE Held(k)'
    <2>0. Held(c) /\ Held(k)
      BY DEF HoldsInv
    <2>1. CASE k = c
      <3>1. (call[c].pc \in {"clock", "power", "pr"} /\ call[c].force = FALSE =>
               port[c] = "excl")
            /\ (pc = "probe" => port[c] = "none")
        BY <2>0 DEF Held
      <3>2. port'[c] = port[c] /\ c \notin probe'
        OBVIOUS
      <3>3. call'[c].pc \in {"power", "pr"} /\ call'[c].force = FALSE => port'[c] = "excl"
        BY <1>1, <3>1, <3>2
      <3>4. call'[c].pc = "probe" => port'[c] = "none"
        BY <1>1, <3>1, <3>2
      <3>5. call'[c].holds # {} => call'[c].pc = "probe"
        <4>1. CASE pc = "probe"
          BY <1>1, <4>1
        <4>2. CASE pc # "probe"
          <5>1. holds = {}
            BY <4>2
          <5>2. call'[c].holds = {}
            BY <1>1, <5>1
          <5> QED
            BY <5>2
        <4> QED
          BY <4>1, <4>2
      <3>6. call'[c].pc \in {"probe", "power", "pr", "close"}
        BY <1>1
      <3>7. Held(c)'
        BY <3>2, <3>3, <3>4, <3>5, <3>6 DEF Held
      <3> QED
        BY <2>1, <3>7
    <2>2. CASE k # c
      BY <1>1, <2>0, <2>2 DEF Held
    <2> QED
      BY <2>1, <2>2
  <1> QED
    BY <1>2, <1>3, <1>4 DEF HoldsInv

\* Every step of a call keeps the invariant.
LEMMA StepHolds ==
  ASSUME HoldsInv, NEW c \in Callers, Step(c)
  PROVE  HoldsInv'
  <1>0. Held(c)
    BY DEF HoldsInv
  <1>1. CASE MakeFilter(c)
    BY <1>0, <1>1, CallMoves DEF MakeFilter, Fail, Held
  <1>2. CASE enum_afu(c)
    <2>1. CASE Fail(c) /\ UNCHANGED probe
      BY <1>0, <1>2, <2>1, CallMoves DEF enum_afu, Fail, Held
    <2>2. CASE /\ probe' = (IF Admits(PortModes, "shared") THEN probe \cup {c} ELSE probe)
               /\ Move(c, "probed", {"filter"}, "none")
      <3>0. /\ call' \in [Callers -> CallRecord]
            /\ call'[c].pc = "probed" /\ call'[c].holds = {"filter"}
            /\ \A k \in Callers \ {c} : call'[k] = call[k]
        BY <2>2, MoveChanges
      <3>1. Types'
        BY <1>2, <2>2, <3>0 DEF enum_afu, HoldsInv, Types
      <3>2. Alone'
        <4>1. CASE Admits(PortModes, "shared")
          BY <1>2, <4>1, AdmitsShared DEF enum_afu, HoldsInv, Alone
        <4>2. CASE ~Admits(PortModes, "shared")
          BY <1>2, <2>2, <4>2 DEF enum_afu, HoldsInv, Alone
        <4> QED
          BY <4>1, <4>2
      <3>3. ASSUME NEW k \in Callers PROVE Held(k)'
        <4>1. CASE k = c
          BY <1>0, <1>2, <3>0, <4>1 DEF enum_afu, Held
        <4>2. CASE k # c
          BY <1>2, <2>2, <3>0, <4>2 DEF enum_afu, HoldsInv, Held
        <4> QED
          BY <4>1, <4>2
      <3> QED
        BY <3>1, <3>2, <3>3 DEF HoldsInv
    <2> QED
      BY <1>2, <2>1, <2>2 DEF enum_afu
  <1>3. CASE Enumerated(c)
    <2>0. /\ call' \in [Callers -> CallRecord]
          /\ \/ call'[c].pc = "accel"
             \/ call'[c].pc = "close" /\ call'[c].holds = {}
          /\ \A k \in Callers \ {c} : call'[k] = call[k]
      <3>1. CASE Move(c, "accel", {"filter", "token"}, "none")
        BY <3>1, MoveChanges
      <3>2. CASE Fail(c)
        BY <3>2, MoveChanges DEF Fail
      <3> QED
        BY <1>3, <3>1, <3>2 DEF Enumerated
    <2>1. Types'
      BY <1>3, <2>0 DEF Enumerated, HoldsInv, Types
    <2>2. Alone'
      BY <1>3 DEF Enumerated, HoldsInv, Alone
    <2>3. ASSUME NEW k \in Callers PROVE Held(k)'
      <3>1. CASE k = c
        BY <1>0, <1>3, <2>0, <3>1 DEF Enumerated, Held
      <3>2. CASE k # c
        BY <1>3, <2>0, <3>2 DEF Enumerated, HoldsInv, Held
      <3> QED
        BY <3>1, <3>2
    <2> QED
      BY <2>1, <2>2, <2>3 DEF HoldsInv
  <1>4. CASE open_accel(c)
    <2>1. CASE Fail(c) /\ UNCHANGED port
      BY <1>0, <1>4, <2>1, CallMoves DEF open_accel, Fail, Held
    <2>2. CASE /\ Admits(PortModes, AccelMode)
               /\ port' = [port EXCEPT ![c] = AccelMode]
               /\ Goto(c, "clock")
      <3>0. probe = {} /\ \A a \in Actors : port[a] = "none"
        BY <2>2, AdmitsExclusive DEF HoldsInv, AccelMode
      <3>1. /\ call' \in [Callers -> CallRecord]
            /\ call'[c].pc = "clock" /\ call'[c].holds = {}
            /\ \A k \in Callers \ {c} : call'[k] = call[k]
        BY <2>2, MoveChanges DEF Goto
      <3>2. port' \in [Actors -> Modes] /\ port'[c] = "excl"
              /\ \A a \in Actors \ {c} : port'[a] = "none"
        BY <2>2, <3>0 DEF HoldsInv, Types, AccelMode, Modes, Actors
      <3>3. Types' /\ Alone'
        BY <1>4, <3>0, <3>1, <3>2 DEF open_accel, HoldsInv, Types, Alone
      <3>4. ASSUME NEW k \in Callers PROVE Held(k)'
        <4>1. CASE k = c
          BY <1>4, <3>0, <3>1, <3>2, <4>1 DEF open_accel, Held
        <4>2. CASE k # c
          BY <1>4, <3>0, <3>1, <3>2, <4>2 DEF open_accel, HoldsInv, Held, Actors
        <4> QED
          BY <4>1, <4>2
      <3> QED
        BY <3>3, <3>4 DEF HoldsInv
    <2> QED
      BY <1>4, <2>1, <2>2 DEF open_accel
  <1>5. CASE SetClock(c)
    <2>1. Goto(c, "pr") \/ Goto(c, "power") \/ Fail(c)
      BY <1>5 DEF SetClock
    <2> QED
      BY <1>0, <1>5, <2>1, CallMoves DEF SetClock, Goto, Fail, Held
  <1>6. CASE set_fpga_pwr_threshold(c)
    <2>1. Goto(c, "pr") \/ Fail(c)
      BY <1>6 DEF set_fpga_pwr_threshold
    <2> QED
      BY <1>0, <1>6, <2>1, CallMoves DEF set_fpga_pwr_threshold, Goto, Fail, Held
  <1>7. CASE opae_fme_port_pr(c)
    <2>1. Move(c, "close", {}, "FPGA_OK") \/ Fail(c)
      BY <1>7 DEF opae_fme_port_pr
    <2> QED
      BY <1>0, <1>7, <2>1, CallMoves DEF opae_fme_port_pr, Fail, Held
  <1> QED
    BY <1>1, <1>2, <1>3, <1>4, <1>5, <1>6, <1>7 DEF Step

\* Beginning, returning and being killed, and fpgaOpen and fpgaClose of the FME.
LEMMA CallerHolds ==
  ASSUME HoldsInv, NEW c \in Callers, CallerStep(c)
  PROVE  HoldsInv'
  <1>0. Held(c)
    BY DEF HoldsInv
  <1>1. CASE \E mode \in {"shared", "excl"} : OpenFme(c, mode)
    BY <1>1 DEF OpenFme, HoldsInv, Types, Modes, Alone, Held
  <1>2. CASE \E b \in Bitstreams, force \in BOOLEAN : Begin(c, b, force)
    <2>1. PICK b \in Bitstreams, force \in BOOLEAN : Begin(c, b, force)
      BY <1>2
    <2> DEFINE new == [pc |-> IF b \notin Valid THEN "close"
                              ELSE IF force THEN "clock" ELSE "filter",
                       bits |-> b, force |-> force, holds |-> {},
                       result |-> IF b \in Valid THEN "none" ELSE "error"]
    <2>2. new \in CallRecord
      BY DEF CallRecord
    <2>3. call' = [call EXCEPT ![c] = new]
      BY <2>1 DEF Begin
    <2>4. call' \in [Callers -> CallRecord] /\ call'[c] = new
      BY <2>2, <2>3 DEF HoldsInv, Types
    <2>5. \A k \in Callers \ {c} : call'[k] = call[k]
      BY <2>3 DEF HoldsInv, Types
    <2>6. /\ call'[c].pc \in {"close", "clock", "filter"} /\ call'[c].holds = {}
          /\ call'[c].pc = "clock" => call'[c].force = TRUE
      BY <2>4
    <2>7. Types' /\ Alone'
      BY <2>1, <2>4 DEF Begin, HoldsInv, Types, Alone
    <2>8. ASSUME NEW k \in Callers PROVE Held(k)'
      <3>1. CASE k = c
        BY <1>0, <2>1, <2>6, <3>1 DEF Begin, Held
      <3>2. CASE k # c
        BY <2>1, <2>5, <3>2 DEF Begin, HoldsInv, Held
      <3> QED
        BY <3>1, <3>2
    <2> QED
      BY <2>7, <2>8 DEF HoldsInv
  <1>3. CASE Step(c)
    BY <1>3, StepHolds
  <1>4. CASE Return(c) \/ Killed(c)
    <2>1. /\ call' = [call EXCEPT ![c] = NoCall]
          /\ port' = [port EXCEPT ![c] = "none"]
          /\ probe' = probe \ {c}
          /\ fme' \in [Callers -> Modes]
      BY <1>0, <1>4 DEF Return, Killed, HoldsInv, Types, Modes, Held
    <2>2. NoCall \in CallRecord /\ NoCall.pc = "idle" /\ NoCall.holds = {}
      BY DEF NoCall, CallRecord
    <2>3. /\ call' \in [Callers -> CallRecord] /\ call'[c] = NoCall
          /\ \A k \in Callers \ {c} : call'[k] = call[k]
      BY <2>1, <2>2 DEF HoldsInv, Types
    <2>4. /\ port' \in [Actors -> Modes] /\ port'[c] = "none"
          /\ \A a \in Actors \ {c} : port'[a] = port[a]
      BY <2>1 DEF HoldsInv, Types, Actors, Modes
    <2>5. Types' /\ Alone'
      BY <2>1, <2>3, <2>4 DEF HoldsInv, Types, Alone
    <2>6. ASSUME NEW k \in Callers PROVE Held(k)'
      <3>1. CASE k = c
        BY <2>1, <2>2, <2>3, <2>4, <3>1 DEF Held
      <3>2. CASE k # c
        BY <2>1, <2>3, <2>4, <3>2 DEF HoldsInv, Held, Actors
      <3> QED
        BY <3>1, <3>2
    <2> QED
      BY <2>5, <2>6 DEF HoldsInv
  <1>5. CASE CloseFme(c)
    BY <1>5 DEF CloseFme, HoldsInv, Types, Modes, Alone, Held
  <1> QED
    BY <1>1, <1>2, <1>3, <1>4, <1>5 DEF CallerStep

\* Users open and close the accelerator; they are not callers.
LEMMA UserHolds ==
  ASSUME HoldsInv, Callers \cap Users = {}, NEW u \in Users, UserStep(u)
  PROVE  HoldsInv'
  <1>1. CASE UserClose(u)
    BY <1>1 DEF UserClose, HoldsInv, Types, Actors, Modes, Alone, Held
  <1>2. CASE \E mode \in {"shared", "excl"} : UserOpen(u, mode)
    <2>1. PICK mode \in {"shared", "excl"} : UserOpen(u, mode)
      BY <1>2
    <2>2. \A a \in Actors : port[a] # "excl"
      BY <2>1, AdmitsShared DEF UserOpen, HoldsInv
    <2>3. mode = "excl" => probe = {} /\ \A a \in Actors : port[a] = "none"
      BY <2>1, AdmitsExclusive DEF UserOpen, HoldsInv
    <2>4. /\ port' \in [Actors -> Modes] /\ port'[u] = mode
          /\ \A a \in Actors \ {u} : port'[a] = port[a]
      BY <2>1 DEF UserOpen, HoldsInv, Types, Actors, Modes
    <2>5. Types' /\ Alone'
      BY <2>1, <2>2, <2>3, <2>4 DEF UserOpen, HoldsInv, Types, Alone
    <2>6. ASSUME NEW k \in Callers PROVE Held(k)'
      BY <2>1, <2>4, <2>6 DEF UserOpen, HoldsInv, Held, Actors
    <2> QED
      BY <2>5, <2>6 DEF HoldsInv
  <1>3. CASE \E f \in UserClocks : xfpga_fpgaSetUserClock(u, f)
    BY <1>3 DEF xfpga_fpgaSetUserClock, HoldsInv, Types, Alone, Held
  <1> QED
    BY <1>1, <1>2, <1>3 DEF UserStep

-----------------------------------------------------------------------------
\* The invariant holds in every behaviour.
THEOREM AlwaysHolds ==
  ASSUME Callers \cap Users = {}
  PROVE  ReconfSpec => []HoldsInv
  <1>1. ReconfInit => HoldsInv
    BY HoldsInit
  <1>2. HoldsInv /\ [ReconfNext]_libVars => HoldsInv'
    <2>1. SUFFICES ASSUME HoldsInv, [ReconfNext]_libVars PROVE HoldsInv'
      OBVIOUS
    <2>2. CASE UNCHANGED libVars
      BY <2>1, <2>2 DEF libVars, HoldsInv, Types, Alone, Held
    <2>3. CASE ReconfNext
      BY <2>1, <2>3, CallerHolds, UserHolds DEF ReconfNext
    <2> QED
      BY <2>1, <2>2, <2>3
  <1> QED
    BY <1>1, <1>2, PTL DEF ReconfSpec

\* However many processes reconfigure, use and enumerate, fpgaReconfigureSlot without
\* FPGA_RECONF_FORCE changes nothing of a slot whose accelerator another has open.
THEOREM NeverWhileInUse ==
  ASSUME Callers \cap Users = {}
  PROVE  ReconfSpec => []NotWhileInUse
  <1>1. HoldsInv => NotWhileInUse
    BY DEF HoldsInv, Types, Alone, Held, NotWhileInUse, Actors, CallRecord
  <1> QED
    BY <1>1, AlwaysHolds, PTL

\* Every return of fpgaReconfigureSlot has given back accelerator, token and filter.
THEOREM NothingIsLeft ==
  ASSUME Callers \cap Users = {}
  PROVE  ReconfSpec => []NothingLeft
  <1>1. HoldsInv => NothingLeft
    BY DEF HoldsInv, Held, NothingLeft
  <1> QED
    BY <1>1, AlwaysHolds, PTL

-----------------------------------------------------------------------------
(* The settings of the loaded bitstream.  A call that is not forced has the        *)
(* accelerator to itself until it returns, so what it has set stays set.           *)

Loaded(c) == call[c].pc = "close" /\ call[c].result = "FPGA_OK"

\* What a call that nobody disturbed has set so far, and that it still keeps others out.
Settled(c) ==
  /\ Loaded(c) /\ call[c].force = FALSE => port[c] = "excl"
  /\ c \notin disturbed =>
       /\ call[c].pc = "power" => (Clock[call[c].bits] # 0 => clock = Clock[call[c].bits])
       /\ call[c].pc = "pr" => SetFor(call[c].bits)
       /\ Loaded(c) => slot = call[c].bits /\ SetFor(call[c].bits)

SettledInv == HoldsInv /\ \A c \in Callers : Settled(c)

\* A step of a, who is not k, that leaves the hardware alone.
LEMMA OthersUntouched ==
  ASSUME NEW k \in Callers, Settled(k), call'[k] = call[k], port'[k] = port[k],
         slot' = slot, clock' = clock, threshold' = threshold,
         k \notin disturbed' => k \notin disturbed
  PROVE  Settled(k)'
  BY DEF Settled, Loaded, SetFor

Unforced(c) == call[c].force = FALSE

\* A step of a, who is not k, that may change the hardware: a has the accelerator open,
\* or k is disturbed.
LEMMA OthersDisturbed ==
  ASSUME HoldsInv, NEW k \in Callers, Settled(k), NEW a \in Actors, a # k,
         k \notin disturbed' /\ call[k].pc # "idle" =>
           port[a] # "none" /\ Unforced(k),
         call'[k] = call[k], port'[k] = port[k]
  PROVE  Settled(k)'
  <1>0. call[k] \in CallRecord /\ Held(k)
    BY DEF HoldsInv, Types
  <1>1. CASE k \in disturbed'
    <2>1. Loaded(k) /\ call[k].force = FALSE => port[k] = "excl"
      BY DEF Settled
    <2>2. Loaded(k)' /\ call'[k].force = FALSE => port'[k] = "excl"
      BY <2>1 DEF Loaded
    <2> QED
      BY <1>1, <2>2 DEF Settled
  <1>2. CASE k \notin disturbed'
    <2>1. CASE call[k].pc = "idle"
      BY <2>1 DEF Settled, Loaded
    <2>2. CASE call[k].pc # "idle"
      <3>1. port[a] # "none" /\ Unforced(k)
        BY <1>2, <2>2
      <3>2. port[k] # "excl"
        BY <3>1 DEF HoldsInv, Alone, Actors
      <3>3. call[k].pc \notin {"power", "pr"} /\ ~Loaded(k)
        BY <1>0, <3>1, <3>2 DEF Held, Settled, Unforced
      <3>4. call'[k].pc \notin {"power", "pr"} /\ ~Loaded(k)'
        BY <3>3 DEF Loaded
      <3> QED
        BY <3>4 DEF Settled
    <2> QED
      BY <2>1, <2>2
  <1> QED
    BY <1>1, <1>2

\* A step after which the call has set nothing it must keep.
LEMMA NothingSet ==
  ASSUME NEW c \in Callers, call'[c].pc \notin {"power", "pr"},
         call'[c].pc = "close" => call'[c].result = "error"
  PROVE  Settled(c)'
  BY DEF Settled, Loaded

\* A step of the call to power or pr, with its settings made so far.
LEMMA SetSoFar ==
  ASSUME SettledInv, NEW c \in Callers, NEW pc \in {"power", "pr"}, Goto(c, pc),
         c \notin disturbed' /\ pc = "power" =>
           (Clock[call[c].bits] # 0 => clock' = Clock[call[c].bits]),
         c \notin disturbed' /\ pc = "pr" => SetFor(call[c].bits)'
  PROVE  Settled(c)'
  <1>1. call'[c].pc = pc /\ call'[c].bits = call[c].bits
    BY MoveChanges DEF Goto, SettledInv
  <1> QED
    BY <1>1 DEF Settled, Loaded

\* The call itself.
LEMMA OwnSettings ==
  ASSUME SettledInv, NEW c \in Callers, Step(c)
  PROVE  Settled(c)'
  <1>0. HoldsInv /\ Held(c) /\ Settled(c)
    BY DEF SettledInv, HoldsInv
  <1>1. ASSUME Fail(c) PROVE Settled(c)'
    <2>1. call'[c].pc = "close" /\ call'[c].result = "error"
      BY <1>0, <1>1, MoveChanges DEF Fail
    <2> QED
      BY <2>1, NothingSet
  <1>2. CASE MakeFilter(c) \/ enum_afu(c) \/ Enumerated(c) \/ open_accel(c)
    <2>1. ASSUME NEW pc \in {"probe", "probed", "accel", "clock"},
                 NEW holds \in SUBSET {"filter", "token"}, Move(c, pc, holds, "none")
          PROVE  Settled(c)'
      <3>1. call'[c].pc = pc
        BY <1>0, <2>1, MoveChanges
      <3> QED
        BY <3>1, NothingSet
    <2> QED
      BY <1>1, <1>2, <2>1 DEF MakeFilter, enum_afu, Enumerated, open_accel, Goto
  <1>3. CASE SetClock(c)
    <2>1. c \notin disturbed' => c \notin disturbed
      BY <1>3 DEF SetClock, Disturbs
    <2>2. CASE call[c].bits \notin Json /\ Goto(c, "pr")
      <3>1. call'[c].bits = call[c].bits
        BY <1>0, <2>2, MoveChanges DEF Goto
      <3>2. SetFor(call[c].bits)'
        BY <2>2, <3>1 DEF SetFor
      <3> QED
        BY <2>2, <3>2, SetSoFar
    <2>3. CASE Goto(c, "power") /\ (Clock[call[c].bits] # 0 => clock' = Clock[call[c].bits])
      BY <2>3, SetSoFar
    <2> QED
      BY <1>1, <1>3, <2>2, <2>3 DEF SetClock
  <1>4. CASE set_fpga_pwr_threshold(c)
    <2>1. c \notin disturbed' => c \notin disturbed
      BY <1>4 DEF set_fpga_pwr_threshold, Disturbs
    <2>2. CASE Goto(c, "pr") /\ (Integrated => threshold' = Threshold(Power[call[c].bits]))
      <3>1. call'[c].bits = call[c].bits
        BY <1>0, <2>2, MoveChanges DEF Goto
      <3>2. c \notin disturbed' => SetFor(call[c].bits)'
        BY <1>0, <1>4, <2>1, <2>2, <3>1 DEF SetFor, set_fpga_pwr_threshold, Settled
      <3> QED
        BY <2>2, <3>2, SetSoFar
    <2> QED
      BY <1>1, <1>4, <2>2 DEF set_fpga_pwr_threshold
  <1>5. CASE opae_fme_port_pr(c)
    <2>1. c \notin disturbed' => c \notin disturbed
      BY <1>5 DEF opae_fme_port_pr, Disturbs
    <2>2. CASE slot' = call[c].bits /\ Move(c, "close", {}, "FPGA_OK")
      <3>1. /\ call'[c].pc = "close" /\ call'[c].bits = call[c].bits
            /\ call'[c].force = call[c].force
        BY <1>0, <2>2, MoveChanges
      <3>2. call'[c].force = FALSE => port'[c] = "excl"
        BY <1>0, <1>5, <3>1 DEF Held, opae_fme_port_pr
      <3>3. c \notin disturbed' => SetFor(call[c].bits)'
        BY <1>0, <1>5, <2>1, <3>1 DEF SetFor, opae_fme_port_pr, Settled
      <3> QED
        BY <2>2, <3>1, <3>2, <3>3 DEF Settled, Loaded
    <2> QED
      BY <1>1, <1>5, <2>2 DEF opae_fme_port_pr
  <1> QED
    BY <1>2, <1>3, <1>4, <1>5 DEF Step

\* The steps of a call, seen by the others.
LEMMA OthersKeep ==
  ASSUME SettledInv, NEW c \in Callers, Step(c), NEW k \in Callers, k # c
  PROVE  Settled(k)'
  <1>0. HoldsInv /\ Held(c) /\ Settled(k) /\ call[c] \in CallRecord /\ call[k] \in CallRecord
    BY DEF SettledInv, HoldsInv, Types
  <1>1. call'[k] = call[k]
    BY <1>0 DEF HoldsInv, Types, Step, MakeFilter, enum_afu, Enumerated, open_accel, SetClock,
                set_fpga_pwr_threshold, opae_fme_port_pr, Goto, Fail, Move
  <1>2. port'[k] = port[k]
    BY <1>0 DEF HoldsInv, Types, Actors, Step, MakeFilter, enum_afu, Enumerated, open_accel,
                SetClock, set_fpga_pwr_threshold, opae_fme_port_pr
  <1>3. call[c].force \in BOOLEAN /\ call[k].force \in BOOLEAN
    BY <1>0 DEF CallRecord
  <1>4. CASE UNCHANGED hardware
    BY <1>0, <1>1, <1>2, <1>4, OthersUntouched DEF hardware
  <1>5. CASE Disturbs(call[c].force, c) /\ call[c].pc \in {"clock", "power", "pr"}
    <2>1. ASSUME k \notin disturbed', call[k].pc # "idle"
          PROVE  port[c] # "none" /\ Unforced(k)
      <3>1. call[k].force = FALSE /\ call[c].force = FALSE
        BY <1>3, <1>5, <2>1 DEF Disturbs
      <3> QED
        BY <1>0, <1>5, <3>1 DEF Held, Unforced
    <2>2. c \in Actors /\ (k \notin disturbed' /\ call[k].pc # "idle" =>
                             port[c] # "none" /\ Unforced(k))
      BY <2>1 DEF Actors
    <2> QED
      BY <1>0, <1>1, <1>2, <2>2, OthersDisturbed
  <1> QED
    BY <1>4, <1>5 DEF Step, MakeFilter, enum_afu, Enumerated, open_accel, SetClock,
                      set_fpga_pwr_threshold, opae_fme_port_pr, hardware

\* A step of a caller keeps what every call has set.
LEMMA CallerSettled ==
  ASSUME SettledInv, NEW c \in Callers, CallerStep(c), NEW k \in Callers
  PROVE  Settled(k)'
  <1>0. HoldsInv /\ Settled(k)
    BY DEF SettledInv
  <1>1. CASE (\E mode \in {"shared", "excl"} : OpenFme(c, mode)) \/ CloseFme(c)
    BY <1>0, <1>1, OthersUntouched DEF OpenFme, CloseFme, hardware
  <1>2. CASE Step(c)
    BY <1>2, OwnSettings, OthersKeep
  <1>3. CASE (\E b \in Bitstreams, force \in BOOLEAN : Begin(c, b, force))
             \/ Return(c) \/ Killed(c)
    <2>1. CASE k # c
      <3>1. call'[k] = call[k] /\ port'[k] = port[k]
        BY <1>0, <1>3, <2>1 DEF Begin, Return, Killed, HoldsInv, Types, Actors
      <3> QED
        BY <1>0, <1>3, <2>1, <3>1, OthersUntouched DEF Begin, Return, Killed, hardware
    <2>2. CASE k = c
      <3>1. /\ call'[c].pc \notin {"power", "pr"}
            /\ call'[c].pc = "close" => call'[c].result = "error"
        BY <1>0, <1>3 DEF Begin, Return, Killed, NoCall, HoldsInv, Types
      <3> QED
        BY <2>2, <3>1, NothingSet
    <2> QED
      BY <2>1, <2>2
  <1> QED
    BY <1>1, <1>2, <1>3 DEF CallerStep

\* And so does a step of a user.
LEMMA UserSettled ==
  ASSUME SettledInv, Callers \cap Users = {}, NEW u \in Users, UserStep(u), NEW k \in Callers
  PROVE  Settled(k)'
  <1>0. HoldsInv /\ Settled(k) /\ u # k
    BY DEF SettledInv
  <1>1. call'[k] = call[k] /\ port'[k] = port[k]
    <2>0. port \in [Actors -> Modes] /\ k \in Actors
      BY <1>0 DEF HoldsInv, Types, Actors
    <2>1. CASE UserClose(u)
      BY <1>0, <2>0, <2>1 DEF UserClose
    <2>2. CASE \E mode \in {"shared", "excl"} : UserOpen(u, mode)
      BY <1>0, <2>0, <2>2 DEF UserOpen
    <2>3. CASE \E f \in UserClocks : xfpga_fpgaSetUserClock(u, f)
      BY <2>3 DEF xfpga_fpgaSetUserClock, Disturbs
    <2> QED
      BY <2>1, <2>2, <2>3 DEF UserStep
  <1>2. CASE UserClose(u) \/ \E mode \in {"shared", "excl"} : UserOpen(u, mode)
    BY <1>0, <1>1, <1>2, OthersUntouched DEF UserClose, UserOpen, hardware
  <1>3. CASE \E f \in UserClocks : xfpga_fpgaSetUserClock(u, f)
    <2>0. call[k].force \in BOOLEAN
      BY <1>0 DEF HoldsInv, Types, CallRecord
    <2>1. ASSUME k \notin disturbed', call[k].pc # "idle"
          PROVE  port[u] # "none" /\ Unforced(k)
      BY <1>0, <1>3, <2>0, <2>1 DEF xfpga_fpgaSetUserClock, Disturbs, Unforced
    <2>2. u \in Actors /\ (k \notin disturbed' /\ call[k].pc # "idle" =>
                             port[u] # "none" /\ Unforced(k))
      BY <2>1 DEF Actors
    <2> QED
      BY <1>0, <1>1, <2>2, OthersDisturbed
  <1> QED
    BY <1>2, <1>3 DEF UserStep

\* A call that succeeds leaves its own bitstream with its own clock and threshold,
\* unless it or another was forced meanwhile.
THEOREM SettingsAlwaysOfLoaded ==
  ASSUME Callers \cap Users = {}
  PROVE  ReconfSpec => []SettingsOfLoaded
  <1>1. ReconfInit => SettledInv
    BY HoldsInit DEF ReconfInit, SettledInv, Settled, Loaded, NoCall
  <1>2. SettledInv /\ HoldsInv' /\ [ReconfNext]_libVars => SettledInv'
    <2>1. SUFFICES ASSUME SettledInv, HoldsInv', [ReconfNext]_libVars, NEW k \in Callers
                   PROVE  Settled(k)'
      BY DEF SettledInv
    <2>2. CASE UNCHANGED libVars
      BY <2>1, <2>2, OthersUntouched DEF libVars, hardware, SettledInv
    <2>3. CASE ReconfNext
      BY <2>1, <2>3, CallerSettled, UserSettled DEF ReconfNext
    <2> QED
      BY <2>1, <2>2, <2>3
  <1>3. SettledInv => SettingsOfLoaded
    BY DEF SettledInv, Settled, Loaded, SettingsOfLoaded
  <1> QED
    BY <1>1, <1>2, <1>3, AlwaysHolds, PTL DEF ReconfSpec
=============================================================================
