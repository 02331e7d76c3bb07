---------------------------- MODULE EventHandle ----------------------------
(***************************************************************************)
(* Event handles of one open fpga_handle: fpgaCreateEventHandle makes an   *)
(* empty wrapper (api-shell.c), the first fpgaRegisterEvent has the        *)
(* adapter create the eventfd, and xfpga/event.c then asks the driver for  *)
(* an interrupt or, when the driver answers FPGA_NOT_SUPPORTED, fpgad for  *)
(* its events.  A call holds the wrapper's lock, the handle's and the      *)
(* event handle's throughout and is one step.  fpgad is taken at what      *)
(* EventService promises: it has acted on a request when the call returns. *)
(* An operator X_Fault beside X is X with a plausible mistake in it.       *)
(***************************************************************************)
EXTENDS Naturals, Sequences, SequencesExt

CONSTANTS
  EventHandles,
  Events,            \* the fpga_event_types the application uses
  num_uafu_irqs,
  MaxFailures,       \* bound: queries that fail
  MaxRegistered,     \* bound: registrations of one event in fpgad
  NoEh

AllEvents == {"FPGA_EVENT_INTERRUPT", "FPGA_EVENT_ERROR", "FPGA_EVENT_POWER_THERMAL"}
Vectors == 0..(num_uafu_irqs - 1)
Flags == 0..num_uafu_irqs          \* the last one is no vector

ASSUME EventHandleAssumption ==
  /\ num_uafu_irqs \in Nat
  /\ Events \subseteq AllEvents
  /\ MaxFailures \in Nat /\ MaxRegistered \in Nat
  /\ NoEh \notin EventHandles

VARIABLES
  hw,       \* the opened resource and what its driver and the host offer
  wrapper,  \* opae_wrapped_event_handle
  flags,    \* _fpga_event_handle.flags
  errIrq,   \* the eventfd of the driver's error interrupt
  userIrq,  \* the eventfd of each user interrupt vector
  fdfpgad,  \* the handle is connected to fpgad
  registry, \* fpgad's registrations of this handle, per event, newest first
  want,     \* what calls that returned FPGA_OK left each event handle waiting for
  failed,   \* how often a query failed on a resource that has the interrupt
  out       \* result of the last call

vars == <<hw, wrapper, flags, errIrq, userIrq, fdfpgad, registry, want, failed, out>>

Hardware == [objtype : {"FPGA_DEVICE", "FPGA_ACCELERATOR"},
             err : BOOLEAN, uafu : BOOLEAN,  \* CAP_ERR_IRQ, CAP_UAFU_IRQ
             fpgad : BOOLEAN]
Nothing == [event |-> "none", vector |-> 0]
Results == {"FPGA_OK", "FPGA_INVALID_PARAM", "FPGA_EXCEPTION", "FPGA_NO_DAEMON"}

\* The type invariant.
TypeOK ==
  /\ hw \in Hardware
  /\ wrapper \in [EventHandles -> {"none", "empty", "created", "destroyed"}]
  /\ flags \in [EventHandles -> Flags]
  /\ errIrq \in EventHandles \cup {NoEh}
  /\ userIrq \in [Vectors -> EventHandles \cup {NoEh}]
  /\ fdfpgad \in BOOLEAN
  /\ registry \in [Events -> Seq(EventHandles)]
  /\ want \in [EventHandles -> {Nothing} \cup [event : Events, vector : Flags]]
  /\ failed \in 0..MaxFailures
  /\ out \in Results

\* flags of the malloc'ed event handle is whatever the memory held.
Init ==
  /\ hw \in Hardware
  /\ wrapper = [e \in EventHandles |-> "none"]
  /\ flags \in [EventHandles -> Flags]
  /\ errIrq = NoEh
  /\ userIrq = [v \in Vectors |-> NoEh]
  /\ fdfpgad = FALSE
  /\ registry = [ev \in Events |-> <<>>]
  /\ want = [e \in EventHandles |-> Nothing]
  /\ failed = 0
  /\ out = "FPGA_OK"

-----------------------------------------------------------------------------
(* The driver: each slot holds one eventfd, the last one it was given. *)

\* check_interrupts_supported: FPGA_OK asks for the error interrupt capability,
\* whatever the event.
InterruptsChecked == hw.err

DriverAccepts(ev) ==
  /\ InterruptsChecked
  /\ ev # "FPGA_EVENT_POWER_THERMAL"
  /\ ev = "FPGA_EVENT_INTERRUPT" => hw.uafu

\* The driver path answers FPGA_NOT_SUPPORTED: also when a query fails, or the ioctl
\* reports ENOTSUP, on a resource that does have interrupts.
DriverDeclines(ev) ==
  \/ ~DriverAccepts(ev) /\ UNCHANGED failed
  \/ DriverAccepts(ev) /\ failed < MaxFailures /\ failed' = failed + 1

\* opae_fme_set_err_irq and opae_port_set_err_irq.
SetErrIrq(x, rc) ==
  /\ \/ rc = "FPGA_OK" /\ errIrq' = x
     \/ rc = "FPGA_EXCEPTION" /\ UNCHANGED errIrq
  /\ UNCHANGED <<userIrq, flags>>

SetUserIrq(v, x, rc) ==
  \/ rc = "FPGA_OK" /\ v \in Vectors /\ userIrq' = [userIrq EXCEPT ![v] = x]
  \/ rc = "FPGA_EXCEPTION" /\ UNCHANGED userIrq

AssignVector_KeepFlags(e, v, rc) ==
  \/ v >= num_uafu_irqs /\ rc = "FPGA_INVALID_PARAM" /\ UNCHANGED <<userIrq, flags>>
  \/ v < num_uafu_irqs /\ SetUserIrq(v, e, rc) /\ UNCHANGED flags

\* send_uafu_event_request, FPGA_IRQ_ASSIGN: flags is kept even when the ioctl fails.
AssignVector(e, v, rc) ==
  \/ v >= num_uafu_irqs /\ rc = "FPGA_INVALID_PARAM" /\ UNCHANGED <<userIrq, flags>>
  \/ v < num_uafu_irqs /\ SetUserIrq(v, e, rc) /\ flags' = [flags EXCEPT ![e] = v]

\* send_uafu_event_request, FPGA_IRQ_DEASSIGN: called with flags 0.
DeassignVector(e, rc) ==
  /\ \/ num_uafu_irqs = 0 /\ rc = "FPGA_INVALID_PARAM" /\ UNCHANGED userIrq
     \/ num_uafu_irqs > 0 /\ SetUserIrq(flags[e], NoEh, rc)
  /\ UNCHANGED flags

driver_register_event(e, ev, v, rc) ==
  /\ DriverAccepts(ev)
  /\ \/ ev = "FPGA_EVENT_ERROR" /\ SetErrIrq(e, rc)
     \/ ev = "FPGA_EVENT_INTERRUPT" /\ AssignVector(e, v, rc) /\ UNCHANGED errIrq
  /\ UNCHANGED <<fdfpgad, registry, failed>>

driver_unregister_event(e, ev, rc) ==
  /\ DriverAccepts(ev)
  /\ \/ ev = "FPGA_EVENT_ERROR" /\ SetErrIrq(NoEh, rc)
     \/ ev = "FPGA_EVENT_INTERRUPT" /\ DeassignVector(e, rc) /\ UNCHANGED errIrq
  /\ UNCHANGED <<fdfpgad, registry, failed>>

-----------------------------------------------------------------------------
(* The daemon: daemon_register_event, daemon_unregister_event, and what fpgad
   makes of their requests. *)

\* out_close_conn: with the connection go all the registrations made through it.
CloseConn ==
  /\ fdfpgad' = FALSE
  /\ registry' = [ev \in Events |-> <<>>]

daemon_register_event(e, ev, rc) ==
  /\ \/ /\ rc = "FPGA_OK"
        /\ hw.fpgad
        /\ Len(registry[ev]) < MaxRegistered
        /\ fdfpgad' = TRUE
        /\ registry' = [registry EXCEPT ![ev] = <<e>> \o @]
     \/ rc = "FPGA_NO_DAEMON" /\ ~hw.fpgad /\ CloseConn
     \/ rc = "FPGA_EXCEPTION" /\ hw.fpgad /\ CloseConn
  /\ UNCHANGED <<errIrq, userIrq, flags>>

daemon_unregister_event_FallsThrough(ev, rc) ==
  /\ \/ rc = "FPGA_OK" /\ fdfpgad /\ CloseConn
     \/ rc = "FPGA_INVALID_PARAM" /\ ~fdfpgad /\ UNCHANGED <<fdfpgad, registry>>
     \/ rc = "FPGA_EXCEPTION" /\ fdfpgad /\ CloseConn
  /\ UNCHANGED <<errIrq, userIrq, flags>>

\* The request names no event handle; fpgad drops the newest registration.
daemon_unregister_event(ev, rc) ==
  /\ \/ /\ rc = "FPGA_OK" /\ fdfpgad
        /\ registry' = [registry EXCEPT ![ev] = IF @ = <<>> THEN @ ELSE Tail(@)]
        /\ UNCHANGED fdfpgad
     \/ rc = "FPGA_INVALID_PARAM" /\ ~fdfpgad /\ UNCHANGED <<fdfpgad, registry>>
     \/ rc = "FPGA_EXCEPTION" /\ fdfpgad /\ CloseConn
  /\ UNCHANGED <<errIrq, userIrq, flags>>

-----------------------------------------------------------------------------
(* The calls of the API *)

fpgaCreateEventHandle(e) ==
  /\ wrapper[e] = "none"
  /\ wrapper' = [wrapper EXCEPT ![e] = "empty"]
  /\ out' = "FPGA_OK"
  /\ UNCHANGED <<hw, flags, errIrq, userIrq, fdfpgad, registry, want, failed>>

\* What applications do: an event handle is "associated with only a single event"
\* (event.h) and, as the driver has one slot for it, an event with a single event
\* handle.
MayRegister(e, ev, v) ==
  /\ wrapper[e] \in {"empty", "created"}
  /\ want[e] = Nothing
  /\ \A x \in EventHandles :
       want[x].event = ev => ev = "FPGA_EVENT_INTERRUPT" /\ want[x].vector # v

\* A call that fails at fpgad tells the application that the registrations it had
\* there are over.
Remaining(x, rc) ==
  IF rc # "FPGA_OK" /\ ~fdfpgad' /\ \E ev \in Events : ev = want[x].event /\ Contains(registry[ev], x)
  THEN Nothing ELSE want[x]

\* eventfd() fails in the adapter, or the event is refused before any request.
RegisterRefused(e, ev) ==
  /\ \/ /\ wrapper[e] = "empty"
        /\ out' = "FPGA_EXCEPTION"
        /\ UNCHANGED wrapper
     \/ /\ ev = "FPGA_EVENT_INTERRUPT" /\ hw.objtype # "FPGA_ACCELERATOR"
        /\ out' = "FPGA_INVALID_PARAM"
        /\ wrapper' = [wrapper EXCEPT ![e] = "created"]
  /\ UNCHANGED <<hw, flags, errIrq, userIrq, fdfpgad, registry, want, failed>>

Try_Both(e, ev, v, rc) ==
  \/ DriverDeclines(ev) /\ daemon_register_event(e, ev, rc)
  \/ \* the daemon is asked whatever the driver answered
     /\ DriverAccepts(ev) /\ rc = "FPGA_OK" /\ hw.fpgad /\ UNCHANGED failed
     /\ \/ ev = "FPGA_EVENT_ERROR" /\ SetErrIrq(e, rc)
        \/ ev = "FPGA_EVENT_INTERRUPT" /\ AssignVector(e, v, rc) /\ UNCHANGED errIrq
     /\ fdfpgad' = TRUE /\ registry' = [registry EXCEPT ![ev] = <<e>> \o @]

\* "try driver first"
Try(e, ev, v, rc) ==
  \/ driver_register_event(e, ev, v, rc)
  \/ DriverDeclines(ev) /\ daemon_register_event(e, ev, rc)

fpgaRegisterEvent(e, ev, v) ==
  /\ MayRegister(e, ev, v)
  /\ \/ RegisterRefused(e, ev)
     \/ /\ ev = "FPGA_EVENT_INTERRUPT" => hw.objtype = "FPGA_ACCELERATOR"
        /\ \E rc \in Results :
             /\ Try(e, ev, v, rc)
             /\ out' = rc
             /\ want' = [x \in EventHandles |->
                           IF x = e /\ rc = "FPGA_OK" THEN [event |-> ev, vector |-> v]
                           ELSE Remaining(x, rc)]
        /\ wrapper' = [wrapper EXCEPT ![e] = "created"]
        /\ UNCHANGED hw

\* Of what the application has registered; the vector is not passed.
fpgaUnregisterEvent(e) ==
  LET ev == want[e].event IN
  /\ wrapper[e] = "created"
  /\ ev \in Events
  /\ \E rc \in Results :
       /\ \/ driver_unregister_event(e, ev, rc)
          \/ DriverDeclines(ev) /\ daemon_unregister_event(ev, rc)
       /\ out' = rc
       /\ want' = [x \in EventHandles |-> IF x = e /\ rc = "FPGA_OK" THEN Nothing ELSE Remaining(x, rc)]
  /\ UNCHANGED <<hw, wrapper>>

\* The eventfd closes; driver and daemon hold references of their own.
fpgaDestroyEventHandle(e) ==
  /\ wrapper[e] \in {"empty", "created"}
  /\ wrapper' = [wrapper EXCEPT ![e] = "destroyed"]
  /\ want' = [want EXCEPT ![e] = Nothing]
  /\ out' = "FPGA_OK"
  /\ UNCHANGED <<hw, flags, errIrq, userIrq, fdfpgad, registry, failed>>

Next ==
  \E e \in EventHandles :
    \/ fpgaCreateEventHandle(e)
    \/ \E ev \in Events, v \in Flags :
         (ev # "FPGA_EVENT_INTERRUPT" => v = 0) /\ fpgaRegisterEvent(e, ev, v)
    \/ fpgaUnregisterEvent(e)
    \/ fpgaDestroyEventHandle(e)

Spec == Init /\ [][Next]_vars

-----------------------------------------------------------------------------
(* Properties *)

\* Somebody raises the event: fpgad polls for errors and power events only.
Raisable(ev) == ev = "FPGA_EVENT_INTERRUPT" => hw.err /\ hw.uafu

\* Who signals the eventfd of e.
Errs(e) == errIrq = e
Interrupts(e) == \E v \in Vectors : userIrq[v] = e
Proxied(e) == \E ev \in Events : Raisable(ev) /\ Contains(registry[ev], e)

\* An event handle whose registration returned FPGA_OK is served, by the driver in the
\* slot that was asked for or by fpgad, until it is unregistered itself: no call on
\* another event handle, failed ones included, takes its place or silences it, and for
\* errors and power events not even failing queries do.
AskedIsServed ==
  \A e \in EventHandles :
    LET w == want[e] IN
    w.event # "none" /\ Raisable(w.event) /\ (w.event = "FPGA_EVENT_INTERRUPT" => failed = 0) =>
      \/ w.event = "FPGA_EVENT_ERROR" /\ Errs(e)
      \/ w.event = "FPGA_EVENT_INTERRUPT" /\ w.vector \in Vectors /\ userIrq[w.vector] = e
      \/ Contains(registry[w.event], e)

\* An event handle that waits for nothing is signalled by nobody: unregistering
\* reaches whoever had the registration and the vector that was assigned, and a
\* registration that failed leaves nothing behind.  (Once a query has failed the two
\* may go to different sides.)
SilentOnceUnregistered ==
  failed = 0 =>
    \A e \in EventHandles :
      wrapper[e] = "created" /\ want[e] = Nothing =>
        ~Errs(e) /\ ~Interrupts(e) /\ ~Proxied(e)

\* An event is notified once: no event handle is signalled both by the driver and by
\* fpgad, or for two vectors.
NotifiedOnce ==
  failed = 0 =>
    \A e \in EventHandles :
      /\ ~(Errs(e) /\ Interrupts(e)) /\ ~(Errs(e) /\ Proxied(e))
      /\ ~(Interrupts(e) /\ Proxied(e))
      /\ \A v, u \in Vectors : userIrq[v] = e /\ userIrq[u] = e => v = u

-----------------------------------------------------------------------------
(* A statement of event.h that the code does not keep. *)

\* A registration that returned FPGA_OK is for an event that somebody raises
\* (event.h: FPGA_INVALID_PARAM if the resource does not support the event).
RegisteredIsRaisable ==
  \A e \in EventHandles : want[e].event # "none" => Raisable(want[e].event)
=============================================================================
