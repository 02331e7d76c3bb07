--------------------------- MODULE EventDelivery ---------------------------
(***************************************************************************)
(* The event server and the logger of one fpgad process, and the eventfds  *)
(* of its clients: the logger's callbacks (evt.c) walk the registry while  *)
(* the server changes it, both under list_lock.                            *)
(* An operator X_Fault beside X is X with a plausible mistake in it, for   *)
(* trying the properties on; no specification uses it.                     *)
(***************************************************************************)
EXTENDS EventServer

CONSTANTS
  Tokens, Errors, Table, Values, MAX_ERROR_COUNT, MaxChanges,  \* see ErrorLogger
  ObjectId,       \* object id of a token
  Callback        \* the event an entry's callback notifies

VARIABLES
  lpc, n, list, d, e, err, occ, num, reports, logged, hw, changes, rises,
  signalled       \* event handles whose eventfd is readable

Log == INSTANCE ErrorLogger WITH pc <- lpc

loggerVars == <<lpc, n, list, d, e, err, occ, num, reports, logged, hw, changes, rises>>
deliveryVars == <<vars, loggerVars, signalled>>

DeliveryInit ==
  /\ Init
  /\ Log!Init
  /\ signalled = {}

\* The event handles a walk of the registry for event ev of object o writes to.
Listeners_AnyObject(ev, o) ==
  {fdt[m.fd] : m \in NodesAt({k \in Key : k[2] = ev})}

Listeners(ev, o) ==
  {fdt[m.fd] : m \in NodesAt({k \in Key : k[2] = ev /\ k[3] = o})}

\* for_each_registered_event with evt_notify_error_callback or evt_notify_ap6_callback.
Notify_Missing(t, x) == UNCHANGED signalled

Notify(t, x) == signalled' = signalled \cup Listeners(Callback[x], ObjectId[t])

\* log_fpga_error with the callback it makes.
ReportAndNotify(t, x) ==
  /\ Log!Report(t, x)
  /\ Notify(t, x)
  /\ UNCHANGED vars

LoggerStep ==
  /\ \/ Log!Enumerate \/ Log!consider_device \/ Log!AllConsidered
     \/ Log!ReadObject \/ Log!ReadFails
     \/ Log!ReportedBefore \/ Log!NoError \/ Log!NextDevice \/ Log!EndRound
  /\ UNCHANGED <<vars, signalled>>

Logger == LoggerStep \/ \E t \in Log!Devices, x \in Errors : ReportAndNotify(t, x)

\* An application reads its eventfd.
ReadEvent(eh) ==
  /\ eh \in signalled
  /\ signalled' = signalled \ {eh}
  /\ UNCHANGED <<vars, loggerVars>>

DeliveryNext ==
  \/ Next /\ UNCHANGED <<loggerVars, signalled>>
  \/ Logger
  \/ Log!Hardware /\ UNCHANGED <<vars, signalled>>
  \/ \E eh \in EventHandles : ReadEvent(eh)

DeliverySpec == DeliveryInit /\ [][DeliveryNext]_deliveryVars

FairDeliverySpec ==
  /\ DeliverySpec
  /\ WF_deliveryVars(Server /\ UNCHANGED <<loggerVars, signalled>>)
  /\ WF_deliveryVars(Logger)

-----------------------------------------------------------------------------
\* The daemon holds a registration of eh for the event of x on the object of t.
Registered(eh, t, x) == eh \in Listeners(Callback[x], ObjectId[t])

\* An event handle is signalled only for an error of its handle's own object that
\* the handle asked for, or through a connection with a request or a hang-up the
\* server has still to read.
SignalledAsAsked ==
  [][\A t \in Log!Devices, x \in Errors : reports'[t][x] > reports[t][x] =>
       \A eh \in signalled' \ signalled :
         \/ \E h \in Handles : ObjectOf[h] = ObjectId[t] /\ <<Callback[x], eh>> \in want[h]
         \/ \E m \in NodesAt(Key) :
              /\ fdt[m.fd] = eh
              /\ queue[m.from] # <<>> \/ ~ClientEndOpen(m.from)]_deliveryVars

\* An error that is raised while eh is registered and that has not been reported is
\* delivered to eh, unless it clears, the registration goes or a thread ends first.
RaisedIsDelivered ==
  \A eh \in EventHandles : \A t \in Log!Devices : \A x \in Range(Table[t]) :
    (Registered(eh, t, x) /\ t \in Range(list) /\ hw[t][x] # 0 /\ occ[t][x] = 0)
      ~> \/ eh \in signalled
         \/ ~Registered(eh, t, x) \/ hw[t][x] = 0 \/ lpc = "exited"
=============================================================================
