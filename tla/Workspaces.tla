----------------------------- MODULE Workspaces -----------------------------
(***************************************************************************)
(* What the buffer calls of an fpga_handle promise their callers, whatever *)
(* the table behind them: a workspace id is given out once, names the same *)
(* buffer on its handle until it is released or the handle is closed, and  *)
(* releasing one says nothing about any other.                             *)
(***************************************************************************)
EXTENDS Naturals

CONSTANTS Handles, Buffers

VARIABLES
  held,   \* per handle, the <<id, buffer>> pairs its caller may use
  used    \* ids 0..used-1 have been given out, on whichever handle

vars == <<held, used>>

Init ==
  /\ held = [h \in Handles |-> {}]
  /\ used = 0

\* The counter is shared by the process: it advances for what has no caller too.
Advance == used' = used + 1

Prepare(h, b) ==
  /\ held' = [held EXCEPT ![h] = @ \cup {<<used, b>>}]
  /\ Advance

Waste == Advance /\ UNCHANGED held

Release(h, x) ==
  /\ x \in held[h]
  /\ held' = [held EXCEPT ![h] = @ \ {x}]
  /\ UNCHANGED used

Close(h) ==
  /\ held' = [held EXCEPT ![h] = {}]
  /\ UNCHANGED used

Next ==
  \/ \E h \in Handles :
       \/ \E b \in Buffers : Prepare(h, b)
       \/ \E x \in held[h] : Release(h, x)
       \/ Close(h)
  \/ Waste

Spec == Init /\ [][Next]_vars
=============================================================================
