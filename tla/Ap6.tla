------------------------------- MODULE Ap6 --------------------------------
(***************************************************************************)
(* ap6_thread of fpgad (ap6.c), one per socket: it looks for a registered  *)
(* NULL bitstream that fits the FPGA on its socket, then programs it once  *)
(* for each post of ap6_sem, which the logger posts when it sees an AP6    *)
(* power event (evt_notify_ap6_and_null of evt.c).  sem_timedwait's        *)
(* deadline lies in the past, so a wait without a post comes straight back *)
(* to the test of config.running.  The interface id that decides whether a *)
(* bitstream fits comes from JSON metadata or from an older header, and a  *)
(* static flag shared by all the threads turns the header off for good     *)
(* once one of them has seen JSON metadata.                                *)
(* An operator X_Fault beside X is X with a plausible mistake in it, for   *)
(* trying the properties on; no specification uses it.                     *)
(***************************************************************************)
EXTENDS Naturals

CONSTANTS
  NullGbs,      \* num_null_gbs
  Format,       \* of each bitstream: where its interface id is
  InterfaceId,  \* of each bitstream: the FPGA interface it was built for
  Interface,    \* the interface id of the FPGA on the thread's socket
  NoId,         \* the zeroes interface_id starts out with
  MaxPosts      \* bound: AP6 events over a behaviour

Gbs == 1..NullGbs

\* A bitstream has JSON metadata, a metadata GUID with nothing behind it, the older
\* header, or none of them.
ASSUME Ap6Assumption ==
  /\ NullGbs \in Nat /\ MaxPosts \in Nat
  /\ Format \in [Gbs -> {"json", "empty", "header", "none"}]
  /\ \A g \in Gbs : g \in DOMAIN InterfaceId
  /\ Interface # NoId

VARIABLES
  running,      \* config.running
  pc,           \* where the thread is
  gbs,          \* i, the bitstream under consideration, from 1
  filter,       \* the properties object of the enumeration exists
  token,        \* fme_token is held
  data,         \* null_gbs_info.data: the bitstream held, 0 for NULL
  id,           \* null_gbs_info.interface_id
  skip,         \* skip_header_checks, a static of the process
  unread,       \* the bitstreams that could not be read
  handle,       \* fme_handle is open
  sem,          \* ap6_sem[socket]
  posts,        \* sem_posts so far
  programmed,   \* times fpgaReconfigureSlot succeeded
  failed        \* posts taken for which opening or writing failed

probeVars == <<gbs, filter, token, data, id, skip, unread>>
counters == <<sem, posts, programmed, failed>>
vars == <<running, pc, probeVars, handle, counters>>

\* The type invariant of the thread's locals.
TypeOK ==
  /\ running \in BOOLEAN /\ filter \in BOOLEAN /\ token \in BOOLEAN /\ handle \in BOOLEAN
  /\ pc \in {"start", "probe", "found", "wait", "open", "write", "close", "exited"}
  /\ gbs \in 1..(NullGbs + 1)
  /\ data \in 0..NullGbs
  /\ id \in {NoId} \cup {InterfaceId[g] : g \in Gbs}
  /\ skip \in BOOLEAN
  /\ unread \in SUBSET Gbs
  /\ sem \in Nat /\ posts \in Nat /\ programmed \in Nat /\ failed \in Nat

Init ==
  /\ running = TRUE /\ filter = FALSE /\ token = FALSE /\ handle = FALSE
  /\ pc = "start"
  /\ gbs = 1 /\ data = 0 /\ id = NoId /\ skip = FALSE /\ unread = {}
  /\ sem = 0 /\ posts = 0 /\ programmed = 0 /\ failed = 0

-----------------------------------------------------------------------------
\* out_exit: the token is destroyed and the bitstream freed.
Exit_KeepToken ==
  /\ pc' = "exited"
  /\ data' = 0
  /\ UNCHANGED <<running, gbs, token, id, skip, unread, handle, counters>>

Exit ==
  /\ pc' = "exited"
  /\ token' = FALSE /\ data' = 0
  /\ UNCHANGED <<running, gbs, id, skip, unread, handle, counters>>

\* No bitstream registered, or fpgaGetProperties fails; else the filter is made.
Start ==
  /\ pc = "start"
  /\ \/ Exit /\ UNCHANGED filter
     \/ /\ NullGbs > 0
        /\ filter' = TRUE
        /\ pc' = "probe"
        /\ UNCHANGED <<running, gbs, token, data, id, skip, unread, handle, counters>>

\* The loop's test.
MoreGbs == gbs <= NullGbs

HasGuid(g) == Format[g] \in {"json", "empty"}

\* read_bitstream returning 0: a metadata GUID sets the static for good; without the
\* static the header has to be there.  The interface id stays what it was when
\* neither metadata nor header is read.
ParsedId_Stale(g) == id

ParsedId(g) ==
  IF Format[g] = "json" \/ (Format[g] = "header" /\ ~skip) THEN InterfaceId[g] ELSE id

read_bitstream(g) ==
  /\ HasGuid(g) \/ skip \/ Format[g] = "header"
  /\ skip' = (skip \/ HasGuid(g))
  /\ id' = ParsedId(g)
  /\ data' = g

\* A bitstream that cannot be read is passed over.
ReadBitstreamFails ==
  /\ pc = "probe" /\ MoreGbs
  /\ skip' \in {skip, skip \/ HasGuid(gbs)}
  /\ data' = 0
  /\ unread' = unread \cup {gbs}
  /\ gbs' = gbs + 1
  /\ UNCHANGED <<running, pc, filter, token, id, handle, counters>>

\* fpgaEnumerate with a filter for the socket and the interface id.
Matches(x) == x = Interface

Probe ==
  /\ pc = "probe" /\ MoreGbs
  /\ read_bitstream(gbs)
  /\ IF Matches(id')
     THEN token' = TRUE /\ pc' = "found" /\ UNCHANGED gbs
     ELSE gbs' = gbs + 1 /\ UNCHANGED <<token, pc>>
  /\ UNCHANGED <<running, filter, unread, handle, counters>>

\* out_destroy_filter.
ProbeFails ==
  /\ pc = "probe" /\ MoreGbs
  /\ filter' = FALSE
  /\ Exit

\* The filter is destroyed and, if no bitstream fits, the thread ends.
Probed ==
  /\ pc = "found" \/ (pc = "probe" /\ ~MoreGbs)
  /\ filter' = FALSE
  /\ IF gbs > NullGbs
     THEN Exit
     ELSE /\ pc' = "wait"
          /\ UNCHANGED <<running, gbs, token, data, id, skip, unread, handle, counters>>

\* The threads of other sockets read the same bitstreams.
SkippedElsewhere ==
  /\ \E g \in Gbs : HasGuid(g)
  /\ ~skip
  /\ skip' = TRUE
  /\ UNCHANGED <<running, pc, gbs, filter, token, data, id, unread, handle, counters>>

-----------------------------------------------------------------------------
\* sem_timedwait returning 0.
PostPending_Two == sem > 1

PostPending == sem > 0

\* The loop's test, and the wait.
TakePost ==
  /\ pc = "wait" /\ running
  /\ PostPending
  /\ sem' = sem - 1
  /\ pc' = "open"
  /\ UNCHANGED <<running, probeVars, handle, posts, programmed, failed>>

Leave ==
  /\ pc = "wait" /\ ~running
  /\ Exit /\ UNCHANGED filter

Open ==
  /\ pc = "open"
  /\ handle' = TRUE
  /\ pc' = "write"
  /\ UNCHANGED <<running, probeVars, counters>>

\* fpgaOpen failing: back to waiting.
AfterOpenFails == "wait"

OpenFails ==
  /\ pc = "open"
  /\ failed' = failed + 1
  /\ pc' = AfterOpenFails
  /\ UNCHANGED <<running, probeVars, handle, sem, posts, programmed>>

\* fpgaReconfigureSlot; when it fails the handle is closed all the same.
Write ==
  /\ pc = "write"
  /\ \/ programmed' = programmed + 1 /\ pc' = "close" /\ UNCHANGED failed
     \/ failed' = failed + 1 /\ pc' = "close" /\ UNCHANGED programmed
  /\ UNCHANGED <<running, probeVars, handle, sem, posts>>

Close ==
  /\ pc = "close"
  /\ handle' = FALSE
  /\ pc' = "wait"
  /\ UNCHANGED <<running, probeVars, counters>>

Thread ==
  \/ Start \/ ReadBitstreamFails \/ Probe \/ ProbeFails \/ Probed
  \/ TakePost \/ Leave \/ Open \/ OpenFails \/ Write \/ Close

\* evt_notify_ap6_and_null, called by the logger whether or not a thread waits.
Post ==
  /\ posts < MaxPosts
  /\ posts' = posts + 1
  /\ sem' = sem + 1
  /\ UNCHANGED <<running, pc, probeVars, handle, programmed, failed>>

sig_handler ==
  /\ running
  /\ running' = FALSE
  /\ UNCHANGED <<pc, probeVars, handle, counters>>

Next == Thread \/ SkippedElsewhere \/ Post \/ sig_handler

Spec == Init /\ [][Next]_vars

\* The thread is scheduled.
FairSpec == Spec /\ WF_vars(Thread)

-----------------------------------------------------------------------------
\* Every AP6 posted is waiting, being dealt with, programmed or failed: none is
\* dropped or acted on twice by the thread's continue and fall-through paths.
PostsConserved ==
  posts = sem + programmed + failed
            + (IF pc \in {"open", "write"} THEN 1 ELSE 0)

\* The handle is open only while the bitstream is written: neither failure path
\* leaves it open, which would make every later fpgaOpen fail, or closes one that
\* fpgaOpen did not return.
HandleBalanced == handle <=> (pc \in {"write", "close"})

\* While the thread waits it holds the token and the bitstream that fit, and when
\* it has ended it holds nothing.
ResourcesHeld ==
  /\ pc \in {"wait", "open", "write", "close"} =>
       token /\ ~filter /\ data \in Gbs
  /\ pc = "exited" => ~token /\ ~filter /\ data = 0 /\ ~handle

\* The bitstream a waiting thread holds was built for the FPGA on its socket, also
\* when interface_id was left over from an earlier bitstream: what is left over has
\* been tried and matched nothing.
HeldFits ==
  pc \in {"found", "wait", "open", "write", "close"} =>
    data \in Gbs /\ InterfaceId[data] = Interface

\* A bitstream that fits and was read is not passed over.
FittingIsFound ==
  \A g \in Gbs \ unread : g < gbs => InterfaceId[g] # Interface

\* A post does not wait for ever, however often opening or writing fails.
PostIsTaken == sem > 0 ~> (sem = 0 \/ pc = "exited" \/ ~running)

-----------------------------------------------------------------------------
(* What fpgad.md says and a failing call makes untrue. *)

\* An AP6 that a waiting thread is told of leads to the NULL bitstream being
\* programmed, unless the daemon is stopped.
Ap6IsAnswered ==
  \A k \in 1..MaxPosts :
    (pc = "wait" /\ posts = k /\ sem > 0 /\ programmed = 0)
      ~> (programmed > 0 \/ ~running)
=============================================================================
