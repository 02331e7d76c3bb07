----------------------------- MODULE Ap6Proofs -----------------------------
(***************************************************************************)
(* Theorems about ap6_thread, for any list of NULL bitstreams and any      *)
(* number of AP6 events.                                                   *)
(***************************************************************************)
EXTENDS Ap6, TLAPS

\* Until a bitstream fits, interface_id is not the FPGA's, wherever it came from, and
\* nothing but the filter and the bitstream last read is held.
Probing ==
  /\ pc \in {"start", "probe"} => id # Interface /\ ~token
  /\ pc = "start" => ~filter /\ data = 0
  /\ pc = "found" => token /\ gbs \in Gbs

\* Types, apart from the Boolean ones, which no other part needs.
Locals ==
  /\ pc \in {"start", "probe", "found", "wait", "open", "write", "close", "exited"}
  /\ gbs \in 1..(NullGbs + 1)
  /\ data \in 0..NullGbs
  /\ sem \in Nat /\ posts \in Nat /\ programmed \in Nat /\ failed \in Nat

Inv ==
  /\ Locals
  /\ Probing
  /\ PostsConserved
  /\ HandleBalanced
  /\ ResourcesHeld
  /\ HeldFits

\* The thread starts with nothing held and interface_id all zeroes.
LEMMA InvInit == Init => Inv
<1> SUFFICES ASSUME Init PROVE Inv
  OBVIOUS
<1> USE Ap6Assumption DEF Init
<1>1. Locals
  BY DEF Locals
<1>2. Probing /\ HandleBalanced /\ ResourcesHeld /\ HeldFits
  BY DEF Probing, HandleBalanced, ResourcesHeld, HeldFits
<1>3. PostsConserved
  BY DEF PostsConserved
<1> QED BY <1>1, <1>2, <1>3 DEF Inv

\* out_exit from any place where the handle is closed and the filter destroyed.
LEMMA ExitInv ==
  ASSUME Inv, Exit, ~filter', pc \in {"start", "probe", "found", "wait"} PROVE Inv'
<1> USE Ap6Assumption DEF Exit, counters, Inv
<1>1. Locals'
  BY DEF Locals
<1>2. Probing' /\ HeldFits'
  BY DEF Probing, HeldFits
<1>3. HandleBalanced' /\ ResourcesHeld'
  BY DEF HandleBalanced, ResourcesHeld
<1>4. PostsConserved'
  BY DEF PostsConserved
<1> QED BY <1>1, <1>2, <1>3, <1>4

\* The loop over the registered bitstreams.
LEMMA ProbeInv == ASSUME Inv, ReadBitstreamFails \/ Probe PROVE Inv'
<1> USE Ap6Assumption DEF counters
<1>0. pc = "probe" /\ gbs \in Gbs /\ gbs \in Nat /\ NullGbs \in Nat
  BY DEF ReadBitstreamFails, Probe, MoreGbs, Inv, Locals, Gbs
<1>1. CASE ReadBitstreamFails
  <2>1. /\ data' = 0 /\ gbs' = gbs + 1 /\ pc' = "probe"
        /\ UNCHANGED <<token, id, handle, counters>>
    BY <1>0, <1>1 DEF ReadBitstreamFails
  <2>2. Locals'
    BY <1>0, <2>1 DEF Inv, Locals, Gbs
  <2>3. Probing' /\ HandleBalanced' /\ ResourcesHeld' /\ HeldFits'
    BY <1>0, <2>1 DEF Inv, Probing, HandleBalanced, ResourcesHeld, HeldFits
  <2>4. PostsConserved'
    BY <1>0, <2>1 DEF Inv, PostsConserved
  <2> QED BY <2>2, <2>3, <2>4 DEF Inv
<1>2. CASE Probe
  <2>1. /\ data' = gbs /\ id' = ParsedId(gbs) /\ UNCHANGED <<filter, handle, counters>>
        /\ IF id' = Interface THEN token' = TRUE /\ pc' = "found" /\ gbs' = gbs
           ELSE gbs' = gbs + 1 /\ token' = token /\ pc' = "probe"
    BY <1>0, <1>2 DEF Probe, read_bitstream, Matches
  <2>2. id # Interface
    BY <1>0 DEF Inv, Probing
  <2>3. id' = Interface => InterfaceId[gbs] = Interface
    BY <2>1, <2>2 DEF ParsedId
  <2>4. Locals'
    BY <1>0, <2>1 DEF Inv, Locals, Gbs
  <2>5. Probing'
    BY <1>0, <2>1 DEF Inv, Probing
  <2>6. HandleBalanced'
    BY <1>0, <2>1 DEF Inv, HandleBalanced
  <2>7. ResourcesHeld' /\ HeldFits'
    BY <1>0, <2>1, <2>3 DEF Inv, ResourcesHeld, HeldFits
  <2>8. PostsConserved'
    BY <1>0, <2>1 DEF Inv, PostsConserved
  <2> QED BY <2>4, <2>5, <2>6, <2>7, <2>8 DEF Inv
<1> QED BY <1>1, <1>2

\* From the end of the loop to waiting.
LEMMA ProbedInv == ASSUME Inv, Probed PROVE Inv'
<1> USE Ap6Assumption DEF counters
<1>1. CASE gbs > NullGbs
  <2>1. Exit /\ ~filter' /\ pc \in {"probe", "found"}
    BY <1>1 DEF Probed
  <2> QED BY <2>1, ExitInv
<1>2. CASE ~(gbs > NullGbs)
  <2>1. pc = "found"
    BY <1>2 DEF Probed, MoreGbs, Inv, Locals
  <2>2. pc' = "wait" /\ filter' = FALSE /\ UNCHANGED <<gbs, token, data, id, handle, counters>>
    BY <1>2 DEF Probed
  <2>3. Locals'
    BY <2>2 DEF Inv, Locals
  <2>4. Probing' /\ HandleBalanced'
    BY <2>1, <2>2 DEF Inv, Probing, HandleBalanced
  <2>5. ResourcesHeld' /\ HeldFits'
    BY <2>1, <2>2 DEF Inv, Probing, ResourcesHeld, HeldFits
  <2>6. PostsConserved'
    BY <2>1, <2>2 DEF Inv, PostsConserved
  <2> QED BY <2>3, <2>4, <2>5, <2>6 DEF Inv
<1> QED BY <1>1, <1>2

\* Taking a post, opening, writing and closing.
LEMMA AnswerInv ==
  ASSUME Inv, TakePost \/ Open \/ OpenFails \/ Write \/ Close PROVE Inv'
<1> USE Ap6Assumption DEF TakePost, PostPending, Open, OpenFails, Write, Close, AfterOpenFails,
        counters, probeVars
<1>0. UNCHANGED <<gbs, filter, token, data, id>>
  OBVIOUS
<1>1. Locals'
  <2>1. pc' \in {"wait", "open", "write", "close"}
    OBVIOUS
  <2>2. sem' \in Nat /\ posts' \in Nat /\ programmed' \in Nat /\ failed' \in Nat
    BY DEF Inv, Locals
  <2> QED BY <1>0, <2>1, <2>2 DEF Inv, Locals
<1>2. PostsConserved'
  <2>0. sem \in Nat /\ posts \in Nat /\ programmed \in Nat /\ failed \in Nat
    BY DEF Inv, Locals
  <2> QED BY <2>0 DEF Inv, PostsConserved
<1>3. HandleBalanced'
  BY DEF Inv, HandleBalanced
<1>4. pc \in {"wait", "open", "write", "close"} /\ pc' \in {"wait", "open", "write", "close"}
  OBVIOUS
<1>5. Probing' /\ ResourcesHeld' /\ HeldFits'
  BY <1>0, <1>4 DEF Inv, Probing, ResourcesHeld, HeldFits
<1> QED BY <1>1, <1>2, <1>3, <1>5 DEF Inv

\* Every step of the thread, of the logger's posts and of SIGINT.
LEMMA InvStep == Inv /\ [Next]_vars => Inv'
<1> SUFFICES ASSUME Inv, [Next]_vars PROVE Inv'
  OBVIOUS
<1>1. CASE Start
  <2>1. CASE Exit /\ UNCHANGED filter
    <3>1. ~filter' /\ pc = "start"
      BY <1>1, <2>1 DEF Start, Inv, Probing
    <3> QED BY <2>1, <3>1, ExitInv
  <2>2. CASE ~(Exit /\ UNCHANGED filter)
    <3>1. /\ pc = "start" /\ pc' = "probe"
          /\ UNCHANGED <<gbs, token, data, id, handle, sem, posts, programmed, failed>>
      BY <1>1, <2>2 DEF Start, counters
    <3>2. Locals' /\ PostsConserved'
      BY <3>1 DEF Inv, Locals, PostsConserved
    <3> QED BY <3>1, <3>2 DEF Inv, Probing, HandleBalanced, ResourcesHeld, HeldFits
  <2> QED BY <2>1, <2>2
<1>2. CASE ReadBitstreamFails \/ Probe
  BY <1>2, ProbeInv
<1>3. CASE ProbeFails
  BY <1>3, ExitInv DEF ProbeFails
<1>4. CASE Probed
  BY <1>4, ProbedInv
<1>5. CASE Leave
  <2>1. Exit /\ pc = "wait" /\ ~filter'
    BY <1>5 DEF Leave, Inv, ResourcesHeld
  <2> QED BY <2>1, ExitInv
<1>6. CASE TakePost \/ Open \/ OpenFails \/ Write \/ Close
  BY <1>6, AnswerInv
<1>7. CASE Post
  <2>1. /\ posts' = posts + 1 /\ sem' = sem + 1
        /\ UNCHANGED <<pc, gbs, filter, token, data, id, handle, programmed, failed>>
    BY <1>7 DEF Post, probeVars
  <2>2. Locals'
    BY <2>1 DEF Inv, Locals
  <2>3. PostsConserved'
    BY <2>1 DEF Inv, Locals, PostsConserved
  <2> QED BY <2>1, <2>2, <2>3 DEF Inv, Probing, HandleBalanced, ResourcesHeld, HeldFits
<1>8. CASE sig_handler \/ SkippedElsewhere \/ UNCHANGED vars
  <2>1. UNCHANGED <<pc, gbs, filter, token, data, id, handle, sem, posts, programmed, failed>>
    BY <1>8 DEF sig_handler, SkippedElsewhere, vars, probeVars, counters
  <2> QED BY <2>1 DEF Inv, Locals, Probing, PostsConserved, HandleBalanced, ResourcesHeld,
                      HeldFits
<1> QED BY <1>1, <1>2, <1>3, <1>4, <1>5, <1>6, <1>7, <1>8 DEF Next, Thread

\* Whatever bitstreams are registered, in whatever formats and order, and whatever
\* the threads of other sockets do to skip_header_checks, a thread that waits for
\* AP6 events holds a bitstream built for the FPGA on its socket.
THEOREM HeldAlwaysFits == Spec => []HeldFits
<1>1. Inv => HeldFits
  BY DEF Inv
<1> QED BY InvInit, InvStep, <1>1, PTL DEF Spec

\* No AP6 post is dropped or answered twice by the paths of ap6_thread.
THEOREM PostsAlwaysConserved == Spec => []PostsConserved
<1>1. Inv => PostsConserved
  BY DEF Inv
<1> QED BY InvInit, InvStep, <1>1, PTL DEF Spec

\* The FME handle is open exactly while the bitstream is written and closed, and a
\* thread that has ended holds no token, filter, bitstream or handle.
THEOREM NothingLeaks == Spec => [](HandleBalanced /\ ResourcesHeld)
<1>1. Inv => HandleBalanced /\ ResourcesHeld
  BY DEF Inv
<1> QED BY InvInit, InvStep, <1>1, PTL DEF Spec

\* When every bitstream for the FPGA's interface carries JSON metadata, none that
\* can be read is passed over.
THEOREM MetadataIsFound ==
  ASSUME \A g \in Gbs : InterfaceId[g] = Interface => Format[g] = "json"
  PROVE  Spec => []FittingIsFound
<1> DEFINE F == gbs \in Nat /\ FittingIsFound
<1>1. Init => F
  BY Ap6Assumption DEF Init, FittingIsFound, Gbs
<1>2. F /\ [Next]_vars => F'
  <2> SUFFICES ASSUME F, [Next]_vars PROVE F'
    OBVIOUS
  <2>1. CASE gbs' = gbs /\ unread' = unread
    BY <2>1 DEF FittingIsFound
  <2>2. CASE ReadBitstreamFails
    <3>1. gbs' = gbs + 1 /\ unread' = unread \cup {gbs}
      BY <2>2 DEF ReadBitstreamFails
    <3>2. \A g \in Gbs : g \in Nat
      BY Ap6Assumption DEF Gbs
    <3>3. ASSUME NEW g \in Gbs \ unread', g < gbs' PROVE InterfaceId[g] # Interface
      BY <3>1, <3>2, <3>3 DEF FittingIsFound
    <3> QED BY <3>1, <3>3 DEF FittingIsFound
  <2>3. CASE Probe /\ gbs' # gbs
    <3>1. gbs' = gbs + 1 /\ unread' = unread /\ ParsedId(gbs) # Interface
      BY <2>3 DEF Probe, read_bitstream, Matches
    <3>2. gbs \in Gbs => InterfaceId[gbs] # Interface
      BY <3>1 DEF ParsedId
    <3>3. \A g \in Gbs : g \in Nat
      BY Ap6Assumption DEF Gbs
    <3>4. ASSUME NEW g \in Gbs \ unread', g < gbs' PROVE InterfaceId[g] # Interface
      <4>1. CASE g = gbs
        BY <3>2, <4>1
      <4>2. CASE g # gbs
        <5>1. g < gbs
          BY <3>1, <3>3, <3>4, <4>2
        <5> QED BY <3>1, <5>1 DEF FittingIsFound
      <4> QED BY <4>1, <4>2
    <3> QED BY <3>1, <3>4 DEF FittingIsFound
  <2>4. \/ gbs' = gbs /\ unread' = unread
        \/ ReadBitstreamFails
        \/ Probe /\ gbs' # gbs
    BY DEF Next, Thread, Start, Exit, Probe, ProbeFails, Probed, TakePost, Leave, Open,
           OpenFails, Write, Close, SkippedElsewhere, Post, sig_handler, vars, probeVars
  <2> QED BY <2>1, <2>2, <2>3, <2>4
<1>3. F => FittingIsFound
  OBVIOUS
<1> QED BY <1>1, <1>2, <1>3, PTL DEF Spec
============================================================================
