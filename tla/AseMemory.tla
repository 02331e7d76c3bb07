----------------------------- MODULE AseMemory -----------------------------
(***************************************************************************)
(* Host memory under the ASE simulator: fpgaPrepareBuffer and              *)
(* fpgaReleaseBuffer of the ASE library (api/src/buffer.c) pin and unpin   *)
(* pages in a simulated page table (sw/ase_host_memory.c), and two watcher *)
(* threads (sw/app_backend.c) look addresses up there to carry out the     *)
(* AFU's reads and writes, all under ase_pt_lock.  fpgaClose stops the     *)
(* watchers and then asks the simulator to end the session.                *)
(* An address is the number of a 4 KB page.  An operator X_Fault beside X  *)
(* is X with a plausible mistake in it, for trying the properties on.      *)
(***************************************************************************)
EXTENDS Integers, FiniteSets

CONSTANTS
  Fan,            \* entries of a table, 512 in the code
  Arena,          \* virtual pages that mmap may give out
  UserPages,      \* virtual pages the application has mapped itself
  Lengths,        \* the lengths it asks for
  MaxBuffers,     \* bound: buffers prepared at once
  MaxLost,        \* bound: buffers left pinned at once
  DmaPages,       \* the addresses the AFU uses
  Watchers,       \* the two membus watchers
  App,            \* the thread that makes the library calls
  None,
  AfuStops        \* no DMA is under way, nor begun, once fpgaClose is called

\* Virtual addresses of applications have the top index 0.
Pages == 0 .. Fan * Fan * Fan - 1

Span == [level \in 0..3 |-> CASE level = 0 -> 1 [] level = 1 -> Fan
                              [] level = 2 -> Fan * Fan [] level = 3 -> Fan * Fan * Fan]

ASSUME MemoryAssumption ==
  /\ Fan \in Nat \ {0, 1}
  /\ DmaPages \cup Arena \cup UserPages \subseteq Pages /\ Arena \cap UserPages = {}
  /\ Lengths \subseteq {"4K", "2M", "1G", "other"}
  /\ App \notin Watchers /\ None \notin Watchers \cup {App}

VARIABLES
  pt,         \* the page table, see Entry
  pt_lock,    \* holder of ase_pt_lock
  mapped,     \* virtual pages mapped in the application
  ws,         \* the wsid tracker: buffers that are prepared
  lost,       \* buffers left pinned though their preparation failed
  app,        \* the call in progress
  watch,      \* what each watcher is doing
  dma,        \* per watcher, the address of the request it is to answer
  session,    \* open, closing, none
  dead,       \* the process crashed or its behaviour is undefined
  odd         \* a buffer longer than 2 MB, but not of 1 GB, was asked for

vars == <<pt, pt_lock, mapped, ws, lost, app, watch, dma, session, dead, odd>>

Extent(base, n) == base .. base + n - 1

-----------------------------------------------------------------------------
(* Addresses *)

\* ase_pt_length_to_level; more than 2 MB must be 1 GB.
ase_pt_length_to_level(len) ==
  CASE len = "4K" -> 0 [] len = "2M" -> 1 [] len = "1G" -> 2 [] len = "other" -> -1

\* Exclusive or with the mask of the level: all index bits of the level and above
\* are inverted, the offset in the page is kept.
Translate(p, level) ==
  (Span[3 - level] - 1 - p \div Span[level]) * Span[level] + (p % Span[level])

ase_host_memory_va_to_pa(va, level) == Translate(va, level)

-----------------------------------------------------------------------------
(* The page table.  An entry of a table of level 3, 2 or 1 is NULL, points to a    *)
(* table of the next level, or is -1 for a huge page; tables of level 0 are bit    *)
(* vectors.  Entries are named by level and address.                               *)

Node(level, p) == <<level, p \div Span[level]>>

\* root: NULL, a table, or the -1 of a failed mmap.
EmptyTable == [root |-> "null", tables |-> {}, huge |-> {}, bits |-> {}]

NodesAbove(level, p) == {Node(l, p) : l \in (level + 1)..3}

\* ase_pt_check_addr: the level at which an address is found, or None.
ase_pt_check_addr(p) ==
  IF \E l \in 1..2 : Node(l, p) \in pt.huge
  THEN CHOOSE l \in 1..2 : Node(l, p) \in pt.huge
  ELSE IF Node(1, p) \in pt.tables /\ p \in pt.bits THEN 0 ELSE None

\* ase_host_memory_pa_to_va: 0 is None.
ase_host_memory_pa_to_va(pa) ==
  LET level == ase_pt_check_addr(pa)
  IN  IF level = None THEN None ELSE Translate(pa, level)

\* Walking down through a -1 reads through it: the test for it comes one step late.
WalksThroughHuge(level, p) == pt.root = "bad" \/ NodesAbove(level, p) \cap pt.huge # {}

\* ase_pt_delete_tree is handed the level of the entry for that of the table below:
\* a bit vector reached that way is taken for a table of pointers.
MisreadsBits(level, p) ==
  /\ level > 0 /\ Node(level, p) \in pt.tables
  /\ \/ level = 1
     \/ \E node \in pt.tables : node[1] = 1 /\ node[2] \div Fan = Node(level, p)[2]

\* Entries under the one for p.
Below(level, p) ==
  {node \in pt.tables \cup pt.huge :
     node[1] < level /\ node[2] \div Span[level - node[1]] = Node(level, p)[2]}

\* The end of ase_pt_pin_page, where it is defined.
ase_pt_pin_page(level, p) ==
  LET above == [pt EXCEPT !.root = "table", !.tables = @ \cup NodesAbove(level, p)]
  IN  IF level = 0
      THEN [above EXCEPT !.bits = @ \cup {p}]
      ELSE [above EXCEPT !.tables = @ \ (Below(level, p) \cup {Node(level, p)}),
                         !.huge = (@ \ Below(level, p)) \cup {Node(level, p)}]

\* What running out of memory for a table on the way leaves behind.
PinFailures(level, p) ==
  (IF pt.root = "null" THEN {[pt EXCEPT !.root = "bad"]} ELSE {})
    \cup {[pt EXCEPT !.root = "table", !.tables = @ \cup NodesAbove(l, p)] :
            l \in {k \in (level + 1)..3 : Node(k, p) \notin pt.tables}}

\* The end of ase_pt_unpin_page, and whether it succeeds.
UnpinFinds(level, p) ==
  /\ NodesAbove(level, p) \subseteq pt.tables
  /\ level > 0 => Node(level, p) \in pt.huge

ase_pt_unpin_page_Neighbours(level, p) ==
  IF level = 0 THEN [pt EXCEPT !.bits = @ \ Extent(p - (p % Fan), Fan)]
               ELSE [pt EXCEPT !.huge = @ \ {Node(level, p)}]

ase_pt_unpin_page(level, p) ==
  IF level = 0 THEN [pt EXCEPT !.bits = @ \ {p}]
               ELSE [pt EXCEPT !.huge = @ \ {Node(level, p)}]

-----------------------------------------------------------------------------
Idle == [pc |-> "idle", buf |-> None]
Waiting == [pc |-> "recv", va |-> None]

Init ==
  /\ pt = EmptyTable
  /\ pt_lock = None
  /\ mapped = UserPages
  /\ ws = {} /\ lost = {}
  /\ app = Idle
  /\ watch = [w \in Watchers |-> Waiting]
  /\ dma = [w \in Watchers |-> None]
  /\ session = "open"
  /\ dead = FALSE /\ odd = FALSE

\* Pages of memory a buffer takes; its length is rounded up.
PagesOf(buf) ==
  Extent(buf.base, IF buf.len = "other" THEN Span[2] ELSE Span[ase_pt_length_to_level(buf.len)])

LevelOf(buf) == ase_pt_length_to_level(buf.len)

\* Signal or undefined behaviour: nothing is known of the process any more.
Dies ==
  /\ dead' = TRUE
  /\ pt' = EmptyTable /\ pt_lock' = None
  /\ mapped' = {} /\ ws' = {} /\ lost' = {}
  /\ app' = Idle
  /\ watch' = [w \in Watchers |-> Waiting]
  /\ dma' = [w \in Watchers |-> None]
  /\ session' = "none"
  /\ UNCHANGED odd

-----------------------------------------------------------------------------
(* fpgaPrepareBuffer *)

\* buffer_allocate, or a page of the application's: memory aligned to its page size.
buffer_allocate(base, len, pre) ==
  LET buf == [base |-> base, len |-> len, pre |-> pre]
  IN  /\ ~dead /\ session = "open" /\ app.pc = "idle"
      /\ Cardinality(ws) < MaxBuffers
      /\ base % Cardinality(PagesOf(buf)) = 0
      /\ IF pre THEN len = "4K" /\ base \in UserPages /\ \A b \in ws : b.base # base
                ELSE PagesOf(buf) \subseteq Arena \ mapped
      /\ mapped' = mapped \cup PagesOf(buf)
      /\ app' = [pc |-> "pin", buf |-> buf]
      /\ odd' = (odd \/ len = "other")
      /\ UNCHANGED <<pt, pt_lock, ws, lost, watch, dma, session, dead>>

ase_host_memory_pin_KeepsLock ==
  LET level == LevelOf(app.buf)
      iova == ase_host_memory_va_to_pa(app.buf.base, level)
  IN  /\ ~dead /\ app.pc = "pin" /\ pt_lock = None /\ level # -1
      /\ ~WalksThroughHuge(level, iova) /\ ~MisreadsBits(level, iova)
      /\ \/ /\ pt' \in PinFailures(level, iova)
            /\ app' = [app EXCEPT !.pc = "undo"]
            /\ pt_lock' = App
         \/ /\ pt' = ase_pt_pin_page(level, iova)
            /\ app' = [app EXCEPT !.pc = "add"]
            /\ UNCHANGED pt_lock
      /\ UNCHANGED <<mapped, ws, lost, watch, dma, session, dead, odd>>

\* ase_host_memory_pin.  With a length of no level it returns without the unlock.
ase_host_memory_pin ==
  LET level == LevelOf(app.buf)
      iova == ase_host_memory_va_to_pa(app.buf.base, level)
  IN  /\ ~dead /\ app.pc = "pin" /\ pt_lock = None
      /\ \/ /\ level = -1
            /\ pt_lock' = App
            /\ app' = [app EXCEPT !.pc = "undo"]
            /\ UNCHANGED pt
         \/ /\ level # -1 /\ ~WalksThroughHuge(level, iova)
            /\ pt' \in PinFailures(level, iova)
            /\ app' = [app EXCEPT !.pc = "undo"]
            /\ UNCHANGED pt_lock
         \/ /\ level # -1 /\ ~WalksThroughHuge(level, iova) /\ ~MisreadsBits(level, iova)
            /\ pt' = ase_pt_pin_page(level, iova)
            /\ app' = [app EXCEPT !.pc = "add"]
            /\ UNCHANGED pt_lock
      /\ UNCHANGED <<mapped, ws, lost, watch, dma, session, dead, odd>>

\* ... and where pinning is not defined.
PinDies ==
  LET level == LevelOf(app.buf)
      iova == ase_host_memory_va_to_pa(app.buf.base, level)
  IN  /\ ~dead /\ app.pc = "pin" /\ pt_lock = None /\ level # -1
      /\ WalksThroughHuge(level, iova) \/ MisreadsBits(level, iova)
      /\ Dies

\* wsid_add, which may fail and then leaves the page pinned.
wsid_add ==
  /\ ~dead /\ app.pc = "add"
  /\ \/ ws' = ws \cup {app.buf} /\ app' = Idle /\ UNCHANGED lost
     \/ Cardinality(lost) < MaxLost
        /\ lost' = lost \cup {app.buf} /\ app' = [app EXCEPT !.pc = "undo"] /\ UNCHANGED ws
  /\ UNCHANGED <<pt, pt_lock, mapped, watch, dma, session, dead, odd>>

\* buffer_release of a buffer that is not the application's own.
Unmap(buf) == mapped' = IF buf.pre THEN mapped ELSE mapped \ PagesOf(buf)

\* The error path of fpgaPrepareBuffer.
Undo ==
  /\ ~dead /\ app.pc = "undo"
  /\ Unmap(app.buf)
  /\ app' = Idle
  /\ UNCHANGED <<pt, pt_lock, ws, lost, watch, dma, session, dead, odd>>

-----------------------------------------------------------------------------
(* fpgaReleaseBuffer *)

FindBuffer_Unmaps(buf) ==
  /\ ~dead /\ session = "open" /\ app.pc = "idle"
  /\ buf \in ws
  /\ app' = [pc |-> "unpin", buf |-> buf]
  /\ Unmap(buf)
  /\ UNCHANGED <<pt, pt_lock, ws, lost, watch, dma, session, dead, odd>>

\* wsid_find.
FindBuffer(buf) ==
  /\ ~dead /\ session = "open" /\ app.pc = "idle"
  /\ buf \in ws
  /\ app' = [pc |-> "unpin", buf |-> buf]
  /\ UNCHANGED <<pt, pt_lock, mapped, ws, lost, watch, dma, session, dead, odd>>

\* ase_host_memory_unpin; whatever it returns, memory and workspace id are released.
ase_host_memory_unpin ==
  LET level == LevelOf(app.buf)
      iova == ase_host_memory_va_to_pa(app.buf.base, level)
  IN  /\ ~dead /\ app.pc = "unpin" /\ pt_lock = None
      /\ IF WalksThroughHuge(level, iova)
         THEN Dies
         ELSE /\ pt' = IF UnpinFinds(level, iova) THEN ase_pt_unpin_page(level, iova) ELSE pt
              /\ lost' = {b \in lost : b.base # app.buf.base \/ b.len # app.buf.len}
              /\ app' = [app EXCEPT !.pc = "unmap"]
              /\ UNCHANGED <<pt_lock, mapped, ws, watch, dma, session, dead, odd>>

wsid_del ==
  /\ ~dead /\ app.pc = "unmap"
  /\ Unmap(app.buf)
  /\ ws' = ws \ {app.buf}
  /\ app' = Idle
  /\ UNCHANGED <<pt, pt_lock, lost, watch, dma, session, dead, odd>>

-----------------------------------------------------------------------------
(* membus_rd_watcher and membus_wr_watcher *)

\* The AFU reads or writes a line at some address, pinned or not, and the simulator
\* waits for the answer.
memline_req(w, p) ==
  /\ ~dead /\ dma[w] = None
  /\ session = "open" \/ (session = "closing" /\ ~AfuStops)
  /\ dma' = [dma EXCEPT ![w] = p]
  /\ UNCHANGED <<pt, pt_lock, mapped, ws, lost, app, watch, session, dead, odd>>

\* The request is received and the address translated under the lock, which is kept;
\* membus_op_status finds out whether the page is still mapped.
membus_op_status(w) ==
  LET va == ase_host_memory_pa_to_va(dma[w])
  IN  /\ ~dead /\ watch[w].pc = "recv" /\ dma[w] # None /\ pt_lock = None
      /\ IF pt.root = "bad"
         THEN Dies
         ELSE /\ pt_lock' = w
              /\ watch' = [watch EXCEPT ![w] = [pc |-> "copy",
                             va |-> IF va # None /\ va \in mapped THEN va ELSE None]]
              /\ UNCHANGED <<pt, mapped, ws, lost, app, dma, session, dead, odd>>

CopyLine_KeepsLock(w) ==
  /\ ~dead /\ watch[w].pc = "copy"
  /\ IF watch[w].va # None /\ watch[w].va \notin mapped
     THEN Dies
     ELSE /\ pt_lock' = IF watch[w].va = None THEN pt_lock ELSE None
          /\ watch' = [watch EXCEPT ![w] = [pc |-> "send", va |-> None]]
          /\ UNCHANGED <<pt, mapped, ws, lost, app, dma, session, dead, odd>>

\* The line is copied and the lock released.
CopyLine(w) ==
  /\ ~dead /\ watch[w].pc = "copy"
  /\ IF watch[w].va # None /\ watch[w].va \notin mapped
     THEN Dies
     ELSE /\ pt_lock' = None
          /\ watch' = [watch EXCEPT ![w] = [pc |-> "send", va |-> None]]
          /\ UNCHANGED <<pt, mapped, ws, lost, app, dma, session, dead, odd>>

Respond(w) ==
  /\ ~dead /\ watch[w].pc = "send"
  /\ watch' = [watch EXCEPT ![w] = Waiting]
  /\ dma' = [dma EXCEPT ![w] = None]
  /\ UNCHANGED <<pt, pt_lock, mapped, ws, lost, app, session, dead, odd>>

-----------------------------------------------------------------------------
(* fpgaClose: session_deinit and wsid_tracker_cleanup *)

\* The watchers are cancelled where they read or write a pipe, and joined.
StopWatchers ==
  /\ ~dead /\ session = "open" /\ app.pc = "idle"
  /\ AfuStops => \A w \in Watchers : dma[w] = None
  /\ \A w \in Watchers : watch[w].pc \in {"recv", "send"}
  /\ session' = "closing"
  /\ watch' = [w \in Watchers |-> [pc |-> "off", va |-> None]]
  /\ app' = [app EXCEPT !.pc = "terminate"]
  /\ UNCHANGED <<pt, pt_lock, mapped, ws, lost, dma, dead, odd>>

ase_host_memory_terminate ==
  /\ ~dead /\ app.pc = "terminate" /\ pt_lock = None
  /\ pt' = EmptyTable
  /\ lost' = {}
  /\ app' = [app EXCEPT !.pc = "simkill"]
  /\ UNCHANGED <<pt_lock, mapped, ws, watch, dma, session, dead, odd>>

\* ase_portctrl(ASE_SIMKILL): the simulator answers unless it waits for a watcher.
\* The buffers that were not released stay mapped.
SimKill ==
  /\ ~dead /\ app.pc = "simkill"
  /\ \A w \in Watchers : dma[w] = None
  /\ session' = "none"
  /\ ws' = {}
  /\ app' = Idle
  /\ UNCHANGED <<pt, pt_lock, mapped, lost, watch, dma, dead, odd>>

session_init ==
  /\ ~dead /\ session = "none"
  /\ session' = "open"
  /\ watch' = [w \in Watchers |-> Waiting]
  /\ UNCHANGED <<pt, pt_lock, mapped, ws, lost, app, dma, dead, odd>>

-----------------------------------------------------------------------------
Watcher(w) == membus_op_status(w) \/ CopyLine(w) \/ Respond(w)

\* A library call, once made, goes on.
Call ==
  \/ ase_host_memory_pin \/ PinDies \/ wsid_add \/ Undo
  \/ ase_host_memory_unpin \/ wsid_del
  \/ ase_host_memory_terminate \/ SimKill

Next ==
  \/ \E base \in Pages, len \in Lengths, pre \in BOOLEAN : buffer_allocate(base, len, pre)
  \/ \E buf \in ws : FindBuffer(buf)
  \/ StopWatchers \/ session_init
  \/ Call
  \/ \E w \in Watchers : Watcher(w) \/ \E p \in DmaPages : memline_req(w, p)

Spec == Init /\ [][Next]_vars

\* Threads are scheduled; the watchers and the calls compete for a mutex that each
\* of them gets in the end.
FairSpec ==
  /\ Spec
  /\ SF_vars(Call)
  /\ \A w \in Watchers : SF_vars(Watcher(w))

-----------------------------------------------------------------------------
(* Properties *)

\* Buffers whose page is pinned on behalf of a call or a workspace.
Pinned ==
  (IF app.pc = "unmap" THEN ws \ {app.buf} ELSE ws)
    \cup (IF app.pc = "add" THEN {app.buf} ELSE {})

IovaOf(buf) == Extent(ase_host_memory_va_to_pa(buf.base, LevelOf(buf)), Span[LevelOf(buf)])

\* The table tells exactly the pages of prepared buffers, and the address found for
\* one is the address the application has, for every page size and neighbour.  A
\* buffer that could not be entered in the tracker stays in the table.
TableTranslates ==
  (~dead /\ app.pc \notin {"terminate", "simkill"}) =>
    /\ \A buf \in Pinned : \A va \in PagesOf(buf) :
         ase_host_memory_pa_to_va(ase_host_memory_va_to_pa(va, LevelOf(buf))) = va
    /\ \A pa \in Pages : ase_host_memory_pa_to_va(pa) # None =>
         \E buf \in Pinned \cup lost : pa \in IovaOf(buf)

\* While a watcher copies a line the page stays pinned and mapped, whatever the
\* application releases meanwhile; a page left pinned by a failed preparation is
\* the exception.
PinnedWhileCopied ==
  \A w \in Watchers : (~dead /\ watch[w].pc = "copy" /\ watch[w].va # None) =>
    \/ \E buf \in Pinned : watch[w].va \in PagesOf(buf) /\ watch[w].va \in mapped
    \/ \E buf \in lost : watch[w].va \in PagesOf(buf)

\* Every memory request of the AFU is answered, unless a length of no level has left
\* the table locked.
RequestsAnswered ==
  \A w \in Watchers : dma[w] # None ~> (dma[w] = None \/ dead \/ odd)

\* fpgaClose comes to an end: simulator and application do not wait for each other,
\* again unless such a length was asked for.
CloseReturns == session = "closing" ~> (session = "none" \/ dead \/ odd)
=============================================================================
