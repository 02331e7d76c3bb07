------------------------------- MODULE Handle -------------------------------
(***************************************************************************)
(* What an fpga_handle of the xfpga plugin owns between xfpga_fpgaOpen and *)
(* xfpga_fpgaClose: the DMA buffers of buffer.c and the MMIO spaces of     *)
(* mmio.c, each in a wsid tracker, and the UMsg area of umsg.c; with the   *)
(* kernel's side of them, the process' mappings and the pins of the port's *)
(* device file.  Every call holds the handle's recursive lock from its     *)
(* first access to its last, so a call is one step, with one alternative   *)
(* for each system call or malloc() in it that can fail.  A call refused   *)
(* for its arguments changes nothing and is left out.  X_Fault beside X is *)
(* X with a plausible mistake in it, for trying the properties on.         *)
(***************************************************************************)
EXTENDS WsidList, FiniteSets

CONSTANTS
  Handles,
  Addrs,         \* virtual addresses, far enough apart for any mapping
  UserMem,       \* those of them where the application has memory of its own
  Iovas,         \* IO addresses the driver gives out, none of them 0
  Spaces,        \* numbers of the MMIO spaces
  RegionSize,    \* rinfo.size of an MMIO space
  UserLen,       \* size of each piece of the application's memory
  Lens,          \* lengths asked of fpgaPrepareBuffer
  Offsets,       \* offsets asked of the MMIO calls
  UmsgSize,      \* num_umsgs * pagesize
  PageSize, TwoMB, OneGB,
  WsidBuckets, MmioBuckets,   \* 16384 and 4
  MaxWsid        \* bound: ids generated over a behaviour

ASSUME HandleAssumption ==
  /\ UserMem \subseteq Addrs
  /\ Spaces \subseteq Nat /\ Lens \subseteq Nat /\ Offsets \subseteq Nat
  /\ RegionSize \in Nat \ {0} /\ UserLen \in Nat \ {0} /\ UmsgSize \in Nat
  /\ PageSize \in Nat \ {0} /\ TwoMB \in Nat \ {0} /\ OneGB \in Nat \ {0}
  /\ WsidBuckets \in Nat \ {0} /\ MmioBuckets \in Nat \ {0} /\ MaxWsid \in Nat
  /\ NULL \notin Addrs \cup Iovas

VARIABLES
  alive,      \* the process has not died of a NULL pointer
  open,       \* handles that are open
  wsid_root,  \* per handle; NULL when malloc() failed
  mmio_root,  \* per handle; NULL when malloc() failed
  umsg,       \* per handle umsg_virt and umsg_iova, NULL when not allocated
  ctr,        \* the process' workspace id counter
  mem,        \* kernel: bytes mapped at an address
  dma,        \* kernel: pins of each handle's device file
  base,       \* port: UMsg base address, NULL for 0
  enabled,    \* port: UMsgs are on
  lostMem,    \* history: mappings a failing call or munmap() left behind
  lostPins,   \* history: pins a failing call left behind
  abandoned,  \* history: buffers prepared and not released before fpgaClose
  out         \* history: what the last call returned, for the calls of interest

trackers == <<wsid_root, mmio_root, umsg>>
port == <<base, enabled>>
history == <<lostMem, lostPins, abandoned>>
vars == <<alive, open, trackers, ctr, mem, dma, port, history, out>>

Pin == [iova : Iovas, addr : Addrs]
NoOut == [call |-> "none"]

-----------------------------------------------------------------------------
(* Sizes *)

RoundUp(n, unit) == ((n + unit - 1) \div unit) * unit

\* The page size the flags of buffer_allocate and alloc_buffer ask mmap() for.
Backing(len) == IF len > TwoMB THEN OneGB ELSE IF len > PageSize THEN TwoMB ELSE PageSize

\* What the kernel maps for it.
Mapped(len) == RoundUp(len, Backing(len))

\* The length buffer_release and free_buffer pass to munmap().
ReleaseLen_Asked(len) == len

ReleaseLen(len) ==
  IF len > TwoMB THEN RoundUp(len, OneGB) ELSE IF len > PageSize THEN TwoMB ELSE len

\* mmap(), and a munmap() the kernel does not fail; it takes whole mappings only.
Map(m, a, size) == [m EXCEPT ![a] = size]
Munmap(m, a, len) == IF len = m[a] THEN [m EXCEPT ![a] = 0] ELSE m

\* ... and either outcome of one.
Unmapped(m, a, len, ok) == IF ok THEN Munmap(m, a, len) ELSE m
LostIf(ok, a) == IF ok THEN lostMem ELSE lostMem \cup {a}

Unused(a) == a \in Addrs \ UserMem /\ mem[a] = 0
FreeIova(io) == \A h \in Handles : \A p \in dma[h] : p.iova # io

-----------------------------------------------------------------------------
(* open.c *)

Init ==
  /\ alive = TRUE
  /\ open = {}
  /\ wsid_root = [h \in Handles |-> NULL]
  /\ mmio_root = [h \in Handles |-> NULL]
  /\ umsg = [h \in Handles |-> NULL]
  /\ ctr = 0
  /\ mem = [a \in Addrs |-> IF a \in UserMem THEN UserLen ELSE 0]
  /\ dma = [h \in Handles |-> {}]
  /\ base = NULL /\ enabled = FALSE
  /\ lostMem = {} /\ abandoned = {}
  /\ lostPins = [h \in Handles |-> {}]
  /\ out = NoOut

\* xfpga_fpgaOpen does not look at what wsid_tracker_init returns.  When the device
\* file cannot be opened everything is freed again.
Open(h) ==
  /\ h \notin open
  /\ open' = open \cup {h}
  /\ \E r \in {NULL, wsid_tracker_init(WsidBuckets)} : wsid_root' = [wsid_root EXCEPT ![h] = r]
  /\ \E r \in {NULL, wsid_tracker_init(MmioBuckets)} : mmio_root' = [mmio_root EXCEPT ![h] = r]
  /\ out' = NoOut
  /\ UNCHANGED <<alive, umsg, ctr, mem, dma, port, history>>

\* A call that follows a NULL tracker.
UseNullTracker(h) ==
  /\ h \in open
  /\ wsid_root[h] = NULL \/ mmio_root[h] = NULL
  /\ alive' = FALSE
  /\ UNCHANGED <<open, trackers, ctr, mem, dma, port, history, out>>

-----------------------------------------------------------------------------
(* buffer.c *)

\* Memory a call of fpgaPrepareBuffer may be about, the application's own when pre,
\* and its length as rounded by the call.
Source(len, pre, a) ==
  IF pre THEN a \in UserMem /\ len = UserLen /\ len % PageSize = 0
         ELSE Unused(a) /\ len > 0

\* The mappings once buffer_allocate has been called for it.
Allocated(pre, a, n) == IF pre THEN mem ELSE Map(mem, a, Mapped(n))

\* buffer_release on an error path; its result is ignored.
GiveBack(pre, a, n, ok) ==
  IF pre THEN UNCHANGED <<mem, lostMem>>
         ELSE /\ mem' = Unmapped(Allocated(pre, a, n), a, ReleaseLen(n), ok)
              /\ lostMem' = LostIf(ok, a)

BufferEntry(a, io, n, pre) ==
  [wsid |-> ctr, addr |-> a, phys |-> io, len |-> n, index |-> 0, pre |-> pre]

PinOf(wm) == [iova |-> wm.phys, addr |-> wm.addr]

opae_port_unmap_None(h, io) == UNCHANGED dma

opae_port_unmap(h, io) == dma' = [dma EXCEPT ![h] = {p \in @ : p.iova # io}]

\* The process wide counter behind workspace ids; the code also folds the process
\* id into them.
wsid_gen_Stuck == ctr < MaxWsid /\ UNCHANGED ctr

wsid_gen == ctr < MaxWsid /\ ctr' = ctr + 1

PrepareBuffer(h, len, pre) ==
  LET n == RoundUp(len, PageSize) IN
  /\ h \in open /\ wsid_root[h] # NULL
  /\ \E a \in Addrs, io \in Iovas :
       LET wm == BufferEntry(a, io, n, pre) IN
       /\ Source(len, pre, a) /\ FreeIova(io)
       /\ mem' = Allocated(pre, a, n)
       /\ dma' = [dma EXCEPT ![h] = @ \cup {PinOf(wm)}]
       /\ wsid_gen
       /\ wsid_root' = [wsid_root EXCEPT ![h] = wsid_add(@, wm)]
  /\ out' = NoOut
  /\ UNCHANGED <<alive, open, mmio_root, umsg, port, history>>

\* opae_port_map fails.
PrepareBufferNotMapped(h, len, pre) ==
  /\ h \in open
  /\ \E a \in Addrs, ok \in BOOLEAN :
       /\ Source(len, pre, a)
       /\ GiveBack(pre, a, RoundUp(len, PageSize), ok)
  /\ out' = NoOut
  /\ UNCHANGED <<alive, open, trackers, ctr, dma, port, lostPins, abandoned>>

\* wsid_add finds no memory: the buffer is given back, the pin is not.
PrepareBufferNotAdded(h, len, pre) ==
  /\ h \in open /\ wsid_root[h] # NULL
  /\ \E a \in Addrs, io \in Iovas, ok \in BOOLEAN :
       LET pin == [iova |-> io, addr |-> a] IN
       /\ Source(len, pre, a) /\ FreeIova(io)
       /\ GiveBack(pre, a, RoundUp(len, PageSize), ok)
       /\ dma' = [dma EXCEPT ![h] = @ \cup {pin}]
       /\ lostPins' = [lostPins EXCEPT ![h] = @ \cup {pin}]
  /\ wsid_gen
  /\ out' = NoOut
  /\ UNCHANGED <<alive, open, trackers, port, abandoned>>

\* The entry goes whatever happens to the pin and to the memory.
ReleaseBuffer(h, w) ==
  /\ h \in open /\ wsid_root[h] # NULL
  /\ LET wm == wsid_find(wsid_root[h], w) IN
     /\ wm # NULL
     /\ \/ \E ok \in BOOLEAN :
             /\ opae_port_unmap(h, wm.phys)
             /\ IF wm.pre THEN UNCHANGED <<mem, lostMem>>
                ELSE /\ mem' = Unmapped(mem, wm.addr, ReleaseLen(wm.len), ok)
                     /\ lostMem' = LostIf(ok, wm.addr)
             /\ UNCHANGED lostPins
        \/ /\ lostPins' = [lostPins EXCEPT ![h] = @ \cup {PinOf(wm)}]
           /\ lostMem' = LostIf(wm.pre, wm.addr)
           /\ UNCHANGED <<mem, dma>>
     /\ wsid_root' = [wsid_root EXCEPT ![h] = wsid_del(@, w)]
  /\ out' = NoOut
  /\ UNCHANGED <<alive, open, mmio_root, umsg, ctr, port, abandoned>>

-----------------------------------------------------------------------------
(* mmio.c *)

MmioEntry(a, s) ==
  [wsid |-> ctr, addr |-> a, phys |-> NULL, len |-> RegionSize, index |-> s, pre |-> FALSE]

\* find_or_map_wm succeeding: the space is mapped at a.
find_or_map_wm_Again(h, s, a) ==
  /\ Unused(a)
  /\ mem' = Map(mem, a, RegionSize)
  /\ wsid_gen
  /\ mmio_root' = [mmio_root EXCEPT ![h] = wsid_add(@, MmioEntry(a, s))]

find_or_map_wm(h, s, a) ==
  LET wm == wsid_find_by_index(mmio_root[h], s) IN
  \/ wm # NULL /\ a = wm.addr /\ UNCHANGED <<mem, ctr, mmio_root>>
  \/ /\ wm = NULL /\ Unused(a)
     /\ mem' = Map(mem, a, RegionSize)
     /\ wsid_gen
     /\ mmio_root' = [mmio_root EXCEPT ![h] = wsid_add(@, MmioEntry(a, s))]

\* ... and failing in wsid_add, after mmap().  Failing earlier changes nothing.
MapMMIONotAdded(h, s) ==
  /\ h \in open /\ mmio_root[h] # NULL
  /\ wsid_find_by_index(mmio_root[h], s) = NULL
  /\ wsid_gen
  /\ \E a \in Addrs, ok \in BOOLEAN :
       /\ Unused(a)
       /\ mem' = Unmapped(Map(mem, a, RegionSize), a, RegionSize, ok)
       /\ lostMem' = LostIf(ok, a)
  /\ out' = NoOut
  /\ UNCHANGED <<alive, open, trackers, dma, port, lostPins, abandoned>>

MapMMIO(h, s, wanted) ==
  /\ h \in open /\ mmio_root[h] # NULL
  /\ \E a \in Addrs :
       /\ find_or_map_wm(h, s, a)
       /\ out' = [call |-> "fpgaMapMMIO", ptr |-> IF wanted THEN a ELSE NULL]
  /\ UNCHANGED <<alive, open, wsid_root, umsg, dma, port, history>>

\* The read and write calls, of 4 or 8 bytes.
AccessMMIO(h, s, offset, width) ==
  /\ offset % width = 0
  /\ h \in open /\ mmio_root[h] # NULL
  /\ \E a \in Addrs : find_or_map_wm(h, s, a)
  /\ out' = IF offset > RegionSize THEN NoOut
            ELSE [call |-> "fpgaReadMMIO", offset |-> offset, width |-> width]
  /\ UNCHANGED <<alive, open, wsid_root, umsg, dma, port, history>>

\* When munmap() fails the entry stays.
UnmapMMIO(h, s) ==
  /\ h \in open /\ mmio_root[h] # NULL
  /\ LET wm == wsid_find_by_index(mmio_root[h], s) IN
     /\ wm # NULL
     /\ mem' = Munmap(mem, wm.addr, wm.len)
     /\ mmio_root' = [mmio_root EXCEPT ![h] = wsid_del(@, wm.wsid)]
  /\ out' = NoOut
  /\ UNCHANGED <<alive, open, wsid_root, umsg, ctr, dma, port, history>>

-----------------------------------------------------------------------------
(* umsg.c *)

UmsgUnchanged == UNCHANGED <<umsg, mem, dma, port, lostMem, lostPins>>

\* The driver takes the pages, the base address and the enable.
UmsgSetUp(h, a, io) ==
  /\ mem' = Map(mem, a, Mapped(UmsgSize))
  /\ dma' = [dma EXCEPT ![h] = @ \cup {[iova |-> io, addr |-> a]}]
  /\ base' = io /\ enabled' = TRUE
  /\ umsg' = [umsg EXCEPT ![h] = [virt |-> a, iova |-> io]]
  /\ UNCHANGED <<lostMem, lostPins>>

\* umsg_exit: alloc_buffer or opae_port_map fails; free_buffer gives the pages back.
UmsgNotMapped(a, ok) ==
  /\ mem' = Unmapped(Map(mem, a, Mapped(UmsgSize)), a, ReleaseLen(UmsgSize), ok)
  /\ lostMem' = LostIf(ok, a)
  /\ UNCHANGED <<umsg, dma, port, lostPins>>

\* umsg_map_exit: the base address or the enable is refused.  The base address is
\* not reset.
UmsgNotEnabled(h, a, io, unpinned, ok) ==
  LET left == IF unpinned THEN {} ELSE {[iova |-> io, addr |-> a]} IN
  /\ mem' = Unmapped(Map(mem, a, Mapped(UmsgSize)), a, ReleaseLen(UmsgSize), ok)
  /\ lostMem' = LostIf(ok, a)
  /\ dma' = [dma EXCEPT ![h] = @ \cup left]
  /\ lostPins' = [lostPins EXCEPT ![h] = @ \cup left]
  /\ base' \in {base, io}
  /\ UNCHANGED <<umsg, enabled>>

\* xfpga_fpgaGetUmsgPtr returning rc, with the caller's pointer set to ptr or, when
\* NULL, not set.  The unmap's result replaces the one that led to umsg_map_exit.
GetUmsgPtr(h, rc, ptr) ==
  IF umsg[h] # NULL
  THEN rc = "FPGA_OK" /\ ptr = umsg[h].virt /\ UmsgUnchanged
  ELSE \E a \in Addrs, io \in Iovas, ok \in BOOLEAN :
         /\ Unused(a) /\ FreeIova(io)
         /\ \/ UmsgSetUp(h, a, io) /\ rc = "FPGA_OK" /\ ptr = a
            \/ UmsgNotMapped(a, ok) /\ rc = "failed" /\ ptr = NULL
            \/ \E unpinned \in BOOLEAN :
                 /\ UmsgNotEnabled(h, a, io, unpinned, ok)
                 /\ rc = IF unpinned THEN "FPGA_OK" ELSE "failed"
                 /\ ptr = NULL

UmsgCall(h) ==
  /\ h \in open
  /\ \E rc \in {"FPGA_OK", "failed"}, ptr \in Addrs \cup {NULL} :
       /\ GetUmsgPtr(h, rc, ptr)
       /\ out' = [call |-> "fpgaGetUmsgPtr", rc |-> rc, ptr |-> ptr]
  /\ UNCHANGED <<alive, open, wsid_root, mmio_root, ctr, abandoned>>

\* Writes through the pointer when the result is FPGA_OK.
TriggerUmsg(h) ==
  /\ h \in open
  /\ \E rc \in {"FPGA_OK", "failed"}, ptr \in Addrs \cup {NULL} :
       /\ GetUmsgPtr(h, rc, ptr)
       /\ alive' = (rc = "FPGA_OK" => ptr # NULL)
  /\ out' = NoOut
  /\ UNCHANGED <<open, wsid_root, mmio_root, ctr, abandoned>>

-----------------------------------------------------------------------------
(* close.c *)

Tracked(root) == IF root = NULL THEN {} ELSE Entries(root)

\* The mappings wsid_tracker_cleanup's callback and free_umsg_buffer unmap.
ClosesAt(h) ==
  {a \in Addrs :
     \/ \E wm \in Tracked(mmio_root[h]) : wm.addr = a /\ mem[a] = wm.len
     \/ umsg[h] # NULL /\ umsg[h].virt = a /\ mem[a] = ReleaseLen(UmsgSize)}

\* free_umsg_buffer's calls to the driver, each of which may fail.
UmsgOff(h) ==
  IF umsg[h] = NULL THEN UNCHANGED port
  ELSE base' \in {NULL, base} /\ enabled' \in {FALSE, enabled}

\* The pins of a device file go with it.
AfterClose(h) == {}

\* Buffers still in the tracker are forgotten; closing the device file drops the
\* handle's pins.
Close(h) ==
  /\ h \in open
  /\ \E failing \in SUBSET ClosesAt(h) :
       /\ mem' = [a \in Addrs |-> IF a \in ClosesAt(h) \ failing THEN 0 ELSE mem[a]]
       /\ lostMem' = lostMem \cup failing
  /\ UmsgOff(h)
  /\ abandoned' = abandoned \cup {wm.addr : wm \in {b \in Tracked(wsid_root[h]) : ~b.pre}}
  /\ dma' = [dma EXCEPT ![h] = AfterClose(h)]
  /\ lostPins' = [lostPins EXCEPT ![h] = {}]
  /\ wsid_root' = [wsid_root EXCEPT ![h] = NULL]
  /\ mmio_root' = [mmio_root EXCEPT ![h] = NULL]
  /\ umsg' = [umsg EXCEPT ![h] = NULL]
  /\ open' = open \ {h}
  /\ out' = NoOut
  /\ UNCHANGED <<alive, ctr>>

Call(h) ==
  \/ Open(h) \/ UseNullTracker(h) \/ Close(h)
  \/ \E len \in Lens, pre \in BOOLEAN :
       \/ PrepareBuffer(h, len, pre)
       \/ PrepareBufferNotMapped(h, len, pre)
       \/ PrepareBufferNotAdded(h, len, pre)
  \/ \E w \in 0..MaxWsid-1 : ReleaseBuffer(h, w)
  \/ \E s \in Spaces :
       \/ MapMMIONotAdded(h, s) \/ UnmapMMIO(h, s)
       \/ \E wanted \in BOOLEAN : MapMMIO(h, s, wanted)
       \/ \E offset \in Offsets, width \in {4, 8} : AccessMMIO(h, s, offset, width)
  \/ UmsgCall(h) \/ TriggerUmsg(h)

Next == alive /\ \E h \in Handles : Call(h)

Spec == Init /\ [][Next]_vars

-----------------------------------------------------------------------------
(* Properties *)

Entry == [wsid : Nat, addr : Addrs, phys : Iovas \cup {NULL}, len : Nat,
          index : Spaces \cup {0}, pre : BOOLEAN]
Tracker(n) ==
  [n_hash_buckets : {n}, table : [0..n-1 -> Seq(Entry)]]

\* The type invariant of the handles and of the kernel's state behind them.
TypeOK ==
  /\ alive \in BOOLEAN
  /\ open \subseteq Handles
  /\ \A h \in Handles :
       /\ wsid_root[h] \in {NULL} \cup Tracker(WsidBuckets)
       /\ mmio_root[h] \in {NULL} \cup Tracker(MmioBuckets)
  /\ umsg \in [Handles -> {NULL} \cup [virt : Addrs, iova : Iovas]]
  /\ ctr \in 0..MaxWsid
  /\ mem \in [Addrs -> Nat]
  /\ dma \in [Handles -> SUBSET Pin] /\ lostPins \in [Handles -> SUBSET Pin]
  /\ base \in {NULL} \cup Iovas /\ enabled \in BOOLEAN
  /\ lostMem \subseteq Addrs /\ abandoned \subseteq Addrs

UmsgPins(h) == IF umsg[h] = NULL THEN {} ELSE {[iova |-> umsg[h].iova, addr |-> umsg[h].virt]}

\* A workspace id that wsid_find answers stands for a buffer the caller can use: its
\* memory is mapped for at least its length, and the IO address fpgaGetIOAddress
\* returns is pinned to that memory on this handle (buffer.c).
BuffersUsable ==
  \A h \in open : \A wm \in Tracked(wsid_root[h]) :
    /\ wsid_find(wsid_root[h], wm.wsid) = wm
    /\ mem[wm.addr] >= wm.len
    /\ PinOf(wm) \in dma[h]

\* Every pin of a handle is of a tracked buffer or of the UMsg area, or was left by
\* a call that reported failure: no call that succeeds leaves one behind.
PinsAccounted ==
  \A h \in Handles :
    dma[h] = {PinOf(wm) : wm \in Tracked(wsid_root[h])} \cup UmsgPins(h) \cup lostPins[h]

\* The owners of the mapping at a.
Owners(a) ==
  UNION {{<<h, wm>> : wm \in {e \in Tracked(wsid_root[h]) : e.addr = a /\ ~e.pre}} : h \in Handles}
  \cup UNION {{<<h, wm>> : wm \in {e \in Tracked(mmio_root[h]) : e.addr = a}} : h \in Handles}
  \cup {<<h, umsg[h]>> : h \in {g \in Handles : umsg[g] # NULL /\ umsg[g].virt = a}}

\* Memory the plugin maps has exactly one owner, a buffer entry, an MMIO entry or a
\* UMsg area of one handle, until it is unmapped; what has none was left by a call
\* or a munmap() that failed, or by closing a handle before releasing its buffers.  The
\* application's own memory (FPGA_BUF_PREALLOCATED) stays mapped all the time.
MemoryAccounted ==
  /\ \A a \in Addrs \ UserMem :
       Cardinality(Owners(a)) + (IF a \in lostMem \cup abandoned THEN 1 ELSE 0)
         = (IF mem[a] > 0 THEN 1 ELSE 0)
  /\ \A a \in UserMem : mem[a] = UserLen

\* An MMIO space is mapped at most once per handle, at the place its entry says, so
\* that a pointer returned by fpgaMapMMIO stays valid until fpgaUnmapMMIO.
SpacesMappedOnce ==
  \A h \in open : \A x, y \in Tracked(mmio_root[h]) :
    /\ x.index = y.index => x = y
    /\ mem[x.addr] = x.len

\* UMsgs of a handle that has a UMsg area are on, and go to it (one handle per port).
UmsgsDelivered ==
  \A h \in Handles : umsg[h] # NULL =>
    /\ enabled /\ base = umsg[h].iova
    /\ UmsgPins(h) \subseteq dma[h] /\ mem[umsg[h].virt] > 0

\* What the calls have handed out can be used until it is given back: buffers and
\* their IO addresses, pointers to MMIO spaces, and the UMsg area.
HandedOutUsable == BuffersUsable /\ SpacesMappedOnce /\ UmsgsDelivered

Work == INSTANCE Workspaces WITH
  Buffers <- Addrs \X Iovas,
  held <- [h \in Handles |-> {<<wm.wsid, <<wm.addr, wm.phys>>>> : wm \in Tracked(wsid_root[h])}],
  used <- ctr

\* The hash table behind workspace ids keeps the promise of Workspaces: one id, one
\* buffer, and wsid_del removes the entry asked for and no other.
WorkspacesSpec == Work!Spec

-----------------------------------------------------------------------------
(* Statements of umsg.h, mmio.h and access.h that the code does not keep. *)

\* When fpgaGetUmsgPtr returns FPGA_OK it has returned a pointer (umsg.h).
UmsgPtrGiven ==
  out.call = "fpgaGetUmsgPtr" /\ out.rc = "FPGA_OK" => out.ptr # NULL

\* An MMIO read or write that is not refused lies inside the space (mmio.h).
AccessInside ==
  out.call = "fpgaReadMMIO" => out.offset + out.width <= RegionSize

\* fpgaMapMMIO with a NULL pointer maps nothing (mmio.h).
NullMapsNothing ==
  [][out'.call = "fpgaMapMMIO" /\ out'.ptr = NULL => mem' = mem]_vars

\* When every handle is closed the memory fpgaPrepareBuffer mapped is unmapped, but
\* for what a failing call left (access.h).
BuffersReleased ==
  open = {} => \A a \in Addrs \ UserMem : mem[a] > 0 => a \in lostMem
=============================================================================
