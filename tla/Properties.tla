----------------------------- MODULE Properties -----------------------------
(***************************************************************************)
(* The parent token of fpga_properties objects (libopae/props.c and the    *)
(* calls of api-shell.c that fill in properties or use them as filters).   *)
(* A token the application sees is a wrapper around the adapter's raw      *)
(* token.  Properties read from a resource own a wrapper the library       *)
(* allocated for their parent; a parent that was set belongs to the        *)
(* caller.  Adapters know raw tokens only, so fpgaUpdateProperties and     *)
(* fpgaEnumerate put the raw one in place of the wrapper and the wrapper   *)
(* back afterwards.  A call holds the properties' lock throughout and is   *)
(* one step, except fpgaEnumerate, which locks each filter twice.  An      *)
(* operator X_Fault beside X is X with a plausible mistake in it.          *)
(***************************************************************************)
EXTENDS Naturals, Sequences

CONSTANTS
  Props,       \* memory for properties objects
  Wrappers,    \* memory for wrappers the library allocates
  UserTokens,  \* wrapped tokens the application keeps
  Threads,
  Raw, NULL,
  ChangeInUse, \* the application updates properties, or sets their parent, while
               \* another thread enumerates with them
  CloneOwned   \* the application clones properties that own a wrapper

ASSUME PropertiesAssumption ==
  /\ ChangeInUse \in BOOLEAN /\ CloneOwned \in BOOLEAN
  /\ Wrappers \cap UserTokens = {}
  /\ {Raw, NULL} \cap (Wrappers \cup UserTokens) = {}
  /\ Raw # NULL

VARIABLES
  prop,  \* the properties objects
  heap,  \* wrappers that are allocated
  job,   \* fpgaEnumerate of each thread
  lost   \* history: wrappers that a failed update or a clear let go of

vars == <<prop, heap, job, lost>>

Parents == Wrappers \cup UserTokens \cup {Raw}

\* live: created and not destroyed; valid: FIELD_VALID(p, FPGA_PROPERTY_PARENT);
\* alloc: OPAE_PROPERTIES_FLAG_PARENT_ALLOC.
Object == [live : BOOLEAN, valid : BOOLEAN, alloc : BOOLEAN, parent : Parents]
NoObject == [live |-> FALSE, valid |-> FALSE, alloc |-> FALSE, parent |-> Raw]

\* fixups: ptf_list, with the wrapper each filter had.
Fixup == [p : Props, w : Wrappers \cup UserTokens]
Idle == [pc |-> "idle", filters |-> <<>>, i |-> 1, ptf_list |-> <<>>]

\* The type invariant.
TypeOK ==
  /\ prop \in [Props -> Object]
  /\ heap \subseteq Wrappers \cup UserTokens
  /\ lost \subseteq Wrappers
  /\ \A t \in Threads :
       /\ job[t].pc \in {"idle", "unwrap", "restore"}
       /\ job[t].filters \in Seq(Props)
       /\ job[t].i \in 1..(Len(job[t].filters) + 1)
       /\ job[t].ptf_list \in Seq(Fixup)

Init ==
  /\ prop = [p \in Props |-> NoObject]
  /\ heap = UserTokens
  /\ job = [t \in Threads |-> Idle]
  /\ lost = {}

-----------------------------------------------------------------------------
(* Wrappers *)

\* opae_validate_wrapped_token: a raw token has another magic.
Validated(x) == IF x = Raw THEN NULL ELSE x

\* The wrapper that p's flag says the library allocated.
OwnWrapper(p) == IF prop[p].valid /\ prop[p].alloc THEN Validated(prop[p].parent) ELSE NULL

\* What enumerating threads will put back.
Fixups(t) == {job[t].ptf_list[k] : k \in DOMAIN job[t].ptf_list}

\* ... and wherever that wrapper is while fpgaEnumerate has p's raw token in place.
Owned(p) ==
  IF prop[p].valid /\ prop[p].alloc
  THEN {w \in Wrappers : \/ prop[p].parent = w
                         \/ \E t \in Threads : [p |-> p, w |-> w] \in Fixups(t)}
  ELSE {}

\* The raw parent that the adapter left is wrapped; when malloc() fails it stays.
Wrapped(p) ==
  \/ \E w \in Wrappers \ heap :
       /\ prop' = [prop EXCEPT ![p] = [live |-> TRUE, valid |-> TRUE, alloc |-> TRUE, parent |-> w]]
       /\ heap' = heap \cup {w}
  \/ /\ prop' = [prop EXCEPT ![p] = [live |-> TRUE, valid |-> TRUE, alloc |-> FALSE, parent |-> Raw]]
     /\ UNCHANGED heap

Unparented(p) == [prop EXCEPT ![p] = [NoObject EXCEPT !.live = TRUE]]

-----------------------------------------------------------------------------
(* Calls that are one step *)

\* fpgaGetProperties and fpgaGetPropertiesFromHandle: without a token, or on an
\* FPGA_DEVICE, there is no parent.
fpgaGetProperties(p) ==
  /\ ~prop[p].live
  /\ \/ prop' = Unparented(p) /\ UNCHANGED heap
     \/ Wrapped(p)
  /\ UNCHANGED lost

\* No thread uses p as a filter.
Unused(p) ==
  \A t \in Threads : \A k \in DOMAIN job[t].filters : job[t].filters[k] # p

WithoutParent_Keep(wrapped_parent) == heap

\* "else if (wrapped_parent)": the wrapper is of no use any more.
WithoutParent(wrapped_parent) == heap \ {wrapped_parent}

\* The adapter answers with a parent, without one, or fails and touches nothing: then
\* the raw token stays in place of the wrapper.
fpgaUpdateProperties(p) ==
  LET wrapped_parent == OwnWrapper(p) IN
  /\ prop[p].live
  /\ ChangeInUse \/ Unused(p)
  /\ \/ wrapped_parent = NULL /\ Wrapped(p) /\ UNCHANGED lost
     \/ /\ wrapped_parent # NULL
        /\ prop' = [prop EXCEPT ![p].parent = wrapped_parent]
        /\ UNCHANGED <<heap, lost>>
     \/ /\ prop' = Unparented(p)
        /\ heap' = WithoutParent(wrapped_parent)
        /\ UNCHANGED lost
     \/ /\ wrapped_parent = NULL
        /\ UNCHANGED <<prop, heap, lost>>
     \/ /\ wrapped_parent # NULL
        /\ prop' = [prop EXCEPT ![p].parent = Raw]
        /\ lost' = lost \cup {wrapped_parent}
        /\ UNCHANGED heap

fpgaDestroyProperties(p) ==
  /\ prop[p].live /\ Unused(p)
  /\ heap' = heap \ {OwnWrapper(p)}
  /\ prop' = [prop EXCEPT ![p] = NoObject]
  /\ UNCHANGED lost

\* The whole object is copied, flag and pointer included.
fpgaCloneProperties(src, dst) ==
  /\ prop[src].live /\ ~prop[dst].live
  /\ CloneOwned \/ ~(prop[src].valid /\ prop[src].alloc)
  /\ prop' = [prop EXCEPT ![dst] = prop[src]]
  /\ UNCHANGED <<heap, lost>>

\* valid_fields only.
fpgaClearProperties(p) ==
  /\ prop[p].live
  /\ prop' = [prop EXCEPT ![p].valid = FALSE]
  /\ lost' = lost \cup Owned(p)
  /\ UNCHANGED heap

Replaced_Any(p) == IF prop[p].valid THEN Validated(prop[p].parent) ELSE NULL

\* What setting a parent frees: nothing of the caller's.
Replaced(p) == OwnWrapper(p)

fpgaPropertiesSetParent(p, u) ==
  /\ prop[p].live
  /\ ChangeInUse \/ Unused(p)
  /\ heap' = heap \ {Replaced(p)}
  /\ prop' = [prop EXCEPT ![p].alloc = FALSE, ![p].valid = TRUE, ![p].parent = u]
  /\ UNCHANGED lost

-----------------------------------------------------------------------------
(* fpgaEnumerate *)

\* The call, on filters that are all different.
EnumerateBegin(t) ==
  /\ job[t].pc = "idle"
  /\ \E p, q \in Props :
       /\ prop[p].live /\ prop[q].live
       /\ job' = [job EXCEPT ![t] =
                    [Idle EXCEPT !.pc = "unwrap", !.filters = IF p = q THEN <<p>> ELSE <<p, q>>]]
  /\ UNCHANGED <<prop, heap, lost>>

\* One filter; a parent that is not wrapped is refused, and malloc() may fail.
UnwrapFilter(t) ==
  LET j == job[t]
      p == j.filters[j.i] IN
  /\ j.pc = "unwrap" /\ j.i <= Len(j.filters)
  /\ \/ /\ ~prop[p].valid
        /\ job' = [job EXCEPT ![t].i = @ + 1]
        /\ UNCHANGED prop
     \/ /\ prop[p].valid
        /\ job' = [job EXCEPT ![t].pc = "restore"]
        /\ UNCHANGED prop
     \/ /\ prop[p].valid
        /\ Validated(prop[p].parent) # NULL
        /\ job' = [job EXCEPT ![t].i = @ + 1,
                              ![t].ptf_list = <<[p |-> p, w |-> prop[p].parent]>> \o @]
        /\ prop' = [prop EXCEPT ![p].parent = Raw]
  /\ UNCHANGED <<heap, lost>>

\* opae_enumerate on every adapter, with the filters as they are.
EnumerateAdapters(t) ==
  /\ job[t].pc = "unwrap" /\ job[t].i > Len(job[t].filters)
  /\ job' = [job EXCEPT ![t].pc = "restore"]
  /\ UNCHANGED <<prop, heap, lost>>

\* One entry of ptf_list, whatever the filter holds by now.
RestoreFilter(t) ==
  LET l == job[t].ptf_list IN
  /\ job[t].pc = "restore" /\ l # <<>>
  /\ prop' = [prop EXCEPT ![l[1].p].parent = l[1].w]
  /\ job' = [job EXCEPT ![t].ptf_list = Tail(l)]
  /\ UNCHANGED <<heap, lost>>

EnumerateEnd(t) ==
  /\ job[t].pc = "restore" /\ job[t].ptf_list = <<>>
  /\ job' = [job EXCEPT ![t] = Idle]
  /\ UNCHANGED <<prop, heap, lost>>

-----------------------------------------------------------------------------
Call(p) ==
  \/ fpgaGetProperties(p)
  \/ fpgaUpdateProperties(p)
  \/ fpgaDestroyProperties(p)
  \/ fpgaClearProperties(p)
  \/ \E q \in Props : fpgaCloneProperties(p, q)
  \/ \E u \in UserTokens : fpgaPropertiesSetParent(p, u)

Next ==
  \E t \in Threads :
    \/ job[t].pc = "idle" /\ (\E p \in Props : Call(p)) /\ UNCHANGED job
    \/ EnumerateBegin(t)
    \/ UnwrapFilter(t)
    \/ EnumerateAdapters(t)
    \/ RestoreFilter(t)
    \/ EnumerateEnd(t)

Spec == Init /\ [][Next]_vars

-----------------------------------------------------------------------------
(* Properties *)

\* No properties object and no fixup of fpgaEnumerate refers to a wrapper that has been
\* freed, and no token of the application's is ever freed by the library.
NoneDangles ==
  /\ UserTokens \subseteq heap
  /\ \A p \in Props : prop[p].live /\ prop[p].valid => prop[p].parent \in heap \cup {Raw}
  /\ \A t \in Threads : \A f \in Fixups(t) : f.w \in heap

\* A wrapper the library allocated is owned by one properties object, whose
\* destruction, update or new parent frees it, unless a failed fpgaUpdateProperties
\* or a fpgaClearProperties let go of it; no two objects own, and free, the same one.
OneOwner ==
  \A w \in heap \cap Wrappers :
    LET owners == {p \in Props : prop[p].live /\ w \in Owned(p)} IN
    IF w \in lost THEN owners = {} ELSE \E p \in Props : owners = {p}

-----------------------------------------------------------------------------
(* A statement of api-shell.c that the code does not keep. *)

\* "If any of the input filters has a parent token set, then it will be wrapped":
\* fpgaEnumerate finds a wrapper in every filter that has a parent, and refuses none.
FiltersWrapped ==
  \A t \in Threads :
    LET j == job[t] IN
    j.pc = "unwrap" /\ j.i <= Len(j.filters) =>
      (prop[j.filters[j.i]].valid => prop[j.filters[j.i]].parent # Raw)
=============================================================================
