------------------------------ MODULE WsidList ------------------------------
(***************************************************************************)
(* The tracker an fpga_handle keeps its buffers and its MMIO spaces in     *)
(* (xfpga/wsid_list.c): a hash table whose buckets are lists of struct     *)
(* wsid_map, newest first.  An operator X_Fault beside X is X with a       *)
(* plausible mistake in it, for trying the properties on.                  *)
(***************************************************************************)
EXTENDS Naturals, SequencesExt

CONSTANTS
  HashPrime,   \* 17659
  NULL

ASSUME HashAssumption == HashPrime \in Nat \ {0}

wsid_tracker_init(n) ==
  [n_hash_buckets |-> n, table |-> [idx \in 0..n-1 |-> <<>>]]

wsid_hash(root, w) == (w % HashPrime) % root.n_hash_buckets

wsid_add(root, wm) ==
  [root EXCEPT !.table[wsid_hash(root, wm.wsid)] = Cons(wm, @)]

wsid_del(root, w) ==
  [root EXCEPT !.table[wsid_hash(root, w)] =
     RemoveFirstMatch(@, LAMBDA wm : wm.wsid = w)]

wsid_find(root, w) ==
  LET hits == SelectSeq(root.table[wsid_hash(root, w)], LAMBDA wm : wm.wsid = w)
  IN  IF hits = <<>> THEN NULL ELSE Head(hits)

\* Searches the buckets in order.
wsid_find_by_index(root, index) ==
  LET hits(idx) == SelectSeq(root.table[idx], LAMBDA wm : wm.index = index)
      at == {idx \in DOMAIN root.table : hits(idx) # <<>>}
  IN  IF at = {} THEN NULL ELSE Head(hits(Min(at)))

\* What wsid_tracker_cleanup passes to its callback and frees.
Entries(root) == UNION {Range(root.table[idx]) : idx \in DOMAIN root.table}
=============================================================================
