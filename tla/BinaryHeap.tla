----------------------------- MODULE BinaryHeap -----------------------------
(***************************************************************************)
(* The binary heap of vpr/SRC/route/route_common.c that holds the          *)
(* wavefront of every maze router: add_to_heap, get_heap_head, empty_heap  *)
(* and invalidate_heap_entries over an array heap[1 .. heap_size] that     *)
(* doubles when it is full.                                                *)
(*                                                                         *)
(* The slots from heap_tail on keep what was last written there, and       *)
(* get_heap_head does read one of them: both are part of the model.        *)
(***************************************************************************)
EXTENDS Integers, FiniteSets

CONSTANTS
  Cost,        \* costs of entries
  Index,       \* what an entry is for: an rr_node and its predecessor
  OPEN,        \* index of an entry that was invalidated
  NULL,        \* no entry
  Junk,        \* content of a slot that was never written
  InitSize,    \* heap_size at the start (nx * ny)
  MaxLength    \* bound: entries in the heap

Entry == [cost : Cost, index : Index \cup {OPEN}]

ASSUME HeapAssumption ==
  /\ Cost \subseteq Int
  /\ InitSize \in Nat \ {0}
  /\ MaxLength \in Nat
  /\ OPEN \notin Index
  /\ Junk \notin Entry

VARIABLES
  heap,       \* [1 .. heap_size -> entry or junk]
  heap_tail,  \* the first free slot
  head,       \* what get_heap_head returned last
  wild        \* a slot with junk in it, or outside the array, was read

vars == << heap, heap_tail, head, wild >>

heap_size(h) == Cardinality(DOMAIN h)

Swapped(h, i, j) == [h EXCEPT ![i] = h[j], ![j] = h[i]]

-----------------------------------------------------------------------------
(* Restoring the heap order *)

\* One round of the loop that lets the entry at r.at rise above a dearer parent.
Risen(r) ==
  LET ito == r.at \div 2
  IN  IF ito >= 1 /\ r.heap[r.at].cost < r.heap[ito].cost
      THEN [heap |-> Swapped(r.heap, r.at, ito), at |-> ito]
      ELSE r

\* The entry at ifrom rises above its dearer ancestors.
SiftedUp(h, ifrom) ==
  LET rise[i \in 0 .. ifrom] ==
        IF i = 0 THEN [heap |-> h, at |-> ifrom] ELSE Risen(rise[i - 1])
  IN  rise[ifrom].heap

IsReadable(h, i) == i \in DOMAIN h /\ h[i] # Junk

\* (mutant) always compares with the left child only
SmallerChildLeft(h, ito) == ito

\* The cheaper of the children ito and ito + 1.
SmallerChild(h, ito) ==
  IF h[ito + 1].cost < h[ito].cost THEN ito + 1 ELSE ito

\* (mutant) a loop bound that includes the first free slot
ChildBoundWide(ito, tail) == ito <= tail

\* There is a left child; the right one may be the first free slot.
ChildBound(ito, tail) == ito < tail

\* One round of the loop that lets the entry at s.at sink below a cheaper child.
Sunk(s, tail) ==
  LET ito   == 2 * s.at
      child == SmallerChild(s.heap, ito)
  IN  IF s.done \/ ~ChildBound(ito, tail) THEN [s EXCEPT !.done = TRUE]
      ELSE IF ~(IsReadable(s.heap, ito) /\ IsReadable(s.heap, ito + 1))
      THEN [s EXCEPT !.done = TRUE, !.wild = TRUE]
      ELSE IF s.heap[child].cost > s.heap[s.at].cost
      THEN [s EXCEPT !.done = TRUE]
      ELSE [s EXCEPT !.heap = Swapped(s.heap, s.at, child), !.at = child]

\* The entry at the root sinks below its cheaper descendants.
SiftedDown(h, tail) ==
  LET sink[i \in 0 .. tail] ==
        IF i = 0 THEN [heap |-> h, at |-> 1, wild |-> FALSE, done |-> FALSE]
        ELSE Sunk(sink[i - 1], tail)
  IN  sink[tail]

-----------------------------------------------------------------------------
(* Operations *)

Init ==
  /\ heap = [i \in 1 .. InitSize |-> Junk]
  /\ heap_tail = 1
  /\ head = NULL
  /\ wild = FALSE

\* A full array is replaced by one of twice the size.
Grown ==
  IF heap_tail > heap_size(heap)
  THEN [i \in 1 .. 2 * heap_size(heap) |->
          IF i \in DOMAIN heap THEN heap[i] ELSE Junk]
  ELSE heap

AddToHeap(e) ==
  /\ ~wild
  /\ heap_tail <= MaxLength
  /\ IF heap_tail \in DOMAIN Grown
     THEN /\ heap' = SiftedUp([Grown EXCEPT ![heap_tail] = e], heap_tail)
          /\ UNCHANGED wild
     ELSE wild' = TRUE /\ UNCHANGED heap
  /\ heap_tail' = heap_tail + 1
  /\ UNCHANGED head

\* The entry at the root is taken off, and the last one takes its place.
TakenOff(t) ==
  LET last == t.tail - 1
      s    == SiftedDown([t.heap EXCEPT ![1] = t.heap[last]], last)
  IN  [heap |-> s.heap, tail |-> last, wild |-> t.wild \/ s.wild,
       head |-> t.heap[1]]

\* The heap after k entries have been taken off, and the entry taken last.
Taken(k) ==
  LET taken[i \in 0 .. k] ==
        IF i = 0
        THEN [heap |-> heap, tail |-> heap_tail, wild |-> FALSE, head |-> NULL]
        ELSE TakenOff(taken[i - 1])
  IN  taken[k]

IsValid(e) == e.index # OPEN

\* Invalid entries are skipped until a valid one comes up or none is left.
GetHeapHead ==
  /\ ~wild
  /\ \E k \in 0 .. heap_tail - 1 :
       LET t == Taken(k)
       IN  /\ \A j \in 1 .. k - 1 : ~IsValid(Taken(j).head)
           /\ IF k > 0 /\ IsValid(t.head) THEN head' = t.head
              ELSE k = heap_tail - 1 /\ head' = NULL
           /\ heap' = t.heap
           /\ heap_tail' = t.tail
           /\ wild' = t.wild

\* invalidate_heap_entries: the entries of one SINK that were reached via one
\* IPIN become invalid.
InvalidateHeapEntries(n) ==
  /\ ~wild
  /\ heap' = [i \in DOMAIN heap |->
                IF i < heap_tail /\ heap[i].index = n
                THEN [heap[i] EXCEPT !.index = OPEN] ELSE heap[i]]
  /\ UNCHANGED << heap_tail, head, wild >>

EmptyHeap == ~wild /\ heap_tail' = 1 /\ UNCHANGED << heap, head, wild >>

Next ==
  \/ \E c \in Cost, n \in Index : AddToHeap([cost |-> c, index |-> n])
  \/ GetHeapHead
  \/ \E n \in Index : InvalidateHeapEntries(n)
  \/ EmptyHeap

Spec == Init /\ [][Next]_vars

-----------------------------------------------------------------------------
(* Properties *)

\* get_heap_head compares heap[ito + 1] although only ito < heap_tail was
\* tested: the slot it may read beyond the last entry is inside the array and
\* has been written, at every fill level and after every growth.
NoWildAccess == ~wild

\* The heap hands out a cheapest valid entry, loses none and invents none:
\* also when the slot read beyond the end takes part in the comparison.
Queue == INSTANCE PriorityQueue WITH
  pending <- [e \in [cost : Cost, index : Index] |->
                Cardinality({i \in 1 .. heap_tail - 1 : heap[i] = e})]

ImplementsQueue == Queue!Spec
=============================================================================
