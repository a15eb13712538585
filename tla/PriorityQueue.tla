---------------------------- MODULE PriorityQueue ----------------------------
(***************************************************************************)
(* What the maze routers expect of the heap: a bag of wavefront entries    *)
(* that gives back a cheapest one, or NULL when there is none.             *)
(***************************************************************************)
EXTENDS Integers

CONSTANTS Cost, Index, NULL

Entry == [cost : Cost, index : Index]

VARIABLES
  pending,   \* [Entry -> number of times it is in the queue]
  head       \* the entry last handed out

vars == << pending, head >>

IsEmpty == \A e \in Entry : pending[e] = 0

Init == pending = [e \in Entry |-> 0] /\ head = NULL

Insert(e) ==
  /\ pending' = [pending EXCEPT ![e] = @ + 1]
  /\ UNCHANGED head

GetHead ==
  \/ \E e \in Entry :
       /\ pending[e] > 0
       /\ \A f \in Entry : pending[f] > 0 => e.cost <= f.cost
       /\ pending' = [pending EXCEPT ![e] = @ - 1]
       /\ head' = e
  \/ IsEmpty /\ head' = NULL /\ UNCHANGED pending

Invalidate(n) ==
  /\ pending' = [e \in Entry |-> IF e.index = n THEN 0 ELSE pending[e]]
  /\ UNCHANGED head

Clear == pending' = [e \in Entry |-> 0] /\ UNCHANGED head

Next ==
  \/ \E e \in Entry : Insert(e)
  \/ GetHead
  \/ \E n \in Index : Invalidate(n)
  \/ Clear

Spec == Init /\ [][Next]_vars
=============================================================================
