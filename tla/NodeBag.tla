------------------------------- MODULE NodeBag -------------------------------
(***************************************************************************)
(* What the router expects of the node map of a net: a bag of rr_nodes.    *)
(* Adding a node answers with its new usage, taking one away with the      *)
(* usage that remains (0 stands for the NULL that remove returns when the  *)
(* last use is gone).                                                      *)
(***************************************************************************)
EXTENDS Integers

CONSTANTS Key, Root

VARIABLES
  count,   \* [Key -> number of times the node is in the bag]
  answer   \* what the last operation returned

vars == << count, answer >>

Init ==
  /\ count = [k \in Key |-> IF k = Root THEN 1 ELSE 0]
  /\ answer = 1

Add(k) ==
  /\ count' = [count EXCEPT ![k] = @ + 1]
  /\ answer' = count[k] + 1

Remove(k) ==
  /\ count[k] > 0
  /\ count' = [count EXCEPT ![k] = @ - 1]
  /\ answer' = count[k] - 1

Next == \E k \in Key : Add(k) \/ Remove(k)

Spec == Init /\ [][Next]_vars
=============================================================================
