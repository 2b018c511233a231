----------------------------- MODULE PFListSpec -----------------------------
(***************************************************************************)
(* What the clients of pfstest-list.h rely on: a list is a sequence of     *)
(* nodes, an append puts a new node at the end and leaves a node that is   *)
(* already there where it is, a reset empties the list, and no operation   *)
(* on one list is visible through another.  A node is a member of at most  *)
(* one list (tests/test-mock.c:10).                                        *)
(***************************************************************************)
EXTENDS Sequences, SequencesExt

CONSTANTS List, Node

VARIABLE contents

Init == contents = [l \in List |-> << >>]

AppendNode(l, n) ==
  /\ \A m \in List \ {l} : n \notin ToSet(contents[m])
  /\ n \notin ToSet(contents[l])
  /\ contents' = [contents EXCEPT ![l] = Append(@, n)]

Reset(l) == contents' = [contents EXCEPT ![l] = << >>]

Next == \E l \in List : Reset(l) \/ \E n \in Node : AppendNode(l, n)

Spec == Init /\ [][Next]_contents
=============================================================================
