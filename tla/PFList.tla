------------------------------- MODULE PFList -------------------------------
(***************************************************************************)
(* The intrusive singly linked lists that hold every collection of the     *)
(* framework: registered tests and plugins, expectations, invocations,     *)
(* verifiers, and the blocks of an allocation frame.                       *)
(*                                                                         *)
(* A node is a pointer field inside a larger object.  Objects that come    *)
(* from the allocator are not zeroed, so a field holds Junk until the list *)
(* code writes it.  The loop of pfstest_list_append is one step per        *)
(* iteration.                                                              *)
(***************************************************************************)
EXTENDS Naturals, Sequences, SequencesExt

CONSTANTS
  List,             \* the list heads
  Node,             \* the nodes, addresses of objects
  NULL,             \* the null pointer
  Junk              \* the value of a pointer field nobody wrote

ASSUME ListAssumption ==
  /\ NULL \notin Node
  /\ Junk \notin Node
  /\ Junk # NULL

VARIABLES
  head,   \* head[l]: list->head
  next,   \* next[n]: node->next
  tail,   \* the local of a running append, NULL when no append runs
  list,   \* its argument list (meaningful while tail # NULL)
  node,   \* its argument node (meaningful while tail # NULL)
  shared  \* history: some node was appended to a list while it was in another

vars == <<head, next, tail, list, node, shared>>
args == <<list, node>>

(***************************************************************************)
(* The nodes pfstest_list_iter visits from a list's head, in order.        *)
(***************************************************************************)
Iter(l) ==
  LET from[p \in Node \cup {NULL, Junk}] ==
        IF p \notin Node THEN << >> ELSE <<p>> \o from[next[p]]
  IN  from[head[l]]

Init ==
  /\ head = [l \in List |-> NULL]
  /\ next = [n \in Node |-> Junk]
  /\ tail = NULL
  /\ list \in List
  /\ node \in Node
  /\ shared = FALSE

(***************************************************************************)
(* The caller's side of an append is free: any object may go into any      *)
(* list.  Whether one is in another list already is remembered in shared.  *)
(***************************************************************************)
NoteSharing(l, n) ==
  shared' = (shared \/ \E m \in List \ {l} : n \in ToSet(Iter(m)))

\* Variant: relies on the caller to have initialised the node.
AppendFirstBare(l, n) ==
  /\ tail = NULL
  /\ head[l] = NULL
  /\ head' = [head EXCEPT ![l] = n]
  /\ NoteSharing(l, n)
  /\ UNCHANGED <<next, tail, args>>

AppendFirst(l, n) ==
  /\ tail = NULL
  /\ head[l] = NULL
  /\ head' = [head EXCEPT ![l] = n]
  /\ NoteSharing(l, n)
  /\ next' = [next EXCEPT ![n] = NULL]
  /\ UNCHANGED <<tail, args>>

AppendEnter(l, n) ==
  /\ tail = NULL
  /\ head[l] # NULL
  /\ tail' = head[l]
  /\ list' = l
  /\ node' = n
  /\ NoteSharing(l, n)
  /\ UNCHANGED <<head, next>>

\* Variant: walks past the node when it is in the list already.
AppendStepUnchecked ==
  /\ tail # NULL
  /\ next[tail] # NULL
  /\ tail' = next[tail]
  /\ UNCHANGED <<head, next, args, shared>>

\* Variant: the cursor stays.
AppendStepStuck == tail # NULL /\ next[tail] # NULL /\ tail # node /\ UNCHANGED vars

AppendStep ==
  /\ tail # NULL
  /\ next[tail] # NULL
  /\ tail # node
  /\ tail' = next[tail]
  /\ UNCHANGED <<head, next, args, shared>>

AppendBail ==
  /\ tail # NULL
  /\ next[tail] # NULL
  /\ tail = node
  /\ tail' = NULL
  /\ UNCHANGED <<head, next, args, shared>>

\* Variant: the two assignments in the other order.
AppendLinkSwapped ==
  /\ tail # NULL
  /\ next[tail] = NULL
  /\ next' = [[next EXCEPT ![node] = NULL] EXCEPT ![tail] = node]
  /\ tail' = NULL
  /\ UNCHANGED <<head, args, shared>>

\* The order of the two assignments matters when node is the last node.
AppendLink ==
  /\ tail # NULL
  /\ next[tail] = NULL
  /\ next' = [[next EXCEPT ![tail] = node] EXCEPT ![node] = NULL]
  /\ tail' = NULL
  /\ UNCHANGED <<head, args, shared>>

Reset(l) ==
  /\ tail = NULL
  /\ head' = [head EXCEPT ![l] = NULL]
  /\ UNCHANGED <<next, tail, args, shared>>

Walk == AppendStep \/ AppendBail \/ AppendLink

Next ==
  \/ \E l \in List, n \in Node : AppendFirst(l, n)
  \/ \E l \in List, n \in Node : AppendEnter(l, n)
  \/ \E l \in List : Reset(l)
  \/ Walk

Spec == Init /\ [][Next]_vars

\* A single thread that has entered the loop keeps executing it.
FairSpec == Spec /\ WF_vars(Walk)

-----------------------------------------------------------------------------
TypeOK ==
  /\ head \in [List -> Node \cup {NULL}]
  /\ next \in [Node -> Node \cup {NULL, Junk}]
  /\ tail \in Node \cup {NULL}
  /\ list \in List
  /\ node \in Node
  /\ shared \in BOOLEAN

(***************************************************************************)
(* No set of nodes is closed under next: every loop over any list, started *)
(* anywhere, comes to an end.  It holds whatever the callers do, a node    *)
(* put into two lists and re-appended after a reset included, because      *)
(* append always makes the node it links the end of a chain.               *)
(***************************************************************************)
NoLoop ==
  \A S \in SUBSET Node : S # {} => \E n \in S : next[n] \notin S

(***************************************************************************)
(* No loop over a list follows a pointer field that was never written:     *)
(* the field of every node that is reachable, or the running append looks  *)
(* at, has been initialised.                                               *)
(***************************************************************************)
Initialised(p) == p \in Node => next[p] # Junk

NoJunkRead ==
  /\ \A l \in List : Initialised(head[l])
  /\ \A n \in Node : Initialised(next[n])
  /\ Initialised(tail)

(***************************************************************************)
(* Appending never drops a node from the list appended to, and appends to  *)
(* the end only: the nodes the list had keep their order, and what was not *)
(* there is added behind them.  It holds with nodes in two lists too (the  *)
(* other list may then change).                                            *)
(***************************************************************************)
GrowsAtEnd ==
  /\ \A l \in List, n \in Node : AppendFirst(l, n) => Iter(l)' = <<n>>
  /\ AppendLink =>
       Iter(list)' = IF node \in ToSet(Iter(list))
                     THEN Iter(list) ELSE Append(Iter(list), node)

OwnListGrowsAtEnd == [][GrowsAtEnd]_vars

(***************************************************************************)
(* Every append returns: the loop in pfstest_list_append ends.             *)
(***************************************************************************)
AppendReturns == tail # NULL ~> tail = NULL

(***************************************************************************)
(* As long as no node has been put into a second list the pointers         *)
(* implement the sequences of PFListSpec: an append changes the list it    *)
(* appends to and no other, and in no other way than PFListSpec says.      *)
(***************************************************************************)
sequences == [l \in List |-> Iter(l)]

Abstract == INSTANCE PFListSpec WITH contents <- sequences

KeepsToSequences == shared' \/ [Abstract!Next]_sequences

ImplementsSequences == Abstract!Init /\ [][KeepsToSequences]_vars
=============================================================================
