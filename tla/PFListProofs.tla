---------------------------- MODULE PFListProofs ----------------------------
(***************************************************************************)
(* Proofs about the intrusive lists, for any lists and nodes and whatever  *)
(* nodes the callers append.                                               *)
(***************************************************************************)
EXTENDS PFList, PFInduction

(***************************************************************************)
(* The three ways pfstest_list_append and pfstest_list_reset write a       *)
(* pointer; every other step only moves the cursor.                        *)
(***************************************************************************)
LEMMA NextCases ==
  ASSUME [Next]_vars
  PROVE  \/ \E l \in List, n \in Node : AppendFirst(l, n)
         \/ \E l \in List, n \in Node : AppendEnter(l, n)
         \/ \E l \in List : Reset(l)
         \/ AppendStep
         \/ AppendBail
         \/ AppendLink
         \/ UNCHANGED vars
  BY DEF Next, Walk

(***************************************************************************)
(* The variables of pfstest_list_append and the pointers it writes keep    *)
(* their types, and no pointer field that is followed holds Junk: the      *)
(* cursor can only move to a node because the field it read was written.   *)
(***************************************************************************)
ListInv == TypeOK /\ NoJunkRead

\* ListInv is inductive, whoever appends which node to which list.
THEOREM ListInvHolds == Spec => []ListInv
<1> USE ListAssumption
<1>1. Init => ListInv
  BY DEF Init, ListInv, TypeOK, NoJunkRead, Initialised
<1>2. ListInv /\ [Next]_vars => ListInv'
  <2> SUFFICES ASSUME ListInv, [Next]_vars
               PROVE  ListInv'
    OBVIOUS
  <2> USE DEF ListInv, TypeOK, NoJunkRead, Initialised
  <2>1. CASE \E l \in List, n \in Node : AppendFirst(l, n)
    BY <2>1 DEF AppendFirst, NoteSharing, args
  <2>2. CASE \E l \in List, n \in Node : AppendEnter(l, n)
    BY <2>2 DEF AppendEnter, NoteSharing
  <2>3. CASE \E l \in List : Reset(l)
    BY <2>3 DEF Reset, args
  <2>4. CASE AppendStep
    BY <2>4 DEF AppendStep, args
  <2>5. CASE AppendBail
    BY <2>5 DEF AppendBail, args
  <2>6. CASE AppendLink
    BY <2>6 DEF AppendLink, args
  <2>7. CASE UNCHANGED vars
    BY <2>7 DEF vars, args
  <2> QED
    BY <2>1, <2>2, <2>3, <2>4, <2>5, <2>6, <2>7, NextCases
<1> QED
  BY <1>1, <1>2, PTL DEF Spec

(***************************************************************************)
(* No pointer field that is followed is uninitialised (objects from the    *)
(* allocator are not zeroed before they are appended).                     *)
(***************************************************************************)
THEOREM NeverReadsJunk == Spec => []NoJunkRead
<1>1. ListInv => NoJunkRead
  BY DEF ListInv
<1> QED
  BY <1>1, ListInvHolds, PTL

(***************************************************************************)
(* A node that links to nothing cannot be on a loop: if next has no loop,  *)
(* it has none after node m is made the successor of t and then the end.   *)
(***************************************************************************)
LEMMA LinkingAnEndMakesNoLoop ==
  ASSUME ListAssumption, TypeOK, NoLoop,
         NEW t \in Node, NEW m \in Node,
         next' = [[next EXCEPT ![t] = m] EXCEPT ![m] = NULL]
  PROVE  NoLoop'
<1> SUFFICES ASSUME NEW S \in SUBSET Node, S # {}
             PROVE  \E n \in S : next'[n] \notin S
  BY DEF NoLoop
<1>1. CASE m \in S
  <2>1. next'[m] = NULL
    BY DEF TypeOK
  <2> QED
    BY <1>1, <2>1, NULL \notin S DEF ListAssumption
<1>2. CASE m \notin S
  <2>1. PICK n \in S : next[n] \notin S
    BY DEF NoLoop
  <2>2. next'[n] = IF n = t THEN m ELSE next[n]
    BY <1>2 DEF TypeOK
  <2> QED
    BY <1>2, <2>1, <2>2
<1> QED
  BY <1>1, <1>2

(***************************************************************************)
(* Every loop over a list ends, whatever nodes are appended where: no      *)
(* sequence of pfstest_list_append and pfstest_list_reset calls builds a   *)
(* cycle.                                                                  *)
(***************************************************************************)
THEOREM ListsHaveNoLoop == Spec => []NoLoop
<1> USE ListAssumption
<1>1. Init => NoLoop
  BY DEF Init, NoLoop
<1>2. ListInv /\ NoLoop /\ [Next]_vars => NoLoop'
  <2> SUFFICES ASSUME ListInv, NoLoop, [Next]_vars
               PROVE  NoLoop'
    OBVIOUS
  <2> USE DEF ListInv
  <2>1. ASSUME UNCHANGED next PROVE NoLoop'
    BY <2>1 DEF NoLoop
  <2>2. CASE \E l \in List, n \in Node : AppendFirst(l, n)
    <3>1. PICK l \in List, n \in Node : AppendFirst(l, n)
      BY <2>2
    <3>2. next' = [[next EXCEPT ![n] = n] EXCEPT ![n] = NULL]
      BY <3>1 DEF AppendFirst, TypeOK
    <3> QED
      BY <3>2, LinkingAnEndMakesNoLoop
  <2>3. CASE AppendLink
    <3>1. tail \in Node /\ node \in Node
      BY <2>3 DEF AppendLink, TypeOK
    <3> QED
      BY <2>3, <3>1, LinkingAnEndMakesNoLoop DEF AppendLink
  <2>4. CASE \E l \in List, n \in Node : AppendEnter(l, n)
    BY <2>1, <2>4 DEF AppendEnter
  <2>5. CASE \E l \in List : Reset(l)
    BY <2>1, <2>5 DEF Reset
  <2>6. CASE AppendStep \/ AppendBail \/ UNCHANGED vars
    BY <2>1, <2>6 DEF AppendStep, AppendBail, vars
  <2> QED
    BY <2>2, <2>3, <2>4, <2>5, <2>6, NextCases
<1> QED
  BY <1>1, <1>2, ListInvHolds, PTL DEF Spec
-----------------------------------------------------------------------------
(***************************************************************************)
(* Iter, which follows the pointers, as the chain of nodes of a list.      *)
(***************************************************************************)
Chain(p, s) == IsChain(next, Node, p, s)

ItersAreChains ==
  \A l \in List : /\ Chain(head[l], Iter(l))
                  /\ \A s : Chain(head[l], s) => Iter(l) = s

\* The pointers have types and no loop, so that Iter is well defined.
LEMMA IterIsChain == TypeOK /\ NoLoop => ItersAreChains
<1> SUFFICES ASSUME TypeOK, NoLoop PROVE ItersAreChains
  OBVIOUS
<1>1. Loopless(next, Node)
  BY DEF NoLoop, Loopless
<1>2. ASSUME NEW l \in List PROVE Chain(head[l], Iter(l))
  <2> DEFINE D == Node \cup {NULL, Junk}
             from == CHOOSE f : IsWalk(f, next, Node, D)
  <2>1. head[l] \in D /\ Node \subseteq D /\ \A n \in Node : next[n] \in D
    BY DEF TypeOK
  <2>2. Iter(l) = from[head[l]]
    BY DEF Iter, IsWalk
  <2>3. IsWalk(from, next, Node, D)
    <3> HIDE DEF D
    <3>1. \E f : IsWalk(f, next, Node, D)
      BY <1>1, <2>1, WalkExists
    <3> QED
      BY <3>1, Zenon
  <2> HIDE DEF D, from
  <2> QED
    BY <1>1, <2>1, <2>2, <2>3, WalkIsChain DEF Chain
<1> QED
  BY <1>1, <1>2, ChainUnique DEF Chain, ItersAreChains

\* In the next state too.
LEMMA IterIsChainNext == TypeOK' /\ NoLoop' => ItersAreChains'
BY IterIsChain, PTL

(***************************************************************************)
(* The cursor of a running append is in the list appended to, and the node *)
(* to append is not among those it has passed.                             *)
(***************************************************************************)
CursorInv ==
  tail # NULL =>
    \E k \in 1..Len(Iter(list)) :
      Iter(list)[k] = tail /\ \A i \in 1..(k - 1) : Iter(list)[i] # node

\* A step that leaves a list's pointers alone leaves the list alone.
LEMMA SameIter ==
  ASSUME ListAssumption, TypeOK, NoLoop, TypeOK', NoLoop', NEW l \in List,
         head'[l] = head[l],
         \A i \in 1..Len(Iter(l)) : next'[Iter(l)[i]] = next[Iter(l)[i]]
  PROVE  Iter(l)' = Iter(l)
<1>1. Chain(head[l], Iter(l))
  BY IterIsChain DEF ItersAreChains
<1>2. PICK p : p = head[l]
  OBVIOUS
<1>3. PICK s : s = Iter(l)
  OBVIOUS
<1>4. IsChain(next', Node, p, s)
  BY <1>1, <1>2, <1>3, ChainKept DEF Chain
<1>5. head'[l] = p /\ \A t : Chain(head[l], t)' => Iter(l)' = t
  BY <1>2, IterIsChainNext DEF ItersAreChains
<1> QED
  BY <1>2, <1>3, <1>4, <1>5 DEF Chain

\* Elements of a list are nodes, and every node has a pointer.
LEMMA IterTyped ==
  ASSUME ListAssumption, TypeOK, NoLoop, NEW l \in List
  PROVE  /\ Iter(l) \in Seq(Node) /\ Len(Iter(l)) \in Nat
         /\ head[l] = NULL <=> Iter(l) = << >>
         /\ Iter(l) # << >> => Iter(l)[1] = head[l]
         /\ ToSet(Iter(l)) = {Iter(l)[i] : i \in 1..Len(Iter(l))}
<1>1. Chain(head[l], Iter(l))
  BY IterIsChain DEF ItersAreChains
<1>2. PICK s : s = Iter(l)
  OBVIOUS
<1>3. s \in Seq(Node) /\ Len(s) \in Nat /\ (s # << >> => s[1] = head[l] /\ 1 \in 1..Len(s))
  BY <1>1, <1>2 DEF Chain, IsChain
<1>4. head[l] = NULL <=> s = << >>
  BY <1>1, <1>2, <1>3 DEF Chain, IsChain, TypeOK, ListAssumption
<1>5. ToSet(s) = {s[i] : i \in 1..Len(s)}
  BY <1>3 DEF ToSet
<1> QED
  BY <1>2, <1>3, <1>4, <1>5

\* pfstest_list_append into an empty list
LEMMA FirstIsAlone ==
  ASSUME ListAssumption, TypeOK, NoLoop, TypeOK', NoLoop',
         NEW l \in List, NEW n \in Node, AppendFirst(l, n)
  PROVE  Iter(l)' = <<n>>
<1>1. next'[n] = NULL /\ head'[l] = n /\ NULL \notin Node
  BY DEF AppendFirst, TypeOK, ListAssumption
<1>2. IsChain(next', Node, n, <<n>>)
  BY <1>1 DEF IsChain
<1>3. \A s : Chain(head[l], s)' => Iter(l)' = s
  BY IterIsChainNext DEF ItersAreChains
<1> QED
  BY <1>1, <1>2, <1>3 DEF Chain

\* The end of pfstest_list_append into a list that is not empty.
LEMMA LinkedAtEnd ==
  ASSUME ListAssumption, TypeOK, NoLoop, TypeOK', NoLoop', CursorInv, AppendLink
  PROVE  /\ Iter(list)' = IF node \in ToSet(Iter(list))
                          THEN Iter(list) ELSE Append(Iter(list), node)
         /\ tail \in ToSet(Iter(list))
<1>1. PICK s : s = Iter(list)
  OBVIOUS
<1>2. PICK n \in Node, l \in List, p \in Node \cup {NULL} :
        n = node /\ l = list /\ p = head[l]
  BY DEF TypeOK
<1>3. Chain(p, s) /\ s \in Seq(Node) /\ Len(s) \in Nat /\ ToSet(s) = {s[i] : i \in 1..Len(s)}
  BY <1>1, <1>2, IterIsChain, IterTyped DEF ItersAreChains
<1>4. tail # NULL /\ next[tail] = NULL /\ tail \in Node /\ NULL \notin Node
  BY DEF AppendLink, TypeOK, ListAssumption
<1>5. PICK k \in 1..Len(s) : s[k] = tail /\ \A i \in 1..(k - 1) : s[i] # n
  BY <1>1, <1>2, <1>4 DEF CursorInv
<1>6. k = Len(s) /\ s # << >>
  <2>1. ASSUME k # Len(s) PROVE FALSE
    <3>1. k \in 1..(Len(s) - 1) /\ k + 1 \in 1..Len(s)
      BY <1>3, <2>1
    <3>2. next[s[k]] \in Node
      BY <1>3, <3>1 DEF Chain, IsChain
    <3> QED
      BY <1>4, <1>5, <3>2
  <2> QED
    BY <1>3, <2>1
<1>7. /\ next'[n] = NULL
      /\ n # tail => next'[tail] = n
      /\ \A m \in Node : m # n /\ m # tail => next'[m] = next[m]
  BY <1>2, <1>4 DEF AppendLink, TypeOK
<1>8. head' = head /\ list' = list
  BY DEF AppendLink, args
<1>9. \A t : IsChain(next', Node, p, t) => Iter(list)' = t
  BY <1>2, <1>8, IterIsChainNext DEF Chain, ItersAreChains
<1>10. CASE n \in ToSet(s)
  <2>1. PICK i \in 1..Len(s) : s[i] = n
    BY <1>3, <1>10
  <2>2. i = k
    BY <1>3, <1>5, <1>6, <2>1
  <2>3. \A m \in Node : next'[m] = next[m]
    BY <1>4, <1>5, <1>7, <2>1, <2>2
  <2>4. IsChain(next', Node, p, s)
    BY <1>3, <2>3, ChainKept DEF Chain
  <2> QED
    BY <1>1, <1>2, <1>3, <1>5, <1>9, <1>10, <2>4
<1>11. CASE n \notin ToSet(s)
  <2>1. \A i \in 1..Len(s) : s[i] # n /\ s[i] \in Node
    BY <1>3, <1>11
  <2>2. Loopless(next, Node)
    BY DEF NoLoop, Loopless
  <2>3. n # tail
    BY <1>5, <2>1
  <2>4. IsChain(next', Node, p, Append(s, n))
    BY <1>3, <1>4, <1>5, <1>6, <1>7, <2>1, <2>2, <2>3, ChainExtended DEF Chain
  <2> QED
    BY <1>1, <1>2, <1>3, <1>5, <1>9, <1>11, <2>4
<1> QED
  BY <1>10, <1>11

\* The invariants of the pointers, in this state and the next.
Sound == ListInv /\ NoLoop

\* The loop of pfstest_list_append stays in the list it appends to.
LEMMA CursorStep ==
  ASSUME ListAssumption, Sound, Sound', CursorInv, [Next]_vars
  PROVE  CursorInv'
<1> USE DEF Sound, ListInv
<1>1. ASSUME tail' = NULL PROVE CursorInv'
  BY <1>1 DEF CursorInv
<1>2. CASE \E l \in List, n \in Node : AppendFirst(l, n)
  BY <1>1, <1>2 DEF AppendFirst
<1>3. CASE \E l \in List : Reset(l)
  BY <1>1, <1>3 DEF Reset
<1>4. CASE AppendBail \/ AppendLink
  BY <1>1, <1>4 DEF AppendBail, AppendLink
<1>5. ASSUME NEW l \in List, NEW n \in Node, AppendEnter(l, n) PROVE CursorInv'
  <2>1. PICK s : s = Iter(l)
    OBVIOUS
  <2>2. s = Iter(l)' /\ list' = l /\ tail' = head[l] /\ head[l] # NULL
    BY <1>5, <2>1, SameIter DEF AppendEnter
  <2>3. s # << >> /\ s[1] = head[l] /\ Len(s) \in Nat /\ s \in Seq(Node)
    BY <2>1, <2>2, IterTyped
  <2>4. 1 \in 1..Len(s) /\ 1..(1 - 1) = {}
    BY <2>3
  <2> QED
    BY <2>2, <2>3, <2>4 DEF CursorInv
<1>6. CASE AppendStep
  <2>0. PICK l \in List, n \in Node : l = list /\ n = node
    BY DEF TypeOK
  <2>1. PICK s : s = Iter(l) /\ l = list /\ n = node
    BY <2>0
  <2>2. /\ tail # NULL /\ next[tail] # NULL /\ tail # n
        /\ tail' = next[tail] /\ next' = next /\ head' = head /\ list' = l /\ node' = n
    BY <1>6, <2>1 DEF AppendStep, args
  <2>3. s = Iter(l)'
    BY <2>1, <2>2, SameIter
  <2>4. PICK k \in 1..Len(s) : s[k] = tail /\ \A i \in 1..(k - 1) : s[i] # n
    BY <2>1, <2>2 DEF CursorInv
  <2>5. Chain(head[l], s) /\ Len(s) \in Nat /\ tail \in Node
    BY <2>1, <2>2, IterIsChain, IterTyped DEF ItersAreChains, TypeOK
  <2>6. next[tail] \in Node
    BY <2>2, <2>5 DEF TypeOK, NoJunkRead, Initialised
  <2>7. k \in 1..(Len(s) - 1)
    <3>1. k # Len(s)
      BY <2>4, <2>5, <2>6 DEF Chain, IsChain
    <3> QED
      BY <2>5, <3>1
  <2>8. k + 1 \in 1..Len(s) /\ s[k + 1] = tail'
    BY <2>2, <2>4, <2>5, <2>7 DEF Chain, IsChain
  <2>9. \A i \in 1..((k + 1) - 1) : s[i] # n
    <3>1. \A i \in 1..((k + 1) - 1) : i = k \/ i \in 1..(k - 1)
      OBVIOUS
    <3> QED
      BY <2>2, <2>4, <3>1
  <2> QED
    BY <2>2, <2>3, <2>8, <2>9 DEF CursorInv
<1>7. CASE UNCHANGED vars
  <2>1. PICK l \in List : l = list
    BY DEF TypeOK
  <2>2. Iter(l)' = Iter(l) /\ list' = l /\ tail' = tail /\ node' = node
    BY <1>7, <2>1, SameIter DEF vars, args
  <2> QED
    BY <2>1, <2>2 DEF CursorInv
<1> QED
  BY <1>2, <1>3, <1>4, <1>5, <1>6, <1>7, NextCases

(***************************************************************************)
(* OwnListGrowsAtEnd: an append leaves what the list has in its order and  *)
(* puts the node behind it, if the list does not have it, whatever nodes   *)
(* are in two lists or were before a reset.                                *)
(***************************************************************************)
THEOREM ListsGrowAtEnd == Spec => OwnListGrowsAtEnd
<1>1. Init => CursorInv
  BY DEF Init, CursorInv
<1>2. Sound /\ Sound' /\ CursorInv /\ [Next]_vars => CursorInv'
  BY ListAssumption, CursorStep
<1>3. Sound /\ Sound' /\ CursorInv /\ [Next]_vars => [GrowsAtEnd]_vars
  BY ListAssumption, FirstIsAlone, LinkedAtEnd DEF GrowsAtEnd, Sound, ListInv
<1>4. ListInv /\ NoLoop => Sound
  BY DEF Sound
<1> QED
  BY <1>1, <1>2, <1>3, <1>4, ListInvHolds, ListsHaveNoLoop, PTL DEF Spec, OwnListGrowsAtEnd

(***************************************************************************)
(* The loop of a running append goes on to the next node of its list.      *)
(***************************************************************************)
WalksOn ==
  tail # NULL /\ tail' # NULL =>
    /\ list' = list
    /\ Iter(list)' = Iter(list)
    /\ \E k \in 1..(Len(Iter(list)) - 1) :
         tail = Iter(list)[k] /\ tail' = Iter(list)[k + 1]

\* No step but the loop's leaves an append running.
LEMMA WalkStep ==
  ASSUME ListAssumption, Sound, Sound', CursorInv, Next
  PROVE  WalksOn \/ UNCHANGED vars
<1> USE DEF Sound, ListInv
<1>1. CASE AppendStep
  <2>1. PICK l \in List : l = list
    BY DEF TypeOK
  <2>2. PICK s : s = Iter(l)
    OBVIOUS
  <2>3. /\ tail # NULL /\ next[tail] # NULL
        /\ tail' = next[tail] /\ next' = next /\ head' = head /\ list' = l
    BY <1>1, <2>1 DEF AppendStep, args
  <2>4. s = Iter(l)'
    BY <2>2, <2>3, SameIter
  <2>5. PICK k \in 1..Len(s) : s[k] = tail
    BY <2>1, <2>2, <2>3 DEF CursorInv
  <2>6. Chain(head[l], s) /\ Len(s) \in Nat /\ tail \in Node
    BY <2>2, <2>3, IterIsChain, IterTyped DEF ItersAreChains, TypeOK
  <2>7. next[tail] \in Node
    BY <2>3, <2>6 DEF TypeOK, NoJunkRead, Initialised
  <2>8. k # Len(s)
    BY <2>5, <2>6, <2>7 DEF Chain, IsChain
  <2>9. k \in 1..(Len(s) - 1)
    BY <2>6, <2>8
  <2>10. s[k + 1] = tail'
    BY <2>3, <2>5, <2>6, <2>9 DEF Chain, IsChain
  <2> QED
    BY <2>1, <2>2, <2>3, <2>4, <2>5, <2>9, <2>10 DEF WalksOn
<1>2. CASE tail = NULL \/ tail' = NULL
  BY <1>2 DEF WalksOn
<1> QED
  BY <1>1, <1>2 DEF Next, Walk, AppendFirst, AppendEnter, Reset, AppendBail, AppendLink

(***************************************************************************)
(* AppendReturns rests on this: each round of the loop takes the cursor    *)
(* one node nearer to the end of a list that does not change, so the loop  *)
(* makes fewer rounds than the list has nodes.                             *)
(***************************************************************************)
THEOREM AppendWalksOn == Spec => [][WalksOn]_vars
<1>1. Init => CursorInv
  BY DEF Init, CursorInv
<1>2. Sound /\ Sound' /\ CursorInv /\ [Next]_vars => CursorInv'
  BY ListAssumption, CursorStep
<1>3. Sound /\ Sound' /\ CursorInv /\ [Next]_vars => [WalksOn]_vars
  BY ListAssumption, WalkStep
<1>4. ListInv /\ NoLoop => Sound
  BY DEF Sound
<1> QED
  BY <1>1, <1>2, <1>3, <1>4, ListInvHolds, ListsHaveNoLoop, PTL DEF Spec

-----------------------------------------------------------------------------
(***************************************************************************)
(* Unless a node was put into a second list, the lists have no node in     *)
(* common, the one a running append is about to link included.             *)
(***************************************************************************)
ApartInv ==
  shared \/
    /\ \A l, m \in List : l # m => ToSet(Iter(l)) \cap ToSet(Iter(m)) = {}
    /\ tail # NULL => \A m \in List \ {list} : node \notin ToSet(Iter(m))

\* The lists whose links a step does not write stay as they are.
LEMMA OtherList ==
  ASSUME ListAssumption, Sound, Sound', NEW m \in List, head'[m] = head[m],
         \A x \in ToSet(Iter(m)) : next'[x] = next[x]
  PROVE  Iter(m)' = Iter(m)
BY IterTyped, SameIter DEF Sound, ListInv

\* The sequences after a step that changes one list.
LEMMA OneListChanges ==
  ASSUME NEW l \in List, NEW s, Iter(l)' = s,
         \A m \in List : m # l => Iter(m)' = Iter(m)
  PROVE  sequences' = [sequences EXCEPT ![l] = s]
BY DEF sequences

\* As long as the lists stay as they are, they stay apart.
LEMMA NothingChanges ==
  ASSUME ApartInv, ~shared', \A l \in List : Iter(l)' = Iter(l), ~shared,
         \/ tail' = NULL
         \/ tail # NULL /\ UNCHANGED args
         \/ \A m \in List \ {list'} : node' \notin ToSet(Iter(m))
  PROVE  ApartInv' /\ KeepsToSequences
<1>1. sequences' = sequences
  BY DEF sequences
<1>2. ApartInv'
  BY DEF ApartInv, args
<1> QED
  BY <1>1, <1>2 DEF KeepsToSequences

\* A node that is in no list becomes the last one of a list.
LEMMA NodeIsAdded ==
  ASSUME ListAssumption, Sound, Sound', ApartInv, ~shared, NEW l \in List, NEW n \in Node,
         Iter(l)' = Append(Iter(l), n), tail' = NULL,
         \A m \in List : m # l => Iter(m)' = Iter(m),
         \A m \in List : n \notin ToSet(Iter(m))
  PROVE  ApartInv' /\ KeepsToSequences
<1>1. PICK s : s = Iter(l)
  OBVIOUS
<1>2. s \in Seq(Node) /\ ToSet(s) = {s[i] : i \in 1..Len(s)} /\ Len(s) \in Nat
  BY <1>1, IterTyped DEF Sound, ListInv
<1>3. ToSet(Append(s, n)) = ToSet(s) \cup {n}
  <2> DEFINE t == Append(s, n)
  <2>1. /\ DOMAIN t = 1..(Len(s) + 1) /\ t[Len(s) + 1] = n
        /\ \A i \in 1..Len(s) : t[i] = s[i]
    BY <1>2
  <2>2. ToSet(t) = {t[i] : i \in 1..(Len(s) + 1)}
    BY <2>1 DEF ToSet
  <2>3. 1..(Len(s) + 1) = 1..Len(s) \cup {Len(s) + 1}
    BY <1>2
  <2> HIDE DEF t
  <2>4. {t[i] : i \in 1..(Len(s) + 1)} = {s[i] : i \in 1..Len(s)} \cup {n}
    BY <2>1, <2>3
  <2> QED
    BY <1>2, <2>2, <2>4 DEF t
<1>4. ASSUME NEW k \in List, NEW m \in List, k # m
      PROVE  ToSet(Iter(k)') \cap ToSet(Iter(m)') = {}
  <2>1. ToSet(Iter(k)) \cap ToSet(Iter(m)) = {} /\ n \notin ToSet(Iter(k)) /\ n \notin ToSet(Iter(m))
    BY <1>4 DEF ApartInv
  <2>2. k = l => ToSet(Iter(k)') = ToSet(Iter(k)) \cup {n} /\ Iter(m)' = Iter(m)
    BY <1>1, <1>3, <1>4
  <2>3. m = l => ToSet(Iter(m)') = ToSet(Iter(m)) \cup {n} /\ Iter(k)' = Iter(k)
    BY <1>1, <1>3, <1>4
  <2>4. k # l /\ m # l => Iter(m)' = Iter(m) /\ Iter(k)' = Iter(k)
    OBVIOUS
  <2> QED
    BY <2>1, <2>2, <2>3, <2>4
<1>5. ApartInv'
  BY <1>4 DEF ApartInv
<1>6. sequences' = [sequences EXCEPT ![l] = Append(s, n)] /\ sequences[l] = s
  BY <1>1, OneListChanges DEF sequences
<1>7. \A m \in List : n \notin ToSet(sequences[m])
  BY DEF sequences
<1>8. sequences' = [sequences EXCEPT ![l] = Append(sequences[l], n)]
  BY <1>6
<1>9. Abstract!AppendNode(l, n)
  BY <1>7, <1>8 DEF Abstract!AppendNode, Abstract!ToSet, ToSet
<1>10. Abstract!Next
  BY <1>9 DEF Abstract!Next
<1> QED
  BY <1>5, <1>10 DEF KeepsToSequences

\* The pointers change as the sequences of PFListSpec do.
LEMMA StepKeepsToSequences ==
  ASSUME ListAssumption, Sound, Sound', CursorInv, ApartInv, [Next]_vars
  PROVE  ApartInv' /\ KeepsToSequences
<1> SUFFICES ASSUME ~shared' PROVE ApartInv' /\ KeepsToSequences
  BY DEF ApartInv, KeepsToSequences
<1>0. ListInv /\ NoLoop /\ TypeOK
  BY DEF Sound, ListInv
<1>1. ASSUME NEW l \in List, NEW n \in Node, NoteSharing(l, n)
      PROVE  ~shared /\ \A m \in List \ {l} : n \notin ToSet(Iter(m))
  BY <1>1 DEF NoteSharing, TypeOK, Sound, ListInv
<1>2. ASSUME NEW l \in List, NEW n \in Node, AppendFirst(l, n)
      PROVE  ApartInv' /\ KeepsToSequences
  <2>1. /\ NoteSharing(l, n) /\ tail' = NULL /\ head[l] = NULL
        /\ \A m \in List : m # l => head'[m] = head[m]
        /\ \A x \in Node : x # n => next'[x] = next[x]
    BY <1>0, <1>2 DEF AppendFirst, TypeOK
  <2>2. Iter(l) = << >>
    BY <1>0, <2>1, IterTyped
  <2>3. Iter(l)' = <<n>>
    BY <1>2, FirstIsAlone DEF Sound, ListInv
  <2>4. ~shared /\ \A m \in List \ {l} : n \notin ToSet(Iter(m))
    BY <1>1, <2>1
  <2>5. ToSet(<< >>) = {} /\ Append(<< >>, n) = <<n>>
    BY DEF ToSet
  <2>6. \A m \in List : n \notin ToSet(Iter(m))
    BY <2>2, <2>4, <2>5
  <2>7. ASSUME NEW m \in List, m # l PROVE Iter(m)' = Iter(m)
    <3>1. \A x \in ToSet(Iter(m)) : x \in Node /\ x # n
      BY <1>0, <2>6, IterTyped
    <3> QED
      BY <2>1, <2>7, <3>1, OtherList
  <2> QED
    BY <2>1, <2>2, <2>3, <2>4, <2>5, <2>6, <2>7, NodeIsAdded
<1>3. ASSUME NEW l \in List, NEW n \in Node, AppendEnter(l, n)
      PROVE  ApartInv' /\ KeepsToSequences
  <2>1. NoteSharing(l, n) /\ list' = l /\ node' = n /\ head' = head /\ next' = next
    BY <1>3 DEF AppendEnter
  <2>2. \A m \in List : Iter(m)' = Iter(m)
    BY <2>1, OtherList
  <2> QED
    BY <1>1, <2>1, <2>2, NothingChanges
<1>4. ASSUME NEW l \in List, Reset(l) PROVE ApartInv' /\ KeepsToSequences
  <2>1. /\ tail' = NULL /\ next' = next /\ head'[l] = NULL /\ shared' = shared
        /\ \A m \in List : m # l => head'[m] = head[m]
    BY <1>0, <1>4 DEF Reset, TypeOK
  <2>2. Iter(l)' = << >>
    <3>1. IsChain(next', Node, NULL, << >>)
      BY DEF IsChain, ListAssumption
    <3> QED
      BY <2>1, <3>1, IterIsChainNext DEF ItersAreChains, Chain, Sound, ListInv
  <2>3. \A m \in List : m # l => Iter(m)' = Iter(m)
    BY <2>1, OtherList
  <2>4. ToSet(<< >>) = {}
    BY DEF ToSet
  <2>5. ApartInv'
    BY <2>1, <2>2, <2>3, <2>4 DEF ApartInv
  <2>6. sequences' = [sequences EXCEPT ![l] = << >>]
    BY <2>2, <2>3, OneListChanges
  <2>7. Abstract!Next
    BY <2>6 DEF Abstract!Next, Abstract!Reset
  <2> QED
    BY <2>5, <2>7 DEF KeepsToSequences
<1>5. CASE AppendStep \/ AppendBail \/ UNCHANGED vars
  <2>1. /\ UNCHANGED <<head, next, args, shared>>
        /\ tail' = NULL \/ tail # NULL
    BY <1>5 DEF AppendStep, AppendBail, vars, args
  <2>2. \A m \in List : Iter(m)' = Iter(m)
    BY <2>1, OtherList
  <2> QED
    BY <2>1, <2>2, NothingChanges
<1>6. CASE AppendLink
  <2>1. PICK l \in List, n \in Node : l = list /\ n = node
    BY <1>0 DEF TypeOK
  <2>2. /\ tail # NULL /\ tail' = NULL /\ head' = head /\ ~shared
        /\ UNCHANGED args
        /\ \A x \in Node : x # n /\ x # tail => next'[x] = next[x]
    BY <1>0, <1>6, <2>1 DEF AppendLink, TypeOK
  <2>3. /\ Iter(l)' = IF n \in ToSet(Iter(l)) THEN Iter(l) ELSE Append(Iter(l), n)
        /\ tail \in ToSet(Iter(l))
    <3>1. list' = list
      BY <2>2 DEF args
    <3> QED
      BY <1>0, <1>6, <2>1, <3>1, LinkedAtEnd DEF Sound, ListInv
  <2>4. ASSUME NEW m \in List, m # l PROVE Iter(m)' = Iter(m) /\ n \notin ToSet(Iter(m))
    <3>1. tail \notin ToSet(Iter(m)) /\ n \notin ToSet(Iter(m))
      BY <2>1, <2>2, <2>3, <2>4 DEF ApartInv
    <3>2. \A x \in ToSet(Iter(m)) : x \in Node /\ x # n /\ x # tail
      BY <1>0, <3>1, IterTyped
    <3> QED
      BY <2>2, <3>1, <3>2, OtherList
  <2>5. CASE n \in ToSet(Iter(l))
    <3>1. \A m \in List : Iter(m)' = Iter(m)
      BY <2>3, <2>4, <2>5
    <3> QED
      BY <2>2, <3>1, NothingChanges
  <2>6. CASE n \notin ToSet(Iter(l))
    BY <2>2, <2>3, <2>4, <2>6, NodeIsAdded
  <2> QED
    BY <2>5, <2>6
<1> QED
  BY <1>2, <1>3, <1>4, <1>5, <1>6, NextCases

(***************************************************************************)
(* ImplementsSequences: as long as the callers keep each node in one list, *)
(* the lists are the independent sequences of PFListSpec.                  *)
(***************************************************************************)
THEOREM ListsAreSequences == Spec => ImplementsSequences
<1>1. Init => CursorInv /\ ApartInv /\ Abstract!Init
  <2> SUFFICES ASSUME Init PROVE CursorInv /\ ApartInv /\ Abstract!Init
    OBVIOUS
  <2>1. TypeOK /\ NoLoop /\ tail = NULL
    BY ListAssumption DEF Init, TypeOK, NoLoop
  <2>2. \A l \in List : head[l] = NULL
    BY DEF Init
  <2>3. \A l \in List : Iter(l) = << >>
    BY <2>1, <2>2, ListAssumption, IterTyped
  <2>4. ToSet(<< >>) = {}
    BY DEF ToSet
  <2> QED
    BY <2>1, <2>3, <2>4 DEF CursorInv, ApartInv, Abstract!Init, sequences
<1>2. Sound /\ Sound' /\ CursorInv /\ [Next]_vars => CursorInv'
  BY ListAssumption, CursorStep
<1>3. Sound /\ Sound' /\ CursorInv /\ ApartInv /\ [Next]_vars => ApartInv' /\ KeepsToSequences
  BY ListAssumption, StepKeepsToSequences
<1>4. ListInv /\ NoLoop => Sound
  BY DEF Sound
<1>5. KeepsToSequences => [KeepsToSequences]_vars
  OBVIOUS
<1> QED
  BY <1>1, <1>2, <1>3, <1>4, <1>5, ListInvHolds, ListsHaveNoLoop, PTL
  DEF Spec, ImplementsSequences
=============================================================================
