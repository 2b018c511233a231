------------------------------ MODULE PFAlloc -------------------------------
(***************************************************************************)
(* src/alloc/pfstest-alloc-malloc.c: every object is a block of malloc     *)
(* with a list node in front, linked into the list of its frame; freeing a *)
(* frame walks that list.  Memory that is not initialised, or was freed,   *)
(* holds Junk (the code writes 0xaa over it), and so does a node that such *)
(* a write hits by mistake.                                                *)
(***************************************************************************)
EXTENDS Naturals, Sequences, SequencesExt

CONSTANTS
  MemSize,               \* bytes malloc has (bound)
  NodeSize, EnvSize,     \* sizeof of a list node, and of a dynamic_env_t
  PFSTEST_ALIGNMENT,
  Request,               \* sizes tests ask for
  NULL, Junk,
  Static                 \* &default_dynamic_env

Address == 0..(MemSize - 1)

ASSUME AllocAssumption ==
  /\ {NodeSize, EnvSize, PFSTEST_ALIGNMENT} \subseteq Nat \ {0}
  /\ MemSize \in Nat
  /\ Request \subseteq Nat
  /\ NULL # Junk
  /\ {NULL, Junk, Static} \cap Address = {}
  /\ Static \notin {NULL, Junk}

VARIABLES
  blocks,        \* what malloc returned and free did not get back
  next,          \* next[a]: the list node at a
  allocated,     \* allocated[e]: the list head in the frame record at e
  up,            \* up[e]: the next field of that record
  dynamic_env,
  node,          \* the loop of pfstest_alloc_free_frame
  doing,         \* the function that runs
  stopped        \* an assertion failed

memory == <<blocks, next, allocated, up>>
vars   == <<memory, dynamic_env, node, doing, stopped>>

Span(a, n) == a..(a + n - 1)
Block      == [base : Address, size : 1..MemSize]
Bytes(b)   == Span(b.base, b.size)

align_size(size) ==
  IF size % PFSTEST_ALIGNMENT # 0
  THEN size + (PFSTEST_ALIGNMENT - (size % PFSTEST_ALIGNMENT)) ELSE size

header_size == align_size(NodeSize)

\* The nodes, and the list heads, that survive memset(from, 0xaa, size).
Corrupted(f, width, from, size) ==
  [a \in DOMAIN f |->
     IF a \in Address /\ Span(a, width) \cap Span(from, size) # {} THEN Junk ELSE f[a]]

corrupt(from, size) ==
  /\ next' = Corrupted(next, NodeSize, from, size)
  /\ up' = Corrupted(up, EnvSize, from, size)
  /\ allocated' = Corrupted(allocated, EnvSize, from, size)

(***************************************************************************)
(* malloc returns any aligned block that is free (external).               *)
(***************************************************************************)
Free(size) ==
  { b \in [base : Address, size : {size}] :
      /\ b.base % PFSTEST_ALIGNMENT = 0
      /\ b.base + size <= MemSize
      /\ \A c \in blocks : Bytes(b) \cap Bytes(c) = {} }

Init ==
  /\ blocks = {}
  /\ next = [a \in Address |-> Junk]
  /\ allocated = [e \in Address \cup {Static} |-> IF e = Static THEN NULL ELSE Junk]
  /\ up = [e \in Address \cup {Static} |-> IF e = Static THEN NULL ELSE Junk]
  /\ dynamic_env = Static
  /\ node = NULL
  /\ doing = "nothing"
  /\ stopped = FALSE

Idle == doing = "nothing" /\ ~stopped

\* The nodes linked from p, as pfstest_list_iter visits them.
Nodes(p) ==
  LET from[q \in Address \cup {NULL, Junk}] ==
        IF q \notin Address THEN << >> ELSE <<q>> \o from[next[q]]
  IN  from[p]

\* evil_malloc when memory is exhausted
OutOfMemory(size) ==
  /\ Idle
  /\ Free(size) = {}
  /\ stopped' = TRUE
  /\ UNCHANGED <<memory, dynamic_env, node, doing>>

\* pfstest_list_append of a new node to the frame's list, after evil_malloc
Appended(e, n, b) ==
  LET list == Nodes(allocated[e])
      blank == Corrupted(next, NodeSize, b.base, b.size)
  IN  IF list = << >> THEN [blank EXCEPT ![n] = NULL]
      ELSE [blank EXCEPT ![Last(list)] = n, ![n] = NULL]

\* Variant: always in the first frame.
alloc_static(size) ==
  /\ Idle
  /\ size # 0
  /\ \E b \in Free(header_size + size) :
       /\ blocks' = blocks \cup {b}
       /\ next' = Appended(Static, b.base, b)
       /\ up' = Corrupted(up, EnvSize, b.base, b.size)
       /\ allocated' = [allocated EXCEPT ![Static] = IF @ = NULL THEN b.base ELSE @]
  /\ UNCHANGED <<dynamic_env, node, doing, stopped>>

alloc(size) ==
  /\ Idle
  /\ size # 0
  /\ \E b \in Free(header_size + size) :
       /\ blocks' = blocks \cup {b}
       /\ next' = Appended(dynamic_env, b.base, b)
       /\ up' = Corrupted(up, EnvSize, b.base, b.size)
       /\ allocated' =
            [Corrupted(allocated, EnvSize, b.base, b.size)
               EXCEPT ![dynamic_env] = IF @ = NULL THEN b.base ELSE @]
  /\ UNCHANGED <<dynamic_env, node, doing, stopped>>

alloc_zero == Idle /\ 0 \in Request /\ UNCHANGED vars  \* returns NULL

frame_push ==
  /\ Idle
  /\ \E b \in Free(EnvSize) :
       /\ blocks' = blocks \cup {b}
       /\ next' = Corrupted(next, NodeSize, b.base, b.size)
       /\ up' = [Corrupted(up, EnvSize, b.base, b.size) EXCEPT ![b.base] = dynamic_env]
       /\ allocated' = [Corrupted(allocated, EnvSize, b.base, b.size)
                          EXCEPT ![b.base] = NULL]
       /\ dynamic_env' = b.base
  /\ UNCHANGED <<node, doing, stopped>>

\* pfstest_alloc_free_frame is called; caller is what it returns to.
FreeEnter(caller) ==
  /\ Idle
  /\ caller = "frame_pop" => dynamic_env # Static
  /\ doing' = caller
  /\ node' = allocated[dynamic_env]
  /\ UNCHANGED <<memory, dynamic_env, stopped>>

free(a) == blocks' = {b \in blocks : b.base # a}

\* Variants: pfstest_list_iter, which reads next after the block went back; the
\* same node again and again.
FreeStepIter ==
  /\ doing # "nothing"
  /\ node # NULL
  /\ corrupt(node, NodeSize + 1)
  /\ node' = next'[node]
  /\ free(node)
  /\ UNCHANGED <<dynamic_env, doing, stopped>>

FreeStepStuck == doing # "nothing" /\ node # NULL /\ UNCHANGED vars

\* One iteration: node->next is read before the block goes back.
FreeStep ==
  /\ doing # "nothing"
  /\ node # NULL
  /\ node' = next[node]
  /\ corrupt(node, NodeSize + 1)
  /\ free(node)
  /\ UNCHANGED <<dynamic_env, doing, stopped>>

free_frame ==
  /\ doing = "free_frame"
  /\ node = NULL
  /\ allocated' = [allocated EXCEPT ![dynamic_env] = NULL]
  /\ doing' = "nothing"
  /\ UNCHANGED <<blocks, next, up, dynamic_env, node, stopped>>

\* Variant: the record of the frame is not freed.
frame_pop_leaks ==
  /\ doing = "frame_pop"
  /\ node = NULL
  /\ dynamic_env' = up[dynamic_env]
  /\ corrupt(dynamic_env, EnvSize)
  /\ doing' = "nothing"
  /\ UNCHANGED <<blocks, node, stopped>>

frame_pop ==
  /\ doing = "frame_pop"
  /\ node = NULL
  /\ dynamic_env' = up[dynamic_env]
  /\ corrupt(dynamic_env, EnvSize)
  /\ free(dynamic_env)
  /\ doing' = "nothing"
  /\ UNCHANGED <<node, stopped>>

Next ==
  \/ \E size \in Request : alloc(size) \/ (size # 0 /\ OutOfMemory(header_size + size))
  \/ alloc_zero
  \/ frame_push \/ OutOfMemory(EnvSize)
  \/ \E caller \in {"free_frame", "frame_pop"} : FreeEnter(caller)
  \/ FreeStep \/ free_frame \/ frame_pop
  \/ stopped /\ UNCHANGED vars

Spec == Init /\ [][Next]_vars
FairSpec == Spec /\ WF_vars(FreeStep \/ free_frame \/ frame_pop)

-----------------------------------------------------------------------------
TypeOK ==
  /\ blocks \subseteq Block
  /\ next \in [Address -> Address \cup {NULL, Junk}]
  /\ allocated \in [Address \cup {Static} -> Address \cup {NULL, Junk}]
  /\ up \in [Address \cup {Static} -> Address \cup {Static, NULL, Junk}]
  /\ dynamic_env \in Address \cup {Static}
  /\ node \in Address \cup {NULL}
  /\ doing \in {"nothing", "free_frame", "frame_pop"}
  /\ stopped \in BOOLEAN

\* The frame records from the innermost outwards.
Envs ==
  LET from[e \in Address \cup {Static, NULL, Junk}] ==
        IF e \notin Address \cup {Static} THEN << >> ELSE <<e>> \o from[up[e]]
  IN  from[dynamic_env]

BlockAt(a) == CHOOSE b \in blocks : b.base = a

\* What the loop of pfstest_alloc_free_frame has still to free, or the list.
FirstOf(e) == IF doing # "nothing" /\ e = dynamic_env THEN node ELSE allocated[e]
ListOf(e)  == Nodes(FirstOf(e))

Records  == ToSet(Envs) \ {Static}
Owned(e) == ToSet(ListOf(e))

(***************************************************************************)
(* Every block is a frame record or the block of an object of one frame,   *)
(* and only one: nothing leaks, nothing is freed twice or read after it    *)
(* was freed, in the middle of freeing a frame too.  After the frames of a *)
(* run are popped and the first one is freed malloc has everything back    *)
(* (the assertion of src/main/avr-main.c).                                 *)
(***************************************************************************)
EveryBlockHasOneOwner ==
  /\ Last(Envs) = Static
  /\ \A e \in ToSet(Envs) : IsInjective(ListOf(e)) /\ Owned(e) \cap Records = {}
  /\ \A e, f \in ToSet(Envs) : e # f => Owned(e) \cap Owned(f) = {}
  /\ {b.base : b \in blocks} = (UNION {Owned(e) : e \in ToSet(Envs)}) \cup Records

(***************************************************************************)
(* Freeing a frame comes to an end.                                        *)
(***************************************************************************)
FreeingEnds == doing # "nothing" ~> doing = "nothing"

ObjectAt(n) == [base |-> n + header_size, size |-> BlockAt(n).size - header_size]

\* A frame has no objects from the moment it is to be freed.
ObjectsOf(e) == IF doing # "nothing" /\ e = dynamic_env THEN {}
                ELSE {ObjectAt(n) : n \in Owned(e)}

Frames == [i \in 1..Len(Envs) |-> ObjectsOf(Envs[Len(Envs) + 1 - i])]

Promise == INSTANCE PFAllocSpec WITH
  Object <- [base : Address, size : Request \ {0}],
  frames <- Frames

(***************************************************************************)
(* The allocator keeps the promise of PFAllocSpec.                         *)
(***************************************************************************)
ImplementsAlloc == Promise!Spec
=============================================================================
