---------------------------- MODULE PFAllocPic ------------------------------
(***************************************************************************)
(* src/alloc/pfstest-alloc-pic.c: the allocator of the PIC port, which     *)
(* hands out a static array in order.  The record of each frame lives in   *)
(* the array itself, in front of the frame's objects.                      *)
(***************************************************************************)
EXTENDS Naturals, Sequences

CONSTANTS
  AddressSpace,   \* number of addresses; a sum or difference wraps at it
  Heap, HeapSize, \* the arguments of pfstest_alloc_pic_init
  EnvSize,        \* sizeof(dynamic_env_t)
  Request,        \* sizes tests ask for
  NULL, Junk

heap_end == Heap + (HeapSize - 1)

Address == 0..(AddressSpace - 1)

EnvRecord == [next : Address \cup {NULL}, next_free_byte : Address]

ASSUME PicAssumption ==
  /\ {AddressSpace, HeapSize, EnvSize} \subseteq Nat \ {0}
  /\ Heap \in Nat \ {0}
  /\ EnvSize <= HeapSize
  /\ heap_end + 1 < AddressSpace
  /\ Request \subseteq Address
  /\ NULL \notin Address
  /\ Junk \notin EnvRecord

VARIABLES
  dynamic_env,   \* address of the innermost frame's record
  env,           \* the records in memory: env[a] is Junk where there is none
  stopped,       \* an assertion failed
  objects,       \* history: the objects handed out from each frame
  wrapped        \* history: an object was handed out whose size wraps

vars == <<dynamic_env, env, stopped, objects, wrapped>>

Object  == [base : Address, size : Request \ {0}]
Bytes(o) == o.base..(o.base + o.size - 1)

\* Variant: one byte past the heap fits.
FitsBeyond(o, size) == o <= (heap_end + 2 + AddressSpace - size) % AddressSpace

\* The address that Fits compares with lies before address 0 and wraps around.
Wraps(size) == size > heap_end + 1

\* assert_object_fits_in_heap, in the address arithmetic of the machine
Fits(o, size) == o <= (heap_end + 1 + AddressSpace - size) % AddressSpace

get_frame_start(e) == e + EnvSize

\* memset(from, 0xaa, size) over the records in the heap
Corrupted(from, size) ==
  [a \in Address |->
     IF (a..(a + EnvSize - 1)) \cap (from..(from + size - 1)) # {} THEN Junk ELSE env[a]]

new_env(a, up) == [next |-> up, next_free_byte |-> get_frame_start(a)]

\* pfstest_alloc_pic_init, called first of all
Init ==
  /\ dynamic_env = Heap
  /\ env = [a \in Address |-> IF a = Heap THEN new_env(Heap, NULL) ELSE Junk]
  /\ stopped = FALSE
  /\ objects = << {} >>
  /\ wrapped = FALSE

\* An object that wraps reaches behind the heap and around the memory: what
\* its user writes may be anywhere, and nothing is followed after it.
Runs == ~stopped /\ ~wrapped

next_free_byte == env[dynamic_env].next_free_byte

Assert(ok) == stopped' = ~ok

\* Variant: the last byte is handed out again.
alloc_short(size) ==
  /\ Runs
  /\ Assert(Fits(next_free_byte, size))
  /\ IF stopped' \/ size = 0 THEN UNCHANGED <<env, objects, wrapped>>
     ELSE /\ env' = [env EXCEPT ![dynamic_env].next_free_byte =
                       (@ + (size - 1)) % AddressSpace]
          /\ objects' = [objects EXCEPT ![Len(objects)] =
               @ \cup {o \in Object : o.base = next_free_byte /\ o.size = size}]
          /\ wrapped' = Wraps(size)
  /\ UNCHANGED dynamic_env

alloc(size) ==
  /\ Runs
  /\ Assert(Fits(next_free_byte, size))
  /\ IF stopped' THEN UNCHANGED <<env, objects, wrapped>>
     ELSE /\ env' = [env EXCEPT ![dynamic_env].next_free_byte =
                       (@ + size) % AddressSpace]
          /\ objects' = [objects EXCEPT ![Len(objects)] =
               @ \cup {o \in Object : o.base = next_free_byte /\ o.size = size}]
          /\ wrapped' = Wraps(size)
  /\ UNCHANGED dynamic_env

free_frame ==
  LET start == get_frame_start(dynamic_env) IN
  /\ Runs
  /\ env' = [Corrupted(start, next_free_byte - start)
               EXCEPT ![dynamic_env].next_free_byte = start]
  /\ objects' = [objects EXCEPT ![Len(objects)] = {}]
  /\ UNCHANGED <<dynamic_env, stopped, wrapped>>

\* Variant: the record is an object of the outer frame.
frame_push_allocates ==
  /\ Runs
  /\ Assert(Fits(next_free_byte, EnvSize))
  /\ IF stopped' THEN UNCHANGED <<dynamic_env, env, objects>>
     ELSE /\ env' = [env EXCEPT ![next_free_byte] = new_env(next_free_byte, dynamic_env),
                               ![dynamic_env].next_free_byte = @ + EnvSize]
          /\ dynamic_env' = next_free_byte
          /\ objects' = Append(objects, {})
  /\ UNCHANGED wrapped

frame_push ==
  /\ Runs
  /\ Assert(Fits(next_free_byte, EnvSize))
  /\ IF stopped' THEN UNCHANGED <<dynamic_env, env, objects>>
     ELSE /\ env' = [env EXCEPT ![next_free_byte] = new_env(next_free_byte, dynamic_env)]
          /\ dynamic_env' = next_free_byte
          /\ objects' = Append(objects, {})
  /\ UNCHANGED wrapped

\* Variant: next is read after the record was overwritten.
frame_pop_late ==
  /\ Runs
  /\ Len(objects) > 1
  /\ env' = Corrupted(dynamic_env, next_free_byte - dynamic_env)
  /\ dynamic_env' = IF env'[dynamic_env] = Junk THEN Junk ELSE env[dynamic_env].next
  /\ objects' = SubSeq(objects, 1, Len(objects) - 1)
  /\ UNCHANGED <<stopped, wrapped>>

\* The core pops what it pushed: the first frame is never popped.
frame_pop ==
  /\ Runs
  /\ Len(objects) > 1
  /\ dynamic_env' = env[dynamic_env].next
  /\ env' = Corrupted(dynamic_env, next_free_byte - dynamic_env)
  /\ objects' = SubSeq(objects, 1, Len(objects) - 1)
  /\ UNCHANGED <<stopped, wrapped>>

Next ==
  \/ \E size \in Request : alloc(size)
  \/ free_frame \/ frame_push \/ frame_pop
  \/ ~Runs /\ UNCHANGED vars

Spec == Init /\ [][Next]_vars

-----------------------------------------------------------------------------
TypeOK ==
  /\ dynamic_env \in Address
  /\ env \in [Address -> EnvRecord \cup {Junk}]
  /\ {stopped, wrapped} \subseteq BOOLEAN
  /\ objects \in Seq(SUBSET Object)

\* The record the frame of record a goes back to
Outer(a) == IF a \notin Address \/ env[a] = Junk THEN Junk ELSE env[a].next

\* The records from the innermost frame outwards, one for each frame
Chain ==
  LET from[i \in DOMAIN objects] ==
        IF i = 1 THEN dynamic_env ELSE Outer(from[i - 1])
  IN  from

Records ==
  {[base |-> Chain[i], size |-> EnvSize] :
     i \in {j \in DOMAIN objects : Chain[j] \in Address}}

Live == UNION {objects[i] : i \in DOMAIN objects}

(***************************************************************************)
(* Nothing a test writes into its objects can reach the allocator: objects *)
(* and records lie in the heap, and share no byte with one another, as     *)
(* long as no request wraps around the address space.                      *)
(***************************************************************************)
NothingOverlaps ==
  ~wrapped =>
    /\ \A o \in Live \cup Records : Bytes(o) \subseteq Heap..heap_end
    /\ \A o, p \in Live \cup Records : o = p \/ Bytes(o) \cap Bytes(p) = {}

(***************************************************************************)
(* The records found by following next are those of the frames, none of    *)
(* them overwritten, and each outer frame resumes where the inner one      *)
(* began: a pop gives back exactly what its frame took.  Until then, too.  *)
(***************************************************************************)
FramesNest ==
  ~wrapped =>
    /\ \A i \in DOMAIN objects : Chain[i] \in Address /\ env[Chain[i]] # Junk
    /\ Outer(Chain[Len(objects)]) = NULL
    /\ \A i \in 1..(Len(objects) - 1) : env[Chain[i + 1]].next_free_byte = Chain[i]

(***************************************************************************)
(* The allocator keeps the promise of PFAllocSpec up to the request that   *)
(* wraps: every allocation before it gets bytes of its own, and every      *)
(* step touches the innermost frame only.                                  *)
(***************************************************************************)
Promise == INSTANCE PFAllocSpec WITH frames <- objects

KeepsPromise == wrapped' \/ [Promise!Next]_objects

ImplementsAlloc == Promise!Init /\ [][KeepsPromise]_vars
=============================================================================
