------------------------- MODULE PFAllocPicProofs ---------------------------
(***************************************************************************)
(* Proofs about PFAllocPic: the records and objects in the heap of the PIC *)
(* port share no byte, popping gives back what pushing took, and the       *)
(* allocator implements PFAllocSpec, for every heap and every sequence of  *)
(* requests until one wraps around the address space.                      *)
(***************************************************************************)
EXTENDS PFAllocPic, PFInduction

(***************************************************************************)
(* How the frames lie in the heap, the record of frame i at b[i]: a stack  *)
(* that grows upwards, each frame with its objects right behind its record,*)
(* linked by next in the other direction.                                  *)
(***************************************************************************)
top(a) == env[a].next_free_byte

Apart(o, p) == o.base + o.size <= p.base \/ p.base + p.size <= o.base

RecordsLinked(b) ==
  /\ b \in [1..Len(objects) -> Address]
  /\ b[1] = Heap
  /\ b[Len(objects)] = dynamic_env
  /\ \A i \in 1..Len(objects) : env[b[i]] \in EnvRecord
  /\ env[Heap].next = NULL
  /\ \A i \in 2..Len(objects) : env[b[i]].next = b[i - 1] /\ top(b[i - 1]) = b[i]

RecordsInOrder(b) ==
  /\ \A i \in 1..Len(objects) :
       Heap <= b[i] /\ get_frame_start(b[i]) <= top(b[i]) /\ top(b[i]) <= heap_end + 1
  /\ \A i, j \in 1..Len(objects) : i < j => top(b[i]) <= b[j]

ObjectsInFrames(b) ==
  \A i \in 1..Len(objects) : \A o \in objects[i] :
    /\ get_frame_start(b[i]) <= o.base
    /\ o.base + o.size <= top(b[i])
    /\ \A p \in objects[i] : o = p \/ Apart(o, p)

Layout(b) == RecordsLinked(b) /\ RecordsInOrder(b) /\ ObjectsInFrames(b)

PicInv == TypeOK /\ Len(objects) >= 1 /\ (wrapped \/ \E b : Layout(b))

-----------------------------------------------------------------------------
\* Sizes and addresses are natural numbers, and the heap ends in the memory.
LEMMA PicNumbers ==
  /\ AddressSpace \in Nat /\ EnvSize \in Nat \ {0} /\ Heap \in Nat \ {0}
  /\ HeapSize \in Nat \ {0} /\ EnvSize <= HeapSize
  /\ heap_end = Heap + HeapSize - 1 /\ heap_end \in Nat
  /\ heap_end + 1 < AddressSpace
  /\ Request \subseteq Nat
  /\ \A s \in Request : s < AddressSpace
BY PicAssumption DEF heap_end, Address

\* What assert_object_fits_in_heap compares, when nothing wraps.
LEMMA FitsMeans ==
  ASSUME NEW o \in Address, NEW size \in Nat, size <= heap_end + 1
  PROVE  Fits(o, size) <=> o + size <= heap_end + 1
<1> DEFINE x == heap_end + 1 - size
<1>1. x \in Nat /\ x < AddressSpace /\ AddressSpace \in Nat /\ o \in Nat /\ heap_end \in Nat
  BY PicNumbers DEF Address
<1>2. heap_end + 1 + AddressSpace - size = x + AddressSpace
  BY <1>1
<1>3. (x + AddressSpace) % AddressSpace = x
  <2> HIDE DEF x
  <2> QED
    BY <1>1
<1>4. Fits(o, size) <=> o <= x
  BY <1>2, <1>3, Zenon DEF Fits
<1> QED
  BY <1>1, <1>4

\* The bytes of objects that are apart, and of objects that are not empty.
LEMMA ApartBytes ==
  ASSUME NEW o, NEW p, o.base \in Nat, o.size \in Nat, p.base \in Nat, p.size \in Nat
  PROVE  Apart(o, p) => Bytes(o) \cap Bytes(p) = {}
<1>1. DEFINE ob == o.base  os == o.size  pb == p.base  ps == p.size
<1>2. ob \in Nat /\ os \in Nat /\ pb \in Nat /\ ps \in Nat
  OBVIOUS
<1>3. (ob + os <= pb \/ pb + ps <= ob)
        => (ob..(ob + os - 1)) \cap (pb..(pb + ps - 1)) = {}
  <2> HIDE DEF ob, os, pb, ps
  <2> QED
    BY <1>2
<1> QED
  BY <1>3, Zenon DEF Apart, Bytes

\* Clearing bytes leaves the records below them alone, and the values records.
LEMMA CorruptedBelow ==
  ASSUME NEW from \in Nat, NEW size \in Nat, env \in [Address -> EnvRecord \cup {Junk}]
  PROVE  /\ Corrupted(from, size) \in [Address -> EnvRecord \cup {Junk}]
         /\ \A a \in Address : a + EnvSize <= from => Corrupted(from, size)[a] = env[a]
<1>1. EnvSize \in Nat
  BY PicNumbers
<1>2. ASSUME NEW a \in Address, a + EnvSize <= from
      PROVE  (a..(a + EnvSize - 1)) \cap (from..(from + size - 1)) = {}
  BY <1>1, <1>2 DEF Address
<1> QED
  BY <1>2, Zenon DEF Corrupted

\* Objects have numbers for addresses and are not empty.
LEMMA ObjectNumbers ==
  \A o \in Object : o.base \in Nat /\ o.size \in Nat \ {0}
<1>1. Address \subseteq Nat /\ Request \ {0} \subseteq Nat \ {0}
  BY PicNumbers DEF Address
<1> QED
  BY <1>1 DEF Object

\* The frames and their numbers.
LEMMA ObjectsSeq ==
  ASSUME TypeOK, Len(objects) >= 1
  PROVE  /\ Len(objects) \in Nat \ {0}
         /\ objects \in [1..Len(objects) -> SUBSET Object]
         /\ DOMAIN objects = 1..Len(objects)
BY DEF TypeOK

\* The consequences of the layout that the steps use.
LEMMA LayoutFacts ==
  ASSUME TypeOK, Len(objects) >= 1, NEW b, Layout(b)
  PROVE  /\ \A i \in 1..Len(objects) : b[i] \in Nat /\ b[i] \in Address /\ top(b[i]) \in Nat
         /\ \A i \in 1..Len(objects) : env[b[i]] \in EnvRecord /\ env[b[i]] # Junk
         /\ \A i \in 1..(Len(objects) - 1) : b[i] + EnvSize <= dynamic_env /\ b[i] # dynamic_env
         /\ \A i \in 1..(Len(objects) - 1) : top(b[i]) <= dynamic_env
         /\ dynamic_env \in Address /\ env[dynamic_env] \in EnvRecord
         /\ next_free_byte = top(dynamic_env) /\ next_free_byte \in Nat
         /\ dynamic_env \in Nat /\ dynamic_env + EnvSize <= next_free_byte
         /\ next_free_byte <= heap_end + 1 /\ next_free_byte \in Address
<1> DEFINE n == Len(objects)
<1>1. n \in Nat \ {0}
  BY ObjectsSeq
<1>2. \A i \in 1..n : b[i] \in Nat /\ b[i] \in Address /\ top(b[i]) \in Nat /\ top(b[i]) \in Address
  <2>1. \A i \in 1..n : b[i] \in Address /\ env[b[i]] \in EnvRecord
    BY DEF Layout, RecordsLinked
  <2>2. \A r \in EnvRecord : r.next_free_byte \in Address
    BY DEF EnvRecord
  <2>3. Address \subseteq Nat
    BY PicNumbers DEF Address
  <2> QED
    BY <2>1, <2>2, <2>3 DEF top
<1>3. \A i \in 1..n : env[b[i]] \in EnvRecord /\ env[b[i]] # Junk
  BY PicAssumption DEF Layout, RecordsLinked
<1>4. b[n] = dynamic_env /\ next_free_byte = top(b[n])
  BY DEF Layout, RecordsLinked, next_free_byte, top
<1>5. \A i \in 1..n : b[i] + EnvSize <= top(b[i]) /\ top(b[i]) <= heap_end + 1
  BY <1>2 DEF Layout, RecordsInOrder, get_frame_start
<1>6. \A i \in 1..n : i < n => top(b[i]) <= b[n]
  <2> HIDE DEF n
  <2> QED
    BY <1>1 DEF Layout, RecordsInOrder, n
<1>7. \A i \in 1..(n - 1) : b[i] + EnvSize <= b[n] /\ top(b[i]) <= b[n] /\ b[i] # b[n]
  <2> HIDE DEF n
  <2> QED
    BY <1>1, <1>2, <1>5, <1>6, PicNumbers
<1> HIDE DEF n
<1>8. n \in 1..n
  BY <1>1
<1> QED
  BY <1>2, <1>3, <1>4, <1>5, <1>7, <1>8 DEF n

-----------------------------------------------------------------------------
\* Nothing is allocated: the heap is one frame, empty but for its record.
LEMMA InitPicInv == Init => PicInv
<1> SUFFICES ASSUME Init PROVE PicInv
  OBVIOUS
<1> USE PicNumbers
<1>1. objects = << {} >> /\ Len(objects) = 1
  BY DEF Init
<1>2. Heap \in Address /\ Heap + EnvSize \in Address /\ NULL \in Address \cup {NULL}
  BY DEF Address
<1>3. new_env(Heap, NULL) \in EnvRecord
  BY <1>2 DEF new_env, EnvRecord, get_frame_start
<1>4. TypeOK
  <2>1. env \in [Address -> EnvRecord \cup {Junk}]
    BY <1>3, Zenon DEF Init
  <2>2. << {} >> \in Seq(SUBSET Object)
    OBVIOUS
  <2> QED
    BY <1>1, <1>2, <2>1, <2>2, Zenon DEF TypeOK, Init
<1> DEFINE b == [i \in 1..1 |-> Heap]
<1>5. env[Heap] = new_env(Heap, NULL)
  BY <1>2 DEF Init
<1>6. RecordsLinked(b)
  BY <1>1, <1>2, <1>3, <1>5 DEF RecordsLinked, Init, new_env
<1>7. RecordsInOrder(b)
  BY <1>1, <1>2, <1>3, <1>5 DEF RecordsInOrder, top, new_env, get_frame_start
<1>8. ObjectsInFrames(b)
  BY <1>1 DEF ObjectsInFrames
<1> QED
  BY <1>1, <1>4, <1>6, <1>7, <1>8 DEF PicInv, Layout

\* A step that only changes the end of the innermost frame keeps the links.
LEMMA TopMoves ==
  ASSUME TypeOK, Len(objects) >= 1, NEW b, Layout(b),
         Len(objects') = Len(objects), dynamic_env' = dynamic_env,
         env' \in [Address -> EnvRecord \cup {Junk}],
         \A i \in 1..(Len(objects) - 1) : env'[b[i]] = env[b[i]],
         NEW t \in Address, t <= heap_end + 1, dynamic_env + EnvSize <= t,
         env'[dynamic_env] = [next |-> env[dynamic_env].next, next_free_byte |-> t]
  PROVE  RecordsLinked(b)' /\ RecordsInOrder(b)'
<1> DEFINE n == Len(objects)
<1>1. n \in Nat \ {0} /\ n' = n
  BY ObjectsSeq
<1>2. \A i \in 1..n : i = n \/ i \in 1..(n - 1)
  BY <1>1
<1>3. b \in [1..n -> Address] /\ b[n] = dynamic_env /\ b[1] = Heap
  BY DEF Layout, RecordsLinked
<1>4. \A i \in 1..(n - 1) : env'[b[i]] = env[b[i]] /\ b[i] # dynamic_env
  BY LayoutFacts
<1>5. env'[dynamic_env] \in EnvRecord /\ env'[dynamic_env].next = env[dynamic_env].next
      /\ env'[dynamic_env].next_free_byte = t
  BY LayoutFacts DEF EnvRecord
<1>6. \A i \in 1..n : env'[b[i]] \in EnvRecord /\ env'[b[i]].next = env[b[i]].next
  <2> HIDE DEF n
  <2> QED
    BY <1>2, <1>3, <1>4, <1>5, LayoutFacts DEF n
<1>7. \A i \in 1..(n - 1) : env'[b[i]].next_free_byte = top(b[i])
  BY <1>4 DEF top
<1>8. RecordsLinked(b)'
  <2>1. env'[Heap].next = NULL
    BY <1>1, <1>3, <1>6 DEF Layout, RecordsLinked
  <2>2. \A i \in 2..n : env'[b[i]].next = b[i - 1] /\ env'[b[i - 1]].next_free_byte = b[i]
    <3> HIDE DEF n
    <3>1. \A i \in 2..n : i \in 1..n /\ i - 1 \in 1..(n - 1)
      BY <1>1
    <3> QED
      BY <3>1, <1>6, <1>7 DEF Layout, RecordsLinked, n
  <2> QED
    BY <1>1, <1>3, <1>6, <2>1, <2>2 DEF RecordsLinked, top
<1>9. RecordsInOrder(b)'
  <2>1. ASSUME NEW i \in 1..n
        PROVE  /\ Heap <= b[i] /\ b[i] + EnvSize <= env'[b[i]].next_free_byte
               /\ env'[b[i]].next_free_byte <= heap_end + 1
    <3>1. Heap <= b[i] /\ b[i] + EnvSize <= top(b[i]) /\ top(b[i]) <= heap_end + 1
      BY DEF Layout, RecordsInOrder, get_frame_start
    <3> HIDE DEF n
    <3> QED
      BY <3>1, <1>2, <1>3, <1>5, <1>7
  <2>2. ASSUME NEW i \in 1..n, NEW j \in 1..n, i < j
        PROVE  env'[b[i]].next_free_byte <= b[j]
    <3>1. top(b[i]) <= b[j]
      BY <2>2 DEF Layout, RecordsInOrder
    <3> HIDE DEF n
    <3>2. i \in 1..(n - 1)
      BY <1>1, <2>2
    <3> QED
      BY <3>1, <3>2, <1>7
  <2> QED
    BY <1>1, <2>1, <2>2 DEF RecordsInOrder, top, get_frame_start, heap_end
<1> QED
  BY <1>8, <1>9

-----------------------------------------------------------------------------
\* An assertion that fails changes nothing else.
LEMMA StopPicInv ==
  ASSUME PicInv, UNCHANGED <<dynamic_env, env, objects, wrapped>>, stopped' \in BOOLEAN
  PROVE  PicInv'
<1>1. TypeOK' /\ Len(objects') >= 1
  BY DEF PicInv, TypeOK
<1>2. CASE wrapped
  BY <1>1, <1>2 DEF PicInv
<1>3. CASE ~wrapped
  <2>1. PICK b : Layout(b)
    BY <1>3 DEF PicInv
  <2>2. RecordsLinked(b)'
    BY <2>1 DEF Layout, RecordsLinked, top
  <2>3. RecordsInOrder(b)'
    BY <2>1 DEF Layout, RecordsInOrder, top
  <2>4. ObjectsInFrames(b)'
    <3>1. ObjectsInFrames(b)
      BY <2>1 DEF Layout
    <3> QED
      BY <3>1, Zenon DEF ObjectsInFrames, top
  <2> QED
    BY <1>1, <2>2, <2>3, <2>4, Zenon DEF PicInv, Layout
<1> QED
  BY <1>2, <1>3

\* An address wraps where a sum does.
LEMMA AddressSum ==
  ASSUME NEW a \in Address, NEW size \in Nat
  PROVE  (a + size) % AddressSpace \in Address
<1>1. AddressSpace \in Nat \ {0} /\ a + size \in Nat
  BY PicAssumption DEF Address
<1> QED
  BY <1>1 DEF Address

\* pfstest_alloc
LEMMA AllocPicInv ==
  ASSUME PicInv, NEW size \in Request, alloc(size)
  PROVE  PicInv'
<1> DEFINE n == Len(objects)
<1>1. PICK b : Layout(b)
  BY DEF PicInv, alloc, Runs
<1>2. TypeOK /\ Len(objects) >= 1
  BY DEF PicInv
<1>3. CASE stopped'
  BY <1>3, StopPicInv DEF alloc, Assert
<1>4. CASE ~stopped'
  <2> DEFINE t == (next_free_byte + size) % AddressSpace
             new == {o \in Object : o.base = next_free_byte /\ o.size = size}
  <2>1. size \in Nat /\ next_free_byte \in Nat /\ next_free_byte \in Address
    BY <1>1, <1>2, LayoutFacts, PicNumbers
  <2>2. Fits(next_free_byte, size)
    BY <1>4 DEF alloc, Assert
  <2>3. t \in Address
    BY <2>1, AddressSum
  <2>w. ASSUME ~wrapped'
        PROVE  t = next_free_byte + size /\ t <= heap_end + 1 /\ dynamic_env + EnvSize <= t
    <3>1. size <= heap_end + 1
      <4>1. ~Wraps(size)
        BY <1>4, <2>w DEF alloc
      <4> QED
        BY <2>1, <4>1, PicNumbers DEF Wraps
    <3>2. next_free_byte + size <= heap_end + 1
      BY <2>1, <2>2, <3>1, FitsMeans
    <3>3. t = next_free_byte + size
      BY <2>1, <3>2, PicNumbers
    <3>4. dynamic_env \in Nat /\ dynamic_env + EnvSize <= next_free_byte
      BY <1>1, <1>2, LayoutFacts
    <3> HIDE DEF t
    <3> QED
      BY <2>1, <3>2, <3>3, <3>4, PicNumbers
  <2>4. env' = [env EXCEPT ![dynamic_env].next_free_byte = t]
    BY <1>4 DEF alloc, next_free_byte
  <2>5. objects' = [objects EXCEPT ![n] = @ \cup new] /\ dynamic_env' = dynamic_env
        /\ stopped' \in BOOLEAN /\ wrapped' \in BOOLEAN
    BY <1>4 DEF alloc, Assert, Wraps
  <2> HIDE DEF new
  <2>6. n \in Nat \ {0} /\ objects \in [1..n -> SUBSET Object] /\ DOMAIN objects = 1..n
    BY <1>2, ObjectsSeq
  <2>7. new \subseteq Object
    BY DEF new
  <2>8. objects' \in Seq(SUBSET Object) /\ Len(objects') = n
        /\ objects' \in [1..n -> SUBSET Object]
    BY <1>2, <2>5, <2>6, <2>7 DEF TypeOK
  <2>9. env'[dynamic_env] = [next |-> env[dynamic_env].next, next_free_byte |-> t]
        /\ env' \in [Address -> EnvRecord \cup {Junk}]
        /\ \A a \in Address : a # dynamic_env => env'[a] = env[a]
    <3>1. env[dynamic_env] \in EnvRecord /\ dynamic_env \in Address
      BY <1>1, <1>2, LayoutFacts
    <3>2. \A r \in EnvRecord :
            [r EXCEPT !.next_free_byte = t] = [next |-> r.next, next_free_byte |-> t]
      BY DEF EnvRecord
    <3>3. [next |-> env[dynamic_env].next, next_free_byte |-> t] \in EnvRecord
      BY <2>3, <3>1 DEF EnvRecord
    <3>4. env \in [Address -> EnvRecord \cup {Junk}]
      BY <1>2 DEF TypeOK
    <3> HIDE DEF t
    <3> QED
      BY <2>4, <3>1, <3>2, <3>3, <3>4
  <2>10. \A i \in 1..(n - 1) : env'[b[i]] = env[b[i]]
    BY <1>1, <1>2, <2>9, LayoutFacts, <2>6
  <2>11. ASSUME ~wrapped' PROVE RecordsLinked(b)' /\ RecordsInOrder(b)'
    <3>1. t <= heap_end + 1 /\ dynamic_env + EnvSize <= t
      BY <2>w, <2>11
    <3> HIDE DEF t
    <3> QED
      BY <1>1, <1>2, <2>3, <2>5, <2>8, <2>9, <2>10, <3>1, TopMoves
  <2>12. ASSUME ~wrapped' PROVE ObjectsInFrames(b)'
    <3>t. t = next_free_byte + size
      BY <2>w, <2>12
    <3>1. ASSUME NEW i \in 1..(n - 1)
          PROVE  objects'[i] = objects[i] /\ env'[b[i]].next_free_byte = top(b[i])
      <4>1. n \in Nat
        BY <2>6
      <4> HIDE DEF n
      <4>2. i \in 1..n /\ i # n
        BY <4>1
      <4> QED
        BY <4>2, <2>5, <2>6, <2>10 DEF top
    <3>2. b[n] = dynamic_env /\ objects'[n] = objects[n] \cup new
          /\ env'[b[n]].next_free_byte = t
      BY <1>1, <2>5, <2>6, <2>9 DEF Layout, RecordsLinked
    <3>3. ASSUME NEW o \in objects[n]
          PROVE  o.base \in Nat /\ o.size \in Nat /\ b[n] + EnvSize <= o.base
                 /\ o.base + o.size <= next_free_byte
                 /\ \A p \in objects[n] : o = p \/ Apart(o, p)
      <4>1. o \in Object /\ n \in 1..n
        BY <2>6
      <4>2. next_free_byte = top(b[n])
        BY <1>1, <1>2, <3>2, LayoutFacts
      <4>3. o.base \in Nat /\ o.size \in Nat
        BY <4>1, ObjectNumbers
      <4> QED
        BY <1>1, <4>1, <4>2, <4>3 DEF Layout, ObjectsInFrames, get_frame_start
    <3>4. ASSUME NEW o \in new PROVE o.base = next_free_byte /\ o.size = size
      BY DEF new
    <3>5. b[n] + EnvSize <= next_free_byte /\ b[n] \in Nat
      BY <1>1, <1>2, <3>2, LayoutFacts
    <3>6. \A o, p \in new : o = p
      BY DEF new, Object
    <3>7. ASSUME NEW o \in objects'[n]
          PROVE  b[n] + EnvSize <= o.base /\ o.base + o.size <= t
                 /\ \A p \in objects'[n] : o = p \/ Apart(o, p)
      <4> HIDE DEF t
      <4>1. CASE o \in objects[n]
        <5>1. \A p \in new : Apart(o, p)
          BY <3>3, <3>4, <4>1 DEF Apart
        <5> QED
          BY <2>1, <3>t, <3>2, <3>3, <4>1, <5>1
      <4>2. CASE o \in new
        <5>1. \A p \in objects[n] : Apart(o, p)
          BY <3>3, <3>4, <4>2 DEF Apart
        <5> QED
          BY <2>1, <3>t, <3>2, <3>4, <3>5, <3>6, <4>2, <5>1
      <4> QED
        BY <3>2, <3>7, <4>1, <4>2
    <3>8. \A i \in 1..n : i = n \/ i \in 1..(n - 1)
      <4>1. n \in Nat
        BY <2>6
      <4> HIDE DEF n
      <4> QED
        BY <4>1
    <3>9. ASSUME NEW i \in 1..n, NEW o \in objects'[i]
          PROVE  b[i] + EnvSize <= o.base /\ o.base + o.size <= env'[b[i]].next_free_byte
                 /\ \A p \in objects'[i] : o = p \/ Apart(o, p)
      <4>1. CASE i = n
        BY <3>2, <3>7, <4>1
      <4>2. CASE i \in 1..(n - 1)
        BY <1>1, <3>1, <4>2 DEF Layout, ObjectsInFrames, get_frame_start
      <4> QED
        BY <3>8, <4>1, <4>2
    <3> QED
      BY <2>8, <3>9, Zenon DEF ObjectsInFrames, top, get_frame_start, Apart
  <2>13. TypeOK' /\ Len(objects') >= 1
    BY <1>2, <2>5, <2>6, <2>8, <2>9 DEF TypeOK
  <2> QED
    BY <2>11, <2>12, <2>13, Zenon DEF PicInv, Layout
<1> QED
  BY <1>3, <1>4

\* pfstest_alloc_free_frame
LEMMA FreePicInv ==
  ASSUME PicInv, free_frame
  PROVE  PicInv'
<1> DEFINE n == Len(objects)
           start == dynamic_env + EnvSize
           corrupted == Corrupted(start, next_free_byte - start)
<1>1. PICK b : Layout(b)
  BY DEF PicInv, free_frame, Runs
<1>2. TypeOK /\ Len(objects) >= 1
  BY DEF PicInv
<1>3. n \in Nat \ {0} /\ objects \in [1..n -> SUBSET Object] /\ DOMAIN objects = 1..n
  BY <1>2, ObjectsSeq
<1>4. n \in Nat /\ n \in 1..n
  BY <1>3
<1>5. start \in Nat /\ next_free_byte - start \in Nat /\ start <= next_free_byte
      /\ start \in Address /\ start <= heap_end + 1
  BY <1>1, <1>2, LayoutFacts, PicNumbers DEF Address
<1>6. env' = [corrupted EXCEPT ![dynamic_env].next_free_byte = start]
      /\ objects' = [objects EXCEPT ![n] = {}] /\ dynamic_env' = dynamic_env
      /\ stopped' = stopped /\ wrapped' = wrapped
  BY DEF free_frame, get_frame_start
<1>7. corrupted \in [Address -> EnvRecord \cup {Junk}]
      /\ \A a \in Address : a + EnvSize <= start => corrupted[a] = env[a]
  BY <1>2, <1>5, CorruptedBelow DEF TypeOK
<1> HIDE DEF n, start, corrupted
<1>8. objects' \in Seq(SUBSET Object) /\ Len(objects') = n
      /\ objects' \in [1..n -> SUBSET Object]
  BY <1>2, <1>3, <1>6 DEF TypeOK, n
<1>9. corrupted[dynamic_env] = env[dynamic_env] /\ dynamic_env \in Address
      /\ env[dynamic_env] \in EnvRecord
  BY <1>1, <1>2, <1>5, <1>7, LayoutFacts DEF start
<1>10. /\ env'[dynamic_env] = [next |-> env[dynamic_env].next, next_free_byte |-> start]
       /\ env' \in [Address -> EnvRecord \cup {Junk}]
       /\ \A a \in Address : a # dynamic_env => env'[a] = corrupted[a]
  <2>1. \A r \in EnvRecord :
          [r EXCEPT !.next_free_byte = start] = [next |-> r.next, next_free_byte |-> start]
    BY DEF EnvRecord
  <2>2. [next |-> env[dynamic_env].next, next_free_byte |-> start] \in EnvRecord
    BY <1>5, <1>9 DEF EnvRecord
  <2> QED
    BY <1>6, <1>7, <1>9, <2>1, <2>2
<1>11. \A i \in 1..(n - 1) : env'[b[i]] = env[b[i]]
  <2>1. ASSUME NEW i \in 1..(n - 1) PROVE env'[b[i]] = env[b[i]]
    <3>1. i \in 1..n
      BY <1>4
    <3>2. b[i] \in Nat /\ b[i] \in Address /\ b[i] + EnvSize <= dynamic_env
          /\ b[i] # dynamic_env /\ dynamic_env \in Nat
      BY <1>1, <1>2, <3>1, LayoutFacts DEF n
    <3>3. b[i] + EnvSize <= start
      BY <3>2, PicNumbers DEF start
    <3> QED
      BY <3>2, <3>3, <1>7, <1>10
  <2> QED
    BY <2>1
<1>12. RecordsLinked(b)' /\ RecordsInOrder(b)'
  <2>1. dynamic_env + EnvSize <= start
    BY <1>5 DEF start
  <2> QED
    BY <1>1, <1>2, <1>5, <1>6, <1>8, <1>10, <1>11, <2>1, TopMoves DEF n
<1>13. ObjectsInFrames(b)'
  <2>1. ASSUME NEW i \in 1..n, NEW o \in objects'[i]
        PROVE  b[i] + EnvSize <= o.base /\ o.base + o.size <= env'[b[i]].next_free_byte
               /\ \A p \in objects'[i] : o = p \/ Apart(o, p)
    <3>1. i # n
      BY <1>3, <1>6, <2>1
    <3>2. i \in 1..(n - 1) /\ objects'[i] = objects[i]
      BY <1>3, <1>4, <1>6, <3>1
    <3> QED
      BY <1>1, <1>11, <2>1, <3>2 DEF Layout, ObjectsInFrames, get_frame_start, top, n
  <2> QED
    BY <1>8, <2>1, Zenon DEF ObjectsInFrames, top, get_frame_start, Apart
<1>14. TypeOK' /\ Len(objects') >= 1
  BY <1>2, <1>4, <1>6, <1>8, <1>10 DEF TypeOK
<1> QED
  BY <1>12, <1>13, <1>14, Zenon DEF PicInv, Layout

\* pfstest_alloc_frame_push
LEMMA PushPicInv ==
  ASSUME PicInv, frame_push
  PROVE  PicInv'
<1> DEFINE n == Len(objects)
           a == next_free_byte
<1>1. PICK b : Layout(b)
  BY DEF PicInv, frame_push, Runs
<1>2. TypeOK /\ Len(objects) >= 1
  BY DEF PicInv
<1>3. CASE stopped'
  BY <1>3, StopPicInv DEF frame_push, Assert
<1>4. CASE ~stopped'
  <2>1. n \in Nat \ {0} /\ objects \in [1..n -> SUBSET Object] /\ DOMAIN objects = 1..n
    BY <1>2, ObjectsSeq
  <2>2. n \in Nat /\ n \in 1..n /\ n >= 1
    BY <2>1
  <2>3. a \in Nat /\ a \in Address /\ a + EnvSize <= heap_end + 1 /\ dynamic_env \in Nat
        /\ dynamic_env \in Address /\ dynamic_env + EnvSize <= a
        /\ a + EnvSize \in Address /\ Heap <= a
    <3>1. Fits(a, EnvSize)
      BY <1>4 DEF frame_push, Assert
    <3>2. Heap <= dynamic_env
      BY <1>1, <2>2 DEF Layout, RecordsInOrder, RecordsLinked
    <3> QED
      BY <1>1, <1>2, <3>1, <3>2, LayoutFacts, FitsMeans, PicNumbers DEF Address
  <2>4. env' = [env EXCEPT ![a] = new_env(a, dynamic_env)]
        /\ dynamic_env' = a /\ objects' = Append(objects, {}) /\ stopped' \in BOOLEAN
        /\ wrapped' = wrapped
    BY <1>4 DEF frame_push, Assert
  <2>5. \A i \in 1..n : /\ b[i] \in Address /\ b[i] \in Nat /\ b[i] + EnvSize <= a
                        /\ top(b[i]) <= a /\ top(b[i]) \in Nat /\ b[i] # a
    <3>1. ASSUME NEW i \in 1..n
          PROVE  /\ b[i] \in Address /\ b[i] \in Nat /\ b[i] + EnvSize <= a
                 /\ top(b[i]) <= a /\ top(b[i]) \in Nat
      <4>1. b[i] \in Address /\ b[i] \in Nat /\ top(b[i]) \in Nat
        BY <1>1, <1>2, LayoutFacts
      <4>2. CASE i = n
        BY <1>1, <1>2, <4>1, <4>2, <2>3, LayoutFacts DEF Layout, RecordsLinked
      <4>3. CASE i # n
        <5> HIDE DEF n, a
        <5>1. i \in 1..(n - 1)
          BY <2>2, <4>3
        <5>2. b[i] + EnvSize <= dynamic_env /\ top(b[i]) <= dynamic_env
          BY <1>1, <1>2, <5>1, LayoutFacts DEF n
        <5> QED
          BY <4>1, <5>2, <2>3, PicNumbers
      <4> QED
        BY <4>2, <4>3
    <3> HIDE DEF n, a
    <3>2. ASSUME NEW i \in 1..n PROVE b[i] # a
      <4>1. b[i] \in Nat /\ b[i] + EnvSize <= a
        BY <3>1
      <4> QED
        BY <2>3, <4>1, PicNumbers
    <3> QED
      BY <3>1, <3>2
  <2> HIDE DEF n, a
  <2>6. objects' \in Seq(SUBSET Object) /\ Len(objects') = n + 1 /\ n + 1 \in Nat
        /\ objects'[n + 1] = {}
        /\ \A i \in 1..n : objects'[i] = objects[i]
    BY <1>2, <2>1, <2>2, <2>4 DEF TypeOK, n
  <2>7. new_env(a, dynamic_env) = [next |-> dynamic_env, next_free_byte |-> a + EnvSize]
        /\ new_env(a, dynamic_env) \in EnvRecord
    BY <2>3 DEF new_env, get_frame_start, EnvRecord
  <2>8. env' \in [Address -> EnvRecord \cup {Junk}]
        /\ env'[a] = [next |-> dynamic_env, next_free_byte |-> a + EnvSize]
        /\ env'[a] \in EnvRecord
        /\ \A x \in Address : x # a => env'[x] = env[x]
    <3>1. env \in [Address -> EnvRecord \cup {Junk}]
      BY <1>2 DEF TypeOK
    <3> QED
      BY <2>3, <2>4, <2>7, <3>1
  <2>9. \A i \in 1..n : env'[b[i]] = env[b[i]]
    BY <2>5, <2>8
  <2> DEFINE grown == [i \in 1..(n + 1) |-> IF i = n + 1 THEN a ELSE b[i]]
  <2>c. PICK c : c = grown
    OBVIOUS
  <2>10. /\ \A i \in 1..n : c[i] = b[i] /\ env'[c[i]] = env[b[i]]
         /\ c[n + 1] = a /\ \A i \in 1..(n + 1) : i \in 1..n \/ i = n + 1
         /\ c \in [1..(n + 1) -> Address]
    <3>1. \A i \in 1..(n + 1) : i \in 1..n \/ i = n + 1
      BY <2>2
    <3>2. \A i \in 1..n : c[i] = b[i]
      BY <2>2, <2>c
    <3>3. c[n + 1] = a /\ c \in [1..(n + 1) -> Address]
      BY <2>2, <2>3, <2>5, <2>c, <3>1
    <3> HIDE DEF grown
    <3> QED
      BY <2>9, <3>1, <3>2, <3>3
  <2> HIDE DEF grown
  <2>11. b[n] = dynamic_env /\ b[1] = Heap /\ 1 \in 1..n /\ n + 1 \in 1..(n + 1)
    BY <1>1, <2>2 DEF Layout, RecordsLinked, n
  <2>12. RecordsLinked(c)'
    <3>1. \A i \in 1..(n + 1) : env'[c[i]] \in EnvRecord
      BY <1>1, <2>8, <2>10 DEF Layout, RecordsLinked, n
    <3>2. env'[Heap].next = NULL
      BY <1>1, <2>9, <2>11 DEF Layout, RecordsLinked
    <3>3. ASSUME NEW i \in 2..(n + 1)
          PROVE  env'[c[i]].next = c[i - 1] /\ env'[c[i - 1]].next_free_byte = c[i]
      <4>1. CASE i = n + 1
        <5>1. i - 1 = n
          BY <2>2, <4>1
        <5>2. c[i] = a /\ c[i - 1] = dynamic_env /\ env'[dynamic_env] = env[dynamic_env]
          BY <2>2, <2>9, <2>10, <2>11, <4>1, <5>1
        <5>3. a = env[dynamic_env].next_free_byte
          BY DEF a, next_free_byte
        <5> QED
          BY <2>8, <5>2, <5>3
      <4>2. CASE i # n + 1
        <5>1. i \in 2..n /\ i \in 1..n /\ i - 1 \in 1..n
          BY <2>2, <4>2
        <5> QED
          BY <1>1, <2>10, <5>1 DEF Layout, RecordsLinked, top, n
      <4> QED
        BY <4>1, <4>2
    <3> QED
      BY <2>4, <2>6, <2>10, <2>11, <3>1, <3>2, <3>3 DEF RecordsLinked, top
  <2>13. RecordsInOrder(c)'
    <3>1. ASSUME NEW i \in 1..(n + 1)
          PROVE  /\ Heap <= c[i] /\ c[i] + EnvSize <= env'[c[i]].next_free_byte
                 /\ env'[c[i]].next_free_byte <= heap_end + 1
      <4>1. CASE i = n + 1
        BY <2>3, <2>8, <2>10, <4>1, PicNumbers
      <4>2. CASE i \in 1..n
        BY <1>1, <2>10, <4>2 DEF Layout, RecordsInOrder, top, get_frame_start, n
      <4> QED
        BY <2>10, <4>1, <4>2
    <3>2. ASSUME NEW i \in 1..(n + 1), NEW j \in 1..(n + 1), i < j
          PROVE  env'[c[i]].next_free_byte <= c[j]
      <4>1. i \in 1..n
        BY <2>2, <3>2
      <4>2. CASE j = n + 1
        BY <2>5, <2>10, <4>1, <4>2 DEF top
      <4>3. CASE j \in 1..n
        BY <1>1, <2>10, <3>2, <4>1, <4>3 DEF Layout, RecordsInOrder, top, n
      <4> QED
        BY <2>10, <4>2, <4>3
    <3> QED
      BY <2>6, <3>1, <3>2 DEF RecordsInOrder, top, get_frame_start, heap_end
  <2>14. ObjectsInFrames(c)'
    <3>1. ASSUME NEW i \in 1..(n + 1), NEW o \in objects'[i]
          PROVE  c[i] + EnvSize <= o.base /\ o.base + o.size <= env'[c[i]].next_free_byte
                 /\ \A p \in objects'[i] : o = p \/ Apart(o, p)
      <4>1. i \in 1..n /\ o \in objects[i] /\ objects'[i] = objects[i]
        BY <2>6, <2>10, <3>1
      <4> QED
        BY <1>1, <2>10, <4>1 DEF Layout, ObjectsInFrames, get_frame_start, top, n
    <3> QED
      BY <2>6, <3>1, Zenon DEF ObjectsInFrames, top, get_frame_start, Apart
  <2>15. TypeOK' /\ Len(objects') >= 1
    BY <1>2, <2>2, <2>3, <2>4, <2>6, <2>8 DEF TypeOK
  <2> QED
    BY <2>12, <2>13, <2>14, <2>15, Zenon DEF PicInv, Layout
<1> QED
  BY <1>3, <1>4

\* pfstest_alloc_frame_pop
LEMMA PopPicInv ==
  ASSUME PicInv, frame_pop
  PROVE  PicInv'
<1> DEFINE n == Len(objects)
           m == n - 1
<1>1. PICK b : Layout(b)
  BY DEF PicInv, frame_pop, Runs
<1>2. TypeOK /\ Len(objects) >= 1
  BY DEF PicInv
<1>3. n \in Nat \ {0} /\ objects \in [1..n -> SUBSET Object] /\ DOMAIN objects = 1..n
  BY <1>2, ObjectsSeq
<1>4. n \in Nat /\ m \in Nat /\ m >= 1 /\ n > 1
  BY <1>3 DEF frame_pop
<1>5. env' = Corrupted(dynamic_env, next_free_byte - dynamic_env)
      /\ dynamic_env' = env[dynamic_env].next
      /\ objects' = SubSeq(objects, 1, m) /\ stopped' = stopped /\ wrapped' = wrapped
  BY DEF frame_pop
<1>6. objects' \in Seq(SUBSET Object) /\ Len(objects') = m
      /\ \A i \in 1..m : objects'[i] = objects[i]
  BY <1>2, <1>3, <1>4, <1>5 DEF TypeOK
<1>7. dynamic_env \in Nat /\ next_free_byte - dynamic_env \in Nat
  BY <1>1, <1>2, LayoutFacts, PicNumbers
<1>8. env' \in [Address -> EnvRecord \cup {Junk}]
      /\ \A x \in Address : x + EnvSize <= dynamic_env => env'[x] = env[x]
  <2>1. env \in [Address -> EnvRecord \cup {Junk}]
    BY <1>2 DEF TypeOK
  <2> QED
    BY <1>5, <1>7, <2>1, CorruptedBelow
<1>9. \A i \in 1..m : b[i] \in Address /\ env'[b[i]] = env[b[i]]
  <2>1. ASSUME NEW i \in 1..m PROVE b[i] \in Address /\ b[i] + EnvSize <= dynamic_env
    <3>1. b[i] + EnvSize <= dynamic_env
      BY <1>1, <1>2, LayoutFacts
    <3> HIDE DEF n
    <3>2. i \in 1..n
      BY <1>4
    <3> QED
      BY <1>1, <1>2, <3>1, <3>2, LayoutFacts DEF n
  <2> QED
    BY <1>8, <2>1
<1> HIDE DEF n
<1>10. m \in 1..n /\ n \in 2..n /\ \A i \in 1..m : i \in 1..n
  BY <1>4
<1>11. env[dynamic_env].next = b[m] /\ b[n] = dynamic_env /\ b[1] = Heap
  BY <1>1, <1>10 DEF Layout, RecordsLinked, n
<1> HIDE DEF m
<1> DEFINE shrunk == [i \in 1..m |-> b[i]]
<1>c. PICK c : c = shrunk
  OBVIOUS
<1>12. c \in [1..m -> Address] /\ (\A i \in 1..m : c[i] = b[i] /\ env'[c[i]] = env[b[i]])
       /\ c[1] = Heap /\ c[m] = b[m] /\ 1 \in 1..m /\ m \in 1..m
  BY <1>4, <1>9, <1>11, <1>c
<1> HIDE DEF shrunk
<1>13. RecordsLinked(c)'
  <2>1. \A i \in 1..m : env'[c[i]] \in EnvRecord
    BY <1>1, <1>10, <1>12 DEF Layout, RecordsLinked, n
  <2>2. env'[Heap].next = NULL
    BY <1>1, <1>9, <1>11, <1>12 DEF Layout, RecordsLinked
  <2>3. ASSUME NEW i \in 2..m
        PROVE  env'[c[i]].next = c[i - 1] /\ env'[c[i - 1]].next_free_byte = c[i]
    <3>1. i \in 1..m /\ i - 1 \in 1..m
      BY <1>4
    <3>2. i \in 2..n
      BY <1>4 DEF m
    <3> QED
      BY <1>1, <1>12, <3>1, <3>2 DEF Layout, RecordsLinked, top, n
  <2> QED
    BY <1>5, <1>6, <1>11, <1>12, <2>1, <2>2, <2>3 DEF RecordsLinked, top
<1>14. RecordsInOrder(c)'
  <2>1. \A i \in 1..m : /\ Heap <= c[i] /\ c[i] + EnvSize <= env'[c[i]].next_free_byte
                        /\ env'[c[i]].next_free_byte <= heap_end + 1
    BY <1>1, <1>10, <1>12 DEF Layout, RecordsInOrder, top, get_frame_start, n
  <2>2. \A i, j \in 1..m : i < j => env'[c[i]].next_free_byte <= c[j]
    BY <1>1, <1>10, <1>12 DEF Layout, RecordsInOrder, top, n
  <2> QED
    BY <1>6, <2>1, <2>2 DEF RecordsInOrder, top, get_frame_start, heap_end
<1>15. ObjectsInFrames(c)'
  <2>1. ASSUME NEW i \in 1..m, NEW o \in objects'[i]
        PROVE  c[i] + EnvSize <= o.base /\ o.base + o.size <= env'[c[i]].next_free_byte
               /\ \A p \in objects'[i] : o = p \/ Apart(o, p)
    <3>1. i \in 1..n /\ objects'[i] = objects[i]
      BY <1>6, <1>10
    <3> QED
      BY <1>1, <1>12, <2>1, <3>1 DEF Layout, ObjectsInFrames, get_frame_start, top, n
  <2> QED
    BY <1>6, <2>1, Zenon DEF ObjectsInFrames, top, get_frame_start, Apart
<1>16. TypeOK' /\ Len(objects') >= 1
  BY <1>2, <1>4, <1>5, <1>6, <1>8, <1>9, <1>11, <1>12 DEF TypeOK
<1> QED
  BY <1>13, <1>14, <1>15, <1>16, Zenon DEF PicInv, Layout

\* Every step keeps the layout.
LEMMA NextPicInv == PicInv /\ [Next]_vars => PicInv'
<1> SUFFICES ASSUME PicInv, [Next]_vars PROVE PicInv'
  OBVIOUS
<1>1. ASSUME NEW size \in Request, alloc(size) PROVE PicInv'
  BY <1>1, AllocPicInv
<1>2. CASE free_frame
  BY <1>2, FreePicInv
<1>3. CASE frame_push
  BY <1>3, PushPicInv
<1>4. CASE frame_pop
  BY <1>4, PopPicInv
<1>5. CASE UNCHANGED vars
  BY <1>5, StopPicInv DEF vars, PicInv, TypeOK
<1> QED
  BY <1>1, <1>2, <1>3, <1>4, <1>5 DEF Next

(***************************************************************************)
(* The records and objects of the frames are stacked in the heap as Layout *)
(* says, in every reachable state before a request wraps.                  *)
(***************************************************************************)
THEOREM PicInvHolds == Spec => []PicInv
BY InitPicInv, NextPicInv, PTL DEF Spec

\* TypeOK: each variable of PFAllocPic keeps its type.
THEOREM PicTypesHold == Spec => []TypeOK
<1>1. PicInv => TypeOK
  BY DEF PicInv
<1> QED
  BY <1>1, PicInvHolds, PTL

-----------------------------------------------------------------------------
\* Following next visits the records of the layout from the last to the first.
LEMMA ChainReversed ==
  ASSUME TypeOK, Len(objects) >= 1, NEW b, Layout(b)
  PROVE  Chain = [i \in 1..Len(objects) |-> b[Len(objects) + 1 - i]]
<1> DEFINE n == Len(objects)
           g == [i \in 1..n |-> b[n + 1 - i]]
           Follows(f) == f = [i \in DOMAIN objects |->
                               IF i = 1 THEN dynamic_env ELSE Outer(f[i - 1])]
<1>1. n \in Nat /\ n >= 1 /\ DOMAIN objects = 1..n
  BY ObjectsSeq
<1>2. b[n] = dynamic_env
  BY DEF Layout, RecordsLinked
<1>3. ASSUME NEW i \in 2..n PROVE Outer(b[i]) = b[i - 1]
  <2>1. env[b[i]].next = b[i - 1]
    BY DEF Layout, RecordsLinked
  <2> HIDE DEF n
  <2>2. i \in 1..n
    BY <1>1
  <2>3. b[i] \in Address /\ env[b[i]] # Junk
    BY <2>2, LayoutFacts DEF n
  <2> QED
    BY <2>1, <2>3 DEF Outer
<1> HIDE DEF n
<1>4. \A i \in 1..n : g[i] = IF i = 1 THEN dynamic_env ELSE Outer(g[i - 1])
  <2>1. ASSUME NEW i \in 1..n, i # 1 PROVE g[i] = Outer(g[i - 1])
    <3> DEFINE k == n + 2 - i
    <3>1. k \in 2..n /\ g[i] = b[k - 1] /\ g[i - 1] = b[k]
      BY <1>1, <2>1
    <3> HIDE DEF k, g
    <3> QED
      BY <1>3, <3>1
  <2>2. g[1] = dynamic_env
    BY <1>1, <1>2
  <2> HIDE DEF g
  <2> QED
    BY <2>1, <2>2
<1>5. Follows(g)
  <2>1. g = [i \in 1..n |-> g[i]]
    BY Zenon
  <2> HIDE DEF g
  <2> QED
    BY <1>1, <1>4, <2>1
<1>6. Follows(Chain)
  <2>1. Chain = CHOOSE f : Follows(f)
    BY DEF Chain
  <2> HIDE DEF g, Follows
  <2> QED
    BY <1>5, <2>1, Zenon
<1>7. \A i \in 1..n : Chain[i] = g[i]
  <2> DEFINE S == {i \in 0..n : i = 0 \/ Chain[i] = g[i]}
  <2>1. \A i \in 1..n : Chain[i] = IF i = 1 THEN dynamic_env ELSE Outer(Chain[i - 1])
    <3> DEFINE h == [i \in 1..n |-> IF i = 1 THEN dynamic_env ELSE Outer(Chain[i - 1])]
    <3>1. Chain = h
      BY <1>1, <1>6, Zenon
    <3>2. \A i \in 1..n : h[i] = IF i = 1 THEN dynamic_env ELSE Outer(Chain[i - 1])
      BY Zenon
    <3> HIDE DEF h
    <3> QED
      BY <3>1, <3>2, Zenon
  <2> HIDE DEF g, Follows
  <2>2. ASSUME NEW i \in 0..(n - 1), i \in S PROVE i + 1 \in S
    <3>1. i + 1 \in 1..n /\ (i + 1) - 1 = i /\ i + 1 \in 0..n
      BY <1>1
    <3>2. CASE i = 0
      BY <3>1, <3>2, <2>1, <1>4
    <3>3. CASE i # 0
      BY <3>1, <3>3, <2>1, <2>2, <1>4
    <3> QED
      BY <3>2, <3>3
  <2>3. 0 \in S
    BY <1>1
  <2>4. 0..n \subseteq S
    <3> HIDE DEF S
    <3> QED
      BY <1>1, <2>2, <2>3, IntervalInduction
  <2> QED
    BY <1>1, <2>4
<1>8. Chain = [i \in 1..n |-> Chain[i]]
  <2> DEFINE h == [i \in 1..n |-> IF i = 1 THEN dynamic_env ELSE Outer(Chain[i - 1])]
  <2>1. Chain = h
    BY <1>1, <1>6, Zenon
  <2>2. h = [i \in 1..n |-> h[i]]
    BY Zenon
  <2> HIDE DEF h
  <2> QED
    BY <2>1, <2>2, Zenon
<1>9. Chain = g
  BY <1>7, <1>8
<1> QED
  BY <1>9 DEF n

\* The record of frame i, or one of its objects, where the layout b puts it.
LiesIn(b, i, o) ==
  \/ o \in objects[i]
  \/ o.base = b[i] /\ o.size = EnvSize

\* Every object and every record lies in the part of one frame.
LEMMA SomewhereInLayout ==
  ASSUME TypeOK, Len(objects) >= 1, NEW b, Layout(b)
  PROVE  \A o \in Live \cup Records : \E i \in 1..Len(objects) : LiesIn(b, i, o)
<1> DEFINE n == Len(objects)
<1>1. n \in Nat /\ DOMAIN objects = 1..n
  BY ObjectsSeq
<1>2. Chain = [i \in 1..n |-> b[n + 1 - i]]
  BY ChainReversed
<1> HIDE DEF n
<1>3. ASSUME NEW o \in Live PROVE \E i \in 1..n : o \in objects[i]
  BY <1>1, <1>3 DEF Live
<1>4. ASSUME NEW o \in Records
      PROVE  \E i \in 1..n : o.base = b[i] /\ o.size = EnvSize
  <2>1. PICK j \in 1..n : o = [base |-> Chain[j], size |-> EnvSize]
    BY <1>1, <1>4 DEF Records
  <2>2. n + 1 - j \in 1..n
    BY <1>1
  <2>3. Chain[j] = b[n + 1 - j]
    BY <1>2
  <2>4. o.base = b[n + 1 - j] /\ o.size = EnvSize
    BY <2>1, <2>3
  <2> QED
    BY <2>2, <2>4
<1> QED
  BY <1>3, <1>4, Zenon DEF LiesIn, n

\* The extent of what lies in frame i.
LEMMA ExtentInFrame ==
  ASSUME TypeOK, Len(objects) >= 1, NEW b, Layout(b), NEW i \in 1..Len(objects),
         NEW o, LiesIn(b, i, o)
  PROVE  /\ o.base \in Nat /\ o.size \in Nat
         /\ b[i] <= o.base /\ o.base + o.size <= top(b[i])
<1>1. b[i] \in Nat /\ top(b[i]) \in Nat
  BY LayoutFacts
<1>2. b[i] + EnvSize <= top(b[i]) /\ EnvSize \in Nat
  BY PicNumbers DEF Layout, RecordsInOrder, get_frame_start
<1>3. CASE o \in objects[i]
  <2>1. o \in Object
    BY <1>3, ObjectsSeq
  <2>2. o.base \in Nat /\ o.size \in Nat
    BY <2>1, ObjectNumbers
  <2>3. b[i] + EnvSize <= o.base /\ o.base + o.size <= top(b[i])
    BY <1>3 DEF Layout, ObjectsInFrames, get_frame_start
  <2> QED
    BY <1>1, <1>2, <2>2, <2>3
<1>4. CASE o.base = b[i] /\ o.size = EnvSize
  BY <1>1, <1>2, <1>4
<1> QED
  BY <1>3, <1>4 DEF LiesIn

\* What the layout holds is apart, or the same bytes.
LEMMA LayoutApart ==
  ASSUME TypeOK, Len(objects) >= 1, NEW b, Layout(b),
         NEW i \in 1..Len(objects), NEW j \in 1..Len(objects),
         NEW o, NEW p, LiesIn(b, i, o), LiesIn(b, j, p)
  PROVE  (o.base = p.base /\ o.size = p.size) \/ Apart(o, p)
<1>1. /\ o.base \in Nat /\ o.size \in Nat /\ p.base \in Nat /\ p.size \in Nat
      /\ b[i] <= o.base /\ o.base + o.size <= top(b[i])
      /\ b[j] <= p.base /\ p.base + p.size <= top(b[j])
      /\ b[i] \in Nat /\ b[j] \in Nat /\ top(b[i]) \in Nat /\ top(b[j]) \in Nat
  BY ExtentInFrame, LayoutFacts
<1>2. CASE i < j
  <2>1. top(b[i]) <= b[j]
    BY <1>2 DEF Layout, RecordsInOrder
  <2> QED
    BY <1>1, <2>1 DEF Apart
<1>3. CASE j < i
  <2>1. top(b[j]) <= b[i]
    BY <1>3 DEF Layout, RecordsInOrder
  <2> QED
    BY <1>1, <2>1 DEF Apart
<1>4. CASE i = j
  <2>1. CASE o \in objects[i] /\ p \in objects[i]
    BY <2>1 DEF Layout, ObjectsInFrames
  <2>2. ASSUME NEW q, q \in objects[i] PROVE b[i] + EnvSize <= q.base
    BY <2>2 DEF Layout, ObjectsInFrames, get_frame_start
  <2>3. CASE o \in objects[i] /\ p.base = b[i] /\ p.size = EnvSize
    BY <2>2, <2>3 DEF Apart
  <2>4. CASE p \in objects[i] /\ o.base = b[i] /\ o.size = EnvSize
    BY <2>2, <2>4 DEF Apart
  <2>5. CASE o.base = b[i] /\ o.size = EnvSize /\ p.base = b[i] /\ p.size = EnvSize
    BY <2>5
  <2> QED
    BY <1>4, <2>1, <2>3, <2>4, <2>5 DEF LiesIn
<1>5. i < j \/ j < i \/ i = j
  BY ObjectsSeq
<1> QED
  BY <1>2, <1>3, <1>4, <1>5

\* What a layout stacks is disjoint and inside the heap.
LEMMA LayoutIsDisjoint == PicInv => NothingOverlaps
<1> SUFFICES ASSUME PicInv, ~wrapped PROVE NothingOverlaps
  BY DEF NothingOverlaps
<1>1. PICK b : Layout(b)
  BY DEF PicInv
<1>2. TypeOK /\ Len(objects) >= 1
  BY DEF PicInv
<1>3. \A o \in Live \cup Records : \E i \in 1..Len(objects) : LiesIn(b, i, o)
  BY <1>1, <1>2, SomewhereInLayout
<1>4. ASSUME NEW o \in Live \cup Records PROVE Bytes(o) \subseteq Heap..heap_end
  <2>1. PICK i \in 1..Len(objects) : LiesIn(b, i, o)
    BY <1>3
  <2>2. o.base \in Nat /\ o.size \in Nat /\ b[i] <= o.base /\ o.base + o.size <= top(b[i])
        /\ b[i] \in Nat /\ top(b[i]) \in Nat
    BY <1>1, <1>2, <2>1, ExtentInFrame, LayoutFacts
  <2>3. Heap <= b[i] /\ top(b[i]) <= heap_end + 1
    BY <1>1 DEF Layout, RecordsInOrder
  <2>4. ASSUME NEW x \in Bytes(o) PROVE x \in Heap..heap_end
    <3>1. x \in Nat /\ o.base <= x /\ x <= o.base + o.size - 1
      BY <2>2, <2>4 DEF Bytes
    <3> QED
      BY <2>2, <2>3, <3>1, PicNumbers
  <2> QED
    BY <2>4
<1>5. ASSUME NEW o \in Live \cup Records, NEW p \in Live \cup Records
      PROVE  o = p \/ Bytes(o) \cap Bytes(p) = {}
  <2>1. PICK i \in 1..Len(objects) : LiesIn(b, i, o)
    BY <1>3
  <2>2. PICK j \in 1..Len(objects) : LiesIn(b, j, p)
    BY <1>3
  <2>3. CASE Apart(o, p)
    <3>1. o.base \in Nat /\ o.size \in Nat
      BY <1>1, <1>2, <2>1, ExtentInFrame
    <3>2. p.base \in Nat /\ p.size \in Nat
      BY <1>1, <1>2, <2>2, ExtentInFrame
    <3> QED
      BY <2>3, <3>1, <3>2, ApartBytes
  <2>4. CASE o.base = p.base /\ o.size = p.size
    <3>1. ASSUME NEW q \in Live \cup Records PROVE q = [base |-> q.base, size |-> q.size]
      <4>1. CASE q \in Live
        <5>1. q \in Object
          BY <1>2, <4>1, ObjectsSeq DEF Live
        <5> QED
          BY <5>1 DEF Object
      <4>2. CASE q \in Records
        BY <4>2 DEF Records
      <4> QED
        BY <4>1, <4>2
    <3> QED
      BY <2>4, <3>1, Zenon
  <2> QED
    BY <1>1, <1>2, <2>1, <2>2, <2>3, <2>4, LayoutApart
<1> QED
  BY <1>4, <1>5 DEF NothingOverlaps

(***************************************************************************)
(* NothingOverlaps: what tests write into their objects never reaches the  *)
(* records, and no byte belongs to two of them, before a request wraps.    *)
(***************************************************************************)
THEOREM ObjectsNeverOverlap == Spec => []NothingOverlaps
BY LayoutIsDisjoint, PicInvHolds, PTL

\* The records of a layout are those next leads through, in their order.
LEMMA LayoutIsNested == PicInv => FramesNest
<1> SUFFICES ASSUME PicInv, ~wrapped PROVE FramesNest
  BY DEF FramesNest
<1> DEFINE n == Len(objects)
<1>1. PICK b : Layout(b)
  BY DEF PicInv
<1>2. TypeOK /\ Len(objects) >= 1
  BY DEF PicInv
<1>3. n \in Nat /\ n >= 1 /\ DOMAIN objects = 1..n
  BY <1>2, ObjectsSeq
<1>4. Chain = [i \in 1..n |-> b[n + 1 - i]]
  BY <1>1, <1>2, ChainReversed
<1>5. \A i \in 1..n : b[i] \in Address /\ env[b[i]] # Junk
  BY <1>1, <1>2, LayoutFacts
<1>6. b[1] = Heap /\ env[Heap].next = NULL
      /\ \A i \in 2..n : top(b[i - 1]) = b[i]
  BY <1>1 DEF Layout, RecordsLinked
<1> HIDE DEF n
<1>7. ASSUME NEW i \in 1..n PROVE Chain[i] \in Address /\ env[Chain[i]] # Junk
  <2>1. n + 1 - i \in 1..n
    BY <1>3
  <2>2. Chain[i] = b[n + 1 - i]
    BY <1>4
  <2> QED
    BY <1>5, <2>1, <2>2
<1>8. Outer(Chain[n]) = NULL
  <2>1. Chain[n] = Heap
    BY <1>3, <1>4, <1>6
  <2>2. n \in 1..n
    BY <1>3
  <2> QED
    BY <1>6, <1>7, <2>1, <2>2 DEF Outer
<1>9. ASSUME NEW i \in 1..(n - 1) PROVE env[Chain[i + 1]].next_free_byte = Chain[i]
  <2> DEFINE k == n + 1 - i
  <2>1. k \in 2..n /\ i \in 1..n /\ i + 1 \in 1..n /\ n + 1 - (i + 1) = k - 1
    BY <1>3
  <2>2. Chain[i] = b[k] /\ Chain[i + 1] = b[k - 1]
    BY <1>4, <2>1
  <2> HIDE DEF k
  <2> QED
    BY <1>6, <2>1, <2>2 DEF top
<1> QED
  BY <1>3, <1>7, <1>8, <1>9 DEF FramesNest, n

(***************************************************************************)
(* FramesNest: next leads through the intact records of all frames, and a  *)
(* pop resumes the outer frame exactly where the inner one began, before a *)
(* request wraps.                                                          *)
(***************************************************************************)
THEOREM FramesAlwaysNest == Spec => []FramesNest
BY LayoutIsNested, PicInvHolds, PTL

-----------------------------------------------------------------------------
\* An allocation that fits is one of PFAllocSpec, or adds nothing.
LEMMA AllocKeepsPromise ==
  ASSUME PicInv, NEW size \in Request, alloc(size)
  PROVE  Promise!Next \/ UNCHANGED objects
<1>1. PICK b : Layout(b)
  BY DEF PicInv, alloc, Runs
<1>2. TypeOK /\ Len(objects) >= 1
  BY DEF PicInv
<1>3. CASE stopped'
  BY <1>3 DEF alloc
<1> DEFINE new == {o \in Object : o.base = next_free_byte /\ o.size = size}
<1>4. CASE ~stopped'
  <2>1. objects' = [objects EXCEPT ![Len(objects)] = objects[Len(objects)] \cup new]
    BY <1>4 DEF alloc
  <2>2. Len(objects) \in 1..Len(objects) /\ objects \in [1..Len(objects) -> SUBSET Object]
    BY <1>2, ObjectsSeq
  <2>3. CASE size = 0
    <3>1. new = {}
      BY <2>3, ObjectNumbers
    <3> HIDE DEF new
    <3> QED
      BY <2>1, <2>2, <3>1
  <2>4. CASE size # 0
    <3> DEFINE o == [base |-> next_free_byte, size |-> size]
    <3>1. o \in Object
      BY <1>1, <1>2, <2>4, LayoutFacts DEF Object
    <3>2. new = {o}
      BY <3>1 DEF Object
    <3>3. ASSUME NEW p \in Live PROVE Bytes(o) \cap Bytes(p) = {}
      <4>1. PICK i \in 1..Len(objects) : p \in objects[i]
        BY <1>2, ObjectsSeq DEF Live
      <4>2. p.base \in Nat /\ p.size \in Nat /\ p.base + p.size <= top(b[i])
        BY <1>1, <1>2, <4>1, ExtentInFrame DEF LiesIn
      <4>3. top(b[i]) <= next_free_byte /\ top(b[i]) \in Nat /\ next_free_byte \in Nat
        <5>1. top(b[i]) \in Nat /\ next_free_byte \in Nat /\ dynamic_env \in Nat
              /\ dynamic_env + EnvSize <= next_free_byte
              /\ next_free_byte = top(dynamic_env)
          BY <1>1, <1>2, LayoutFacts
        <5>2. CASE i = Len(objects)
          BY <1>1, <5>1, <5>2 DEF Layout, RecordsLinked
        <5>3. CASE i # Len(objects)
          <6>1. i \in 1..(Len(objects) - 1)
            <7>1. \A k \in Nat : \A x \in 1..k : x # k => x \in 1..(k - 1)
              OBVIOUS
            <7> QED
              BY <1>2, <5>3, <7>1, ObjectsSeq
          <6>2. top(b[i]) <= dynamic_env
            BY <1>1, <1>2, <6>1, LayoutFacts
          <6> QED
            BY <5>1, <6>2, PicNumbers
        <5> QED
          BY <5>2, <5>3
      <4>4. p.base + p.size <= next_free_byte
        BY <4>2, <4>3
      <4>5. o.base = next_free_byte /\ o.size = size /\ size \in Nat
        BY PicNumbers
      <4> HIDE DEF o
      <4> QED
        BY <4>2, <4>3, <4>4, <4>5, ApartBytes DEF Apart
    <3>4. Promise!Alloc(o)
      <4> HIDE DEF o, new
      <4> QED
        BY <2>1, <3>2, <3>3 DEF Promise!Alloc, Promise!Live, Promise!Bytes, Live, Bytes
    <3> QED
      BY <3>1, <3>4, Zenon DEF Promise!Next
  <2> QED
    BY <2>3, <2>4
<1> QED
  BY <1>3, <1>4

\* Every step is a step of PFAllocSpec or changes no frame.
LEMMA StepKeepsPromise == PicInv /\ [Next]_vars => [KeepsPromise]_vars
<1> SUFFICES ASSUME PicInv, [Next]_vars PROVE Promise!Next \/ UNCHANGED objects
  BY DEF KeepsPromise
<1>1. ASSUME NEW size \in Request, alloc(size) PROVE Promise!Next \/ UNCHANGED objects
  BY <1>1, AllocKeepsPromise
<1>2. CASE free_frame
  BY <1>2, Zenon DEF free_frame, Promise!Next, Promise!FreeFrame
<1>3. CASE frame_push
  BY <1>3, Zenon DEF frame_push, Promise!Next, Promise!Push
<1>4. CASE frame_pop
  BY <1>4, Zenon DEF frame_pop, Promise!Next, Promise!Pop
<1>5. CASE UNCHANGED vars
  BY <1>5 DEF vars
<1> QED
  BY <1>1, <1>2, <1>3, <1>4, <1>5 DEF Next

(***************************************************************************)
(* ImplementsAlloc: the allocator of the PIC port keeps the promise of     *)
(* PFAllocSpec in every behaviour, up to a request that wraps.             *)
(***************************************************************************)
THEOREM PicImplementsAlloc == Spec => ImplementsAlloc
<1>1. Init => Promise!Init
  BY DEF Init, Promise!Init
<1> QED
  BY <1>1, StepKeepsPromise, PicInvHolds, PTL DEF Spec, ImplementsAlloc
=============================================================================
