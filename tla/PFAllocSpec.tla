---------------------------- MODULE PFAllocSpec -----------------------------
(***************************************************************************)
(* What the framework expects of pfstest-alloc.h, whichever file of        *)
(* src/alloc implements it: memory comes in frames, an object's bytes      *)
(* belong to no other object while its frame lives, pfstest_alloc adds to  *)
(* the innermost frame, and freeing or popping that frame touches no other.*)
(***************************************************************************)
EXTENDS Naturals, Sequences

CONSTANT Object   \* [base, size] records, size > 0

VARIABLE frames   \* the objects of each frame, innermost last

Bytes(o) == o.base..(o.base + o.size - 1)

Live == UNION {frames[i] : i \in DOMAIN frames}

Init == frames = << {} >>

Alloc(o) ==
  /\ \A p \in Live : Bytes(o) \cap Bytes(p) = {}
  /\ frames' = [frames EXCEPT ![Len(frames)] = @ \cup {o}]

FreeFrame == frames' = [frames EXCEPT ![Len(frames)] = {}]

Push == frames' = Append(frames, {})

Pop ==
  /\ Len(frames) > 1
  /\ frames' = SubSeq(frames, 1, Len(frames) - 1)

Next == (\E o \in Object : Alloc(o)) \/ FreeFrame \/ Push \/ Pop

Spec == Init /\ [][Next]_frames
=============================================================================
