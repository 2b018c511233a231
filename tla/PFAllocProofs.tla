--------------------------- MODULE PFAllocProofs ----------------------------
(***************************************************************************)
(* Proofs about PFAlloc: every block that malloc handed out is the record  *)
(* of one frame or an object of one frame, whatever sizes are asked for    *)
(* and wherever malloc puts them, and the allocator implements             *)
(* PFAllocSpec.                                                            *)
(***************************************************************************)
EXTENDS PFAlloc, PFInduction

EnvAddress == Address \cup {Static}
EnvSet     == ToSet(Envs)
Owners     == [e \in EnvSet |-> Owned(e)]

HasBlock(B, a, size) == \E b \in B : b.base = a /\ b.size = size

(***************************************************************************)
(* How memory is divided: E are the frame records, O[e] the nodes of the   *)
(* objects of frame e, and B the blocks.                                   *)
(***************************************************************************)
Divided(E, O, B) ==
  /\ Static \in E /\ E \subseteq EnvAddress
  /\ O \in [E -> SUBSET Address]
  /\ B \subseteq Block
  /\ \A b, c \in B : b # c => Bytes(b) \cap Bytes(c) = {}
  /\ \A e, f \in E : e # f => O[e] \cap O[f] = {}
  /\ \A e \in E : O[e] \cap E = {}
  /\ \A e \in E \ {Static} : HasBlock(B, e, EnvSize)
  /\ \A e \in E : \A n \in O[e] :
       \E size \in Request \ {0} : HasBlock(B, n, header_size + size)
  /\ \A b \in B : b.base \in E \/ \E e \in E : b.base \in O[e]

MemoryInv == Divided(EnvSet, Owners, blocks)

(***************************************************************************)
(* What the links are: no loops, no Junk where they are followed, and no   *)
(* record outside of the frames.                                           *)
(***************************************************************************)
LinksInv ==
  /\ Loopless(next, Address)
  /\ Loopless(up, EnvAddress)
  /\ up[Static] = NULL
  /\ \A a \in Address : up[a] # Junk => a \in EnvSet
  /\ \A e \in EnvSet : allocated[e] # Junk
  /\ \A e \in EnvSet : \A n \in Owned(e) : next[n] # Junk
  /\ \A e \in EnvSet : up[e] # Junk
  /\ doing = "frame_pop" => dynamic_env # Static

AllocInv == TypeOK /\ MemoryInv /\ LinksInv

-----------------------------------------------------------------------------
\* Sizes and addresses are natural numbers.
LEMMA AllocNumbers ==
  /\ NodeSize \in Nat \ {0} /\ EnvSize \in Nat \ {0} /\ MemSize \in Nat
  /\ PFSTEST_ALIGNMENT \in Nat \ {0} /\ Request \subseteq Nat
  /\ Address \subseteq Nat
  /\ header_size \in Nat /\ header_size >= NodeSize
  /\ NULL \notin Address /\ Junk \notin Address /\ Static \notin Address
  /\ NULL # Junk /\ Static # NULL /\ Static # Junk
<1>1. /\ NodeSize \in Nat \ {0} /\ EnvSize \in Nat \ {0} /\ MemSize \in Nat
      /\ PFSTEST_ALIGNMENT \in Nat \ {0} /\ Request \subseteq Nat
      /\ NULL \notin Address /\ Junk \notin Address /\ Static \notin Address
      /\ NULL # Junk /\ Static # NULL /\ Static # Junk
  BY AllocAssumption DEF AllocAssumption
<1>2. Address \subseteq Nat
  BY <1>1 DEF Address
<1>3. NodeSize % PFSTEST_ALIGNMENT \in 0..(PFSTEST_ALIGNMENT - 1)
  BY <1>1
<1>4. header_size \in Nat /\ header_size >= NodeSize
  BY <1>1, <1>3 DEF header_size, align_size
<1> QED
  BY <1>1, <1>2, <1>4

-----------------------------------------------------------------------------
(* Dividing memory *)

\* A block has an address and some bytes.
LEMMA BlockNumbers ==
  ASSUME NEW c \in Block
  PROVE  c.base \in Address /\ c.base \in Nat /\ c.size \in Nat \ {0}
<1>1. c.base \in Address /\ c.size \in 1..MemSize
  BY DEF Block
<1>2. MemSize \in Nat /\ Address \subseteq Nat
  BY AllocNumbers
<1>3. 1..MemSize \subseteq Nat \ {0}
  BY <1>2
<1> QED
  BY <1>1, <1>2, <1>3, Zenon

\* The blocks that begin in different places are different, and vice versa.
LEMMA OneBlockAtABase ==
  ASSUME NEW B \in SUBSET Block, \A b, c \in B : b # c => Bytes(b) \cap Bytes(c) = {},
         NEW b \in B, NEW c \in B, b.base = c.base
  PROVE  b = c
<1>1. b.base \in Bytes(b) /\ c.base \in Bytes(c)
  BY BlockNumbers DEF Bytes, Span
<1> QED
  BY <1>1

\* A block malloc returns is a new one, apart from all others.
FreshFor(b, B) ==
  /\ b \in Block
  /\ \A c \in B : Bytes(b) \cap Bytes(c) = {} /\ c.base # b.base

\* What malloc returns is fresh.
LEMMA FreeIsFresh ==
  ASSUME NEW size \in Nat \ {0}, NEW b \in Free(size), blocks \in SUBSET Block
  PROVE  FreshFor(b, blocks) /\ b.size = size
<1>1. /\ b.base \in Address /\ b.size = size /\ b.base + size <= MemSize
      /\ b = [base |-> b.base, size |-> b.size]
      /\ \A c \in blocks : Bytes(b) \cap Bytes(c) = {}
  BY DEF Free
<1>2. b \in Block
  BY <1>1, AllocNumbers DEF Block
<1>3. ASSUME NEW c \in blocks PROVE c.base # b.base
  <2>1. b.base \in Bytes(b) /\ c.base \in Bytes(c)
    BY <1>2, BlockNumbers DEF Bytes, Span
  <2> QED
    BY <1>1, <2>1
<1> QED
  BY <1>1, <1>2, <1>3 DEF FreshFor

\* A fresh block is no record and no object.
LEMMA FreshIsUnused ==
  ASSUME NEW E, NEW O, NEW B, Divided(E, O, B), NEW b, FreshFor(b, B)
  PROVE  b.base \in Address /\ b.base \notin E /\ \A e \in E : b.base \notin O[e]
<1>1. b.base \in Address
  BY DEF FreshFor, Block
<1> QED
  BY <1>1, AllocNumbers DEF Divided, FreshFor, HasBlock

\* One object more, in frame e0.
LEMMA DividedAfterAlloc ==
  ASSUME NEW E, NEW O, NEW B, Divided(E, O, B), NEW b, FreshFor(b, B), NEW e0 \in E,
         NEW size \in Request \ {0}, b.size = header_size + size
  PROVE  Divided(E, [O EXCEPT ![e0] = O[e0] \cup {b.base}], B \cup {b})
<1>1. b.base \in Address /\ b.base \notin E /\ \A e \in E : b.base \notin O[e]
  BY FreshIsUnused
<1> DEFINE P == [O EXCEPT ![e0] = O[e0] \cup {b.base}]
<1>2. /\ P \in [E -> SUBSET Address] /\ P[e0] = O[e0] \cup {b.base}
      /\ \A e \in E : e # e0 => P[e] = O[e]
  BY <1>1 DEF Divided
<1> HIDE DEF P
<1>3. \A n, s : HasBlock(B, n, s) => HasBlock(B \cup {b}, n, s)
  BY DEF HasBlock
<1>4. HasBlock(B \cup {b}, b.base, header_size + size)
  BY DEF HasBlock
<1>5. ASSUME NEW e \in E, NEW n \in P[e]
      PROVE  \E s \in Request \ {0} : HasBlock(B \cup {b}, n, header_size + s)
  BY <1>2, <1>3, <1>4, <1>5 DEF Divided
<1>6. \A c, d \in B \cup {b} : c # d => Bytes(c) \cap Bytes(d) = {}
  BY DEF Divided, FreshFor
<1>7. B \cup {b} \subseteq Block
  BY DEF Divided, FreshFor
<1>8. \A e, f \in E : e # f => P[e] \cap P[f] = {}
  BY <1>1, <1>2 DEF Divided
<1>9. \A e \in E : P[e] \cap E = {}
  BY <1>1, <1>2 DEF Divided
<1>10. \A c \in B \cup {b} : c.base \in E \/ \E e \in E : c.base \in P[e]
  BY <1>2 DEF Divided
<1>11. Divided(E, P, B \cup {b})
  BY <1>2, <1>3, <1>5, <1>6, <1>7, <1>8, <1>9, <1>10 DEF Divided
<1> QED
  BY <1>11 DEF P

\* One frame more, without objects.
LEMMA DividedAfterPush ==
  ASSUME NEW E, NEW O, NEW B, Divided(E, O, B), NEW b, FreshFor(b, B), b.size = EnvSize
  PROVE  Divided(E \cup {b.base},
                 [e \in E \cup {b.base} |-> IF e = b.base THEN {} ELSE O[e]], B \cup {b})
<1>1. b.base \in Address /\ b.base \notin E /\ \A e \in E : b.base \notin O[e]
  BY FreshIsUnused
<1> DEFINE F == E \cup {b.base}
           P == [e \in F |-> IF e = b.base THEN {} ELSE O[e]]
<1>2. /\ P \in [F -> SUBSET Address] /\ P[b.base] = {}
      /\ \A e \in E : P[e] = O[e]
  BY <1>1 DEF Divided
<1> HIDE DEF P
<1>3. \A n, s : HasBlock(B, n, s) => HasBlock(B \cup {b}, n, s)
  BY DEF HasBlock
<1>4. HasBlock(B \cup {b}, b.base, EnvSize)
  BY DEF HasBlock
<1>6. \A c, d \in B \cup {b} : c # d => Bytes(c) \cap Bytes(d) = {}
  BY DEF Divided, FreshFor
<1>7. B \cup {b} \subseteq Block /\ F \subseteq EnvAddress
  BY <1>1 DEF Divided, FreshFor, EnvAddress
<1>8. \A e, f \in F : e # f => P[e] \cap P[f] = {}
  BY <1>1, <1>2 DEF Divided
<1>9. \A e \in F : P[e] \cap F = {}
  BY <1>1, <1>2 DEF Divided
<1>10. \A c \in B \cup {b} : c.base \in F \/ \E e \in F : c.base \in P[e]
  BY <1>2 DEF Divided
<1>11. \A e \in F : \A n \in P[e] :
         \E size \in Request \ {0} : HasBlock(B \cup {b}, n, header_size + size)
  BY <1>2, <1>3 DEF Divided
<1>12. \A e \in F \ {Static} : HasBlock(B \cup {b}, e, EnvSize)
  BY <1>3, <1>4 DEF Divided
<1>13. Divided(F, P, B \cup {b})
  BY <1>2, <1>6, <1>7, <1>8, <1>9, <1>10, <1>11, <1>12 DEF Divided
<1> QED
  BY <1>13 DEF P

\* One object less in frame e0.
LEMMA DividedAfterFree ==
  ASSUME NEW E, NEW O, NEW B, Divided(E, O, B), NEW e0 \in E, NEW n \in O[e0]
  PROVE  Divided(E, [O EXCEPT ![e0] = O[e0] \ {n}], {b \in B : b.base # n})
<1> DEFINE P == [O EXCEPT ![e0] = O[e0] \ {n}]
           C == {b \in B : b.base # n}
<1>1. /\ P \in [E -> SUBSET Address] /\ P[e0] = O[e0] \ {n}
      /\ \A e \in E : e # e0 => P[e] = O[e]
  BY DEF Divided
<1> HIDE DEF P
<1>2. \A a, s : a # n /\ HasBlock(B, a, s) => HasBlock(C, a, s)
  BY DEF HasBlock
<1>3. n \notin E /\ \A e \in E : n \notin P[e]
  BY <1>1 DEF Divided
<1>4. \A e \in E \ {Static} : HasBlock(C, e, EnvSize)
  BY <1>2, <1>3 DEF Divided
<1>5. \A e \in E : \A a \in P[e] : \E size \in Request \ {0} : HasBlock(C, a, header_size + size)
  BY <1>1, <1>2, <1>3 DEF Divided
<1>6. \A b \in C : b.base \in E \/ \E e \in E : b.base \in P[e]
  BY <1>1 DEF Divided
<1>7. \A e, f \in E : e # f => P[e] \cap P[f] = {}
  BY <1>1 DEF Divided
<1>8. \A e \in E : P[e] \cap E = {}
  BY <1>1 DEF Divided
<1>9. C \subseteq Block /\ \A b, c \in C : b # c => Bytes(b) \cap Bytes(c) = {}
  BY DEF Divided
<1> HIDE DEF C
<1>10. Divided(E, P, C)
  BY <1>1, <1>4, <1>5, <1>6, <1>7, <1>8, <1>9 DEF Divided
<1> QED
  BY <1>10 DEF P, C

\* One frame less, which had no objects.
LEMMA DividedAfterPop ==
  ASSUME NEW E, NEW O, NEW B, Divided(E, O, B), NEW e0 \in E \ {Static}, O[e0] = {}
  PROVE  Divided(E \ {e0}, [e \in E \ {e0} |-> O[e]], {b \in B : b.base # e0})
<1> DEFINE F == E \ {e0}
           P == [e \in F |-> O[e]]
           C == {b \in B : b.base # e0}
<1>1. P \in [F -> SUBSET Address] /\ \A e \in F : P[e] = O[e]
  BY DEF Divided
<1> HIDE DEF P
<1>2. \A a, s : a # e0 /\ HasBlock(B, a, s) => HasBlock(C, a, s)
  BY DEF HasBlock
<1>3. \A e \in F : e0 \notin P[e]
  BY <1>1 DEF Divided
<1>4. \A e \in F \ {Static} : HasBlock(C, e, EnvSize)
  BY <1>2 DEF Divided
<1>5. \A e \in F : \A a \in P[e] : \E size \in Request \ {0} : HasBlock(C, a, header_size + size)
  BY <1>1, <1>2, <1>3 DEF Divided
<1>6. \A b \in C : b.base \in F \/ \E e \in F : b.base \in P[e]
  BY <1>1 DEF Divided
<1>7. \A e, f \in F : e # f => P[e] \cap P[f] = {}
  BY <1>1 DEF Divided
<1>8. \A e \in F : P[e] \cap F = {}
  BY <1>1 DEF Divided
<1>9. /\ C \subseteq Block /\ \A b, c \in C : b # c => Bytes(b) \cap Bytes(c) = {}
      /\ Static \in F /\ F \subseteq EnvAddress
  BY DEF Divided
<1> HIDE DEF C, F
<1>10. Divided(F, P, C)
  BY <1>1, <1>4, <1>5, <1>6, <1>7, <1>8, <1>9 DEF Divided
<1> QED
  BY <1>10 DEF P, C, F

-----------------------------------------------------------------------------
(* What overwriting memory leaves of the links *)

\* A link keeps its value or becomes Junk.
LEMMA CorruptedIs ==
  ASSUME NEW f, NEW width, NEW from, NEW size
  PROVE  /\ DOMAIN Corrupted(f, width, from, size) = DOMAIN f
         /\ \A a \in DOMAIN f : \/ Corrupted(f, width, from, size)[a] = Junk
                                \/ Corrupted(f, width, from, size)[a] = f[a]
         /\ \A a \in DOMAIN f : a \notin Address => Corrupted(f, width, from, size)[a] = f[a]
BY DEF Corrupted

\* Those inside a block that is not overwritten keep theirs.
LEMMA CorruptedAway ==
  ASSUME NEW f, NEW width \in Nat, NEW from \in Nat, NEW size \in Nat,
         NEW c \in Block, c.base \in DOMAIN f, width <= c.size,
         Bytes(c) \cap Span(from, size) = {}
  PROVE  Corrupted(f, width, from, size)[c.base] = f[c.base]
<1>1. c.base \in Nat /\ c.size \in Nat
  BY BlockNumbers
<1>2. Span(c.base, width) \subseteq Bytes(c)
  BY <1>1 DEF Span, Bytes
<1> QED
  BY <1>2 DEF Corrupted

\* Those that begin where the overwriting does do not.
LEMMA CorruptedThere ==
  ASSUME NEW f, NEW width \in Nat \ {0}, NEW a \in Address \cap DOMAIN f,
         NEW size \in Nat \ {0}
  PROVE  Corrupted(f, width, a, size)[a] = Junk
<1>1. a \in Span(a, width) /\ a \in Span(a, size)
  BY AllocNumbers DEF Span
<1> QED
  BY <1>1 DEF Corrupted

\* No loop appears.
LEMMA CorruptedLoopless ==
  ASSUME NEW f, NEW N, N \subseteq DOMAIN f, Junk \notin N, Loopless(f, N),
         NEW width, NEW from, NEW size
  PROVE  Loopless(Corrupted(f, width, from, size), N)
<1> SUFFICES ASSUME NEW S \in SUBSET N, S # {}
             PROVE  \E n \in S : Corrupted(f, width, from, size)[n] \notin S
  BY DEF Loopless
<1>1. PICK n \in S : f[n] \notin S
  BY DEF Loopless
<1>2. n \in DOMAIN f
  OBVIOUS
<1> QED
  BY <1>1, <1>2, CorruptedIs

\* The type does not change.
LEMMA CorruptedTyped ==
  ASSUME NEW D, NEW R, Junk \in R, NEW f \in [D -> R],
         NEW width, NEW from, NEW size
  PROVE  Corrupted(f, width, from, size) \in [D -> R]
BY DEF Corrupted

\* What is written inside the block of a record or an object leaves the other
\* records as they are.
LEMMA RecordsKept ==
  ASSUME NEW E, NEW O, NEW B, Divided(E, O, B),
         NEW from \in Nat, NEW size \in Nat, NEW e \in E,
         \A c \in B : c.base = e => Bytes(c) \cap Span(from, size) = {},
         NEW f, e \in DOMAIN f
  PROVE  Corrupted(f, EnvSize, from, size)[e] = f[e]
<1>1. CASE e = Static
  BY <1>1, AllocNumbers, CorruptedIs
<1>2. CASE e # Static
  <2>1. PICK c \in B : c.base = e /\ c.size = EnvSize
    BY <1>2 DEF Divided, HasBlock
  <2>2. c \in Block /\ EnvSize \in Nat /\ EnvSize <= c.size
    BY <2>1, AllocNumbers DEF Divided
  <2>3. c.base \in DOMAIN f /\ Bytes(c) \cap Span(from, size) = {}
    BY <2>1
  <2>4. Corrupted(f, EnvSize, from, size)[c.base] = f[c.base]
    BY <2>2, <2>3, CorruptedAway
  <2> QED
    BY <2>1, <2>4
<1> QED
  BY <1>1, <1>2

\* And the other nodes.
LEMMA NodesKept ==
  ASSUME NEW E, NEW O, NEW B, Divided(E, O, B),
         NEW from \in Nat, NEW size \in Nat, NEW e \in E, NEW n \in O[e],
         \A c \in B : c.base = n => Bytes(c) \cap Span(from, size) = {},
         NEW f, n \in DOMAIN f
  PROVE  Corrupted(f, NodeSize, from, size)[n] = f[n]
<1>1. PICK s \in Request \ {0} : HasBlock(B, n, header_size + s)
  BY DEF Divided
<1>2. PICK c \in B : c.base = n /\ c.size = header_size + s
  BY <1>1 DEF HasBlock
<1>3. c \in Block /\ NodeSize \in Nat /\ NodeSize <= c.size
  <2>1. c \in Block
    BY DEF Divided
  <2>2. NodeSize \in Nat /\ header_size \in Nat /\ s \in Nat /\ header_size >= NodeSize
    BY AllocNumbers
  <2> QED
    BY <1>2, <2>1, <2>2
<1>4. Corrupted(f, NodeSize, from, size)[c.base] = f[c.base]
  BY <1>2, <1>3, CorruptedAway
<1> QED
  BY <1>2, <1>4

-----------------------------------------------------------------------------
(* Loops and links *)

\* Linking a new end to a node makes no loop.
LEMMA LinkLoopless ==
  ASSUME NEW f, NEW N, Loopless(f, N), NEW t, NEW n, NEW end, end \notin N,
         N \subseteq DOMAIN f, n # t
  PROVE  Loopless([f EXCEPT ![t] = n, ![n] = end], N)
<1> SUFFICES ASSUME NEW S \in SUBSET N, S # {}
             PROVE  \E m \in S : [f EXCEPT ![t] = n, ![n] = end][m] \notin S
  BY DEF Loopless
<1>1. CASE n \in S
  BY <1>1
<1>2. CASE n \notin S
  <2>1. PICK m \in S : f[m] \notin S
    BY DEF Loopless
  <2> QED
    BY <1>2, <2>1
<1> QED
  BY <1>1, <1>2

\* Nor does a node in front, if nothing links to it.
LEMMA FrontLoopless ==
  ASSUME NEW f, NEW N, Loopless(f, N), NEW n, NEW p, p # n,
         N \subseteq DOMAIN f, \A m \in N : f[m] # n
  PROVE  Loopless([f EXCEPT ![n] = p], N)
<1> SUFFICES ASSUME NEW S \in SUBSET N, S # {}
             PROVE  \E m \in S : [f EXCEPT ![n] = p][m] \notin S
  BY DEF Loopless
<1>1. CASE S \ {n} = {}
  <2>1. S = {n}
    BY <1>1
  <2> QED
    BY <2>1
<1>2. CASE S \ {n} # {}
  <2>1. S \ {n} \in SUBSET N
    OBVIOUS
  <2>2. PICK m \in S \ {n} : f[m] \notin S \ {n}
    BY <1>2, <2>1 DEF Loopless
  <2> QED
    BY <2>2
<1> QED
  BY <1>1, <1>2

\* Where the links of a chain lead.
LEMMA ChainLinks ==
  ASSUME NEW f, NEW N, NEW p, NEW s, IsChain(f, N, p, s)
  PROVE  /\ s \in Seq(N) /\ Len(s) \in Nat /\ ToSet(s) \subseteq N
         /\ ToSet(s) = {s[i] : i \in 1..Len(s)}
         /\ p \in N => p \in ToSet(s) /\ s # << >>
         /\ p \notin N => s = << >> /\ ToSet(s) = {}
         /\ \A n \in ToSet(s) : f[n] \in ToSet(s) \/ f[n] \notin N
         /\ \A n \in ToSet(s) : f[n] \notin N => n = s[Len(s)]
         /\ s # << >> => Last(s) = s[Len(s)] /\ Last(s) \in ToSet(s) /\ f[Last(s)] \notin N
<1>1. s \in Seq(N) /\ Len(s) \in Nat
  BY DEF IsChain
<1>2. ToSet(s) = {s[i] : i \in 1..Len(s)} /\ ToSet(s) \subseteq N
  BY <1>1 DEF ToSet
<1>3. s # << >> => 1 \in 1..Len(s) /\ Len(s) \in 1..Len(s)
  BY <1>1
<1>4. p \notin N => s = << >> /\ ToSet(s) = {}
  <2>1. s # << >> => s[1] = p /\ s[1] \in N
    BY <1>1, <1>3 DEF IsChain
  <2>2. s = << >> => 1..Len(s) = {}
    OBVIOUS
  <2> QED
    BY <1>2, <2>1, <2>2
<1>5. p \in N => p \in ToSet(s) /\ s # << >>
  BY <1>2, <1>3 DEF IsChain
<1>6. ASSUME NEW n \in ToSet(s)
      PROVE  \/ f[n] \in ToSet(s) /\ f[n] \in N
             \/ f[n] \notin N /\ n = s[Len(s)]
  <2>1. PICK i \in 1..Len(s) : n = s[i]
    BY <1>2
  <2>2. CASE i = Len(s)
    <3>1. s # << >>
      BY <1>1, <2>1
    <3> QED
      BY <2>1, <2>2, <3>1 DEF IsChain
  <2>3. CASE i # Len(s)
    <3>1. i \in 1..(Len(s) - 1) /\ i + 1 \in 1..Len(s)
      BY <1>1, <2>3
    <3>2. f[n] = s[i + 1]
      BY <2>1, <3>1 DEF IsChain
    <3> QED
      BY <1>2, <3>1, <3>2
  <2> QED
    BY <2>2, <2>3
<1>7. s # << >> => Last(s) = s[Len(s)] /\ Last(s) \in ToSet(s) /\ f[Last(s)] \notin N
  BY <1>2, <1>3 DEF IsChain, Last
<1> QED
  BY <1>1, <1>2, <1>4, <1>5, <1>6, <1>7

\* The elements of a longer and of a shorter sequence.
LEMMA ToSetAppend ==
  ASSUME NEW N, NEW s \in Seq(N), NEW n \in N
  PROVE  ToSet(Append(s, n)) = ToSet(s) \cup {n}
<1> DEFINE t == Append(s, n)
<1>1. /\ Len(s) \in Nat /\ Len(t) = Len(s) + 1 /\ t[Len(s) + 1] = n
      /\ \A i \in 1..Len(s) : t[i] = s[i]
      /\ ToSet(t) = {t[i] : i \in 1..Len(t)} /\ ToSet(s) = {s[i] : i \in 1..Len(s)}
  BY DEF ToSet
<1> HIDE DEF t
<1>2. 1..Len(t) = 1..Len(s) \cup {Len(s) + 1}
  BY <1>1
<1>3. ToSet(t) = ToSet(s) \cup {n}
  BY <1>1, <1>2
<1> QED
  BY <1>3 DEF t

\* And with one element more in front.
LEMMA ToSetFront ==
  ASSUME NEW N, NEW s \in Seq(N), NEW n \in N
  PROVE  ToSet(<<n>> \o s) = ToSet(s) \cup {n}
<1> DEFINE t == <<n>> \o s
<1>1. /\ Len(s) \in Nat /\ Len(t) = Len(s) + 1 /\ t[1] = n
      /\ \A i \in 1..Len(s) : t[i + 1] = s[i]
      /\ t \in Seq(N)
  BY DEF ToSet
<1> HIDE DEF t
<1>2. ToSet(t) = {t[i] : i \in 1..Len(t)} /\ ToSet(s) = {s[i] : i \in 1..Len(s)}
  BY <1>1 DEF ToSet
<1>3. ASSUME NEW i \in 1..Len(t) PROVE i = 1 \/ (i - 1 \in 1..Len(s) /\ t[i] = s[i - 1])
  <2>1. i # 1 => i - 1 \in 1..Len(s) /\ (i - 1) + 1 = i
    BY <1>1
  <2> QED
    BY <1>1, <2>1
<1>4. 1 \in 1..Len(t) /\ \A i \in 1..Len(s) : i + 1 \in 1..Len(t)
  BY <1>1
<1>5. ASSUME NEW i \in 1..Len(t) PROVE t[i] \in ToSet(s) \cup {n}
  BY <1>1, <1>2, <1>3
<1>6. n \in ToSet(t)
  BY <1>1, <1>2, <1>4
<1>7. ASSUME NEW i \in 1..Len(s) PROVE s[i] \in ToSet(t)
  <2>1. i + 1 \in 1..Len(t) /\ t[i + 1] = s[i]
    BY <1>1, <1>4
  <2> QED
    BY <1>2, <2>1
<1>8. ToSet(t) = ToSet(s) \cup {n}
  BY <1>2, <1>5, <1>6, <1>7
<1> QED
  BY <1>8 DEF t

-----------------------------------------------------------------------------
(* Frames and lists as chains *)

FrameChain(s)   == IsChain(up, EnvAddress, dynamic_env, s)
ListChain(e, s) == IsChain(next, Address, FirstOf(e), s)

FramesAreChains ==
  /\ FrameChain(Envs) /\ \A s : FrameChain(s) => Envs = s
  /\ \A e \in EnvAddress :
       ListChain(e, ListOf(e)) /\ \A s : ListChain(e, s) => ListOf(e) = s

SoundLinks == TypeOK /\ Loopless(next, Address) /\ Loopless(up, EnvAddress)

\* The links have types and no loops, so that Envs and Nodes are well defined.
LEMMA EnvsAreChains == SoundLinks => FramesAreChains
<1> SUFFICES ASSUME SoundLinks PROVE FramesAreChains
  OBVIOUS
<1> USE DEF SoundLinks
<1>1. FrameChain(Envs)
  <2> DEFINE D == Address \cup {Static, NULL, Junk}
             from == CHOOSE f : IsWalk(f, up, EnvAddress, D)
  <2>1. dynamic_env \in D /\ EnvAddress \subseteq D /\ \A e \in EnvAddress : up[e] \in D
    BY DEF TypeOK, EnvAddress
  <2>2. Envs = from[dynamic_env]
    BY DEF Envs, IsWalk, EnvAddress
  <2>3. IsWalk(from, up, EnvAddress, D)
    <3> HIDE DEF D
    <3>1. \E f : IsWalk(f, up, EnvAddress, D)
      BY <2>1, WalkExists
    <3> QED
      BY <3>1, Zenon
  <2> HIDE DEF D, from
  <2> QED
    BY <2>1, <2>2, <2>3, WalkIsChain DEF FrameChain
<1>2. ASSUME NEW e \in EnvAddress PROVE ListChain(e, ListOf(e))
  <2> DEFINE D == Address \cup {NULL, Junk}
             from == CHOOSE f : IsWalk(f, next, Address, D)
  <2>1. FirstOf(e) \in D /\ Address \subseteq D /\ \A n \in Address : next[n] \in D
    BY DEF TypeOK, EnvAddress, FirstOf
  <2>2. ListOf(e) = from[FirstOf(e)]
    BY DEF ListOf, Nodes, IsWalk
  <2>3. IsWalk(from, next, Address, D)
    <3> HIDE DEF D
    <3>1. \E f : IsWalk(f, next, Address, D)
      BY <2>1, WalkExists
    <3> QED
      BY <3>1, Zenon
  <2> HIDE DEF D, from
  <2> QED
    BY <2>1, <2>2, <2>3, WalkIsChain DEF ListChain
<1> QED
  BY <1>1, <1>2, ChainUnique DEF FrameChain, ListChain, FramesAreChains

\* In the next state too.
LEMMA EnvsAreChainsNext == SoundLinks' => FramesAreChains'
BY EnvsAreChains, PTL

-----------------------------------------------------------------------------
(* What the invariant says of the frames *)

\* The frames are the records linked from dynamic_env, the static one last; no
\* link of a record leads out of them.
LEMMA FrameFacts ==
  ASSUME AllocInv
  PROVE  /\ SoundLinks /\ FramesAreChains
         /\ EnvSet \subseteq EnvAddress /\ dynamic_env \in EnvSet /\ Static \in EnvSet
         /\ Last(Envs) = Static
         /\ \A e \in EnvSet : up[e] \in EnvSet \cup {NULL}
         /\ \A e \in EnvSet : (e # Static) => up[e] \in EnvSet
         /\ \A a \in EnvAddress : up[a] \in EnvSet \cup {NULL, Junk}
         /\ \A e \in EnvSet : Owned(e) \subseteq Address
<1>1. SoundLinks
  BY DEF AllocInv, LinksInv, SoundLinks
<1>2. FramesAreChains
  BY <1>1, EnvsAreChains
<1>3. PICK s : s = Envs
  OBVIOUS
<1>4. PICK d \in EnvAddress : d = dynamic_env
  BY <1>1 DEF SoundLinks, TypeOK, EnvAddress
<1>5. IsChain(up, EnvAddress, d, s) /\ EnvSet = ToSet(s)
  BY <1>2, <1>3, <1>4 DEF FramesAreChains, FrameChain, EnvSet
<1>6. /\ s # << >> /\ ToSet(s) \subseteq EnvAddress /\ d \in ToSet(s)
      /\ \A n \in ToSet(s) : up[n] \in ToSet(s) \/ up[n] \notin EnvAddress
      /\ \A n \in ToSet(s) : up[n] \notin EnvAddress => n = s[Len(s)]
      /\ Last(s) = s[Len(s)]
  BY <1>5, ChainLinks
<1>7. Static \in ToSet(s) /\ up[Static] = NULL /\ NULL \notin EnvAddress
  BY <1>5, AllocNumbers DEF AllocInv, MemoryInv, Divided, LinksInv, EnvAddress
<1>8. Last(s) = Static
  BY <1>6, <1>7
<1>9. /\ \A n \in ToSet(s) : up[n] \in ToSet(s) \cup {NULL}
      /\ \A n \in ToSet(s) : (n # Static) => up[n] \in ToSet(s)
  <2>1. ASSUME NEW n \in ToSet(s), n # Static PROVE up[n] \in ToSet(s)
    BY <1>6, <1>8, <2>1
  <2> QED
    BY <1>7, <2>1
<1>10. \A a \in EnvAddress : up[a] \in ToSet(s) \cup {NULL, Junk}
  BY <1>5, <1>7, <1>9 DEF AllocInv, LinksInv, EnvAddress
<1>11. ASSUME NEW e \in EnvSet PROVE Owned(e) \subseteq Address
  <2>1. e \in EnvAddress
    BY <1>5, <1>6
  <2>2. ListChain(e, ListOf(e))
    BY <1>2, <2>1 DEF FramesAreChains
  <2> QED
    BY <2>2, ChainLinks DEF ListChain, Owned
<1> QED
  BY <1>1, <1>2, <1>3, <1>4, <1>5, <1>6, <1>7, <1>8, <1>9, <1>10, <1>11

\* Objects belong to frames.
LEMMA OwnedFacts ==
  ASSUME AllocInv
  PROVE  /\ \A e \in EnvSet : Owners[e] = Owned(e)
         /\ \A e, f \in EnvSet : e # f => Owned(e) \cap Owned(f) = {}
         /\ \A e \in EnvSet : Owned(e) \cap EnvSet = {}
BY DEF AllocInv, MemoryInv, Divided, Owners

\* A step that leaves the records of the frames alone leaves the frames alone.
LEMMA SameEnvs ==
  ASSUME AllocInv, SoundLinks', dynamic_env' = dynamic_env,
         \A e \in EnvSet : up'[e] = up[e]
  PROVE  Envs' = Envs
<1>1. PICK s, d : s = Envs /\ d = dynamic_env
  OBVIOUS
<1>2. IsChain(up, EnvAddress, d, s) /\ EnvSet = ToSet(s)
  BY <1>1, FrameFacts DEF FramesAreChains, FrameChain, EnvSet
<1>3. \A i \in 1..Len(s) : s[i] \in EnvSet
  BY <1>2, ChainLinks
<1>4. IsChain(up', EnvAddress, d, s)
  BY <1>2, <1>3, ChainKept
<1>5. \A t : FrameChain(t)' => Envs' = t
  BY EnvsAreChainsNext DEF FramesAreChains
<1> QED
  BY <1>1, <1>4, <1>5 DEF FrameChain

\* One that leaves the nodes of a list alone leaves the list alone.
LEMMA SameList ==
  ASSUME AllocInv, SoundLinks', NEW e \in EnvAddress, FirstOf(e)' = FirstOf(e),
         \A n \in Owned(e) : next'[n] = next[n]
  PROVE  ListOf(e)' = ListOf(e)
<1>1. PICK s, p : s = ListOf(e) /\ p = FirstOf(e)
  OBVIOUS
<1>2. IsChain(next, Address, p, s) /\ Owned(e) = ToSet(s)
  BY <1>1, FrameFacts DEF FramesAreChains, ListChain, Owned
<1>3. \A i \in 1..Len(s) : s[i] \in Owned(e)
  BY <1>2, ChainLinks
<1>4. IsChain(next', Address, p, s)
  BY <1>2, <1>3, ChainKept
<1>5. \A t : ListChain(e, t)' => ListOf(e)' = t
  BY EnvsAreChainsNext DEF FramesAreChains
<1> QED
  BY <1>1, <1>4, <1>5 DEF ListChain

\* What is written inside the block at a leaves the links at other places as
\* they are.
WrittenAt(a, size) ==
  /\ Corrupted(next, NodeSize, a, size) \in [Address -> Address \cup {NULL, Junk}]
  /\ Loopless(Corrupted(next, NodeSize, a, size), Address)
  /\ \A e \in EnvSet : \A n \in Owned(e) \ {a} :
       Corrupted(next, NodeSize, a, size)[n] = next[n]
  /\ Corrupted(up, EnvSize, a, size) \in [EnvAddress -> Address \cup {Static, NULL, Junk}]
  /\ Loopless(Corrupted(up, EnvSize, a, size), EnvAddress)
  /\ \A e \in EnvSet \ {a} : Corrupted(up, EnvSize, a, size)[e] = up[e]
  /\ \A x \in Address : Corrupted(up, EnvSize, a, size)[x] # Junk => x \in EnvSet
  /\ Corrupted(allocated, EnvSize, a, size) \in [EnvAddress -> Address \cup {NULL, Junk}]
  /\ \A e \in EnvSet \ {a} : Corrupted(allocated, EnvSize, a, size)[e] = allocated[e]

\* The functions of the allocator write inside one block only.
LEMMA WriteKeeps ==
  ASSUME AllocInv, NEW a \in Nat, NEW size \in Nat,
         \A c \in blocks : c.base # a => Bytes(c) \cap Span(a, size) = {}
  PROVE  WrittenAt(a, size)
<1>1. /\ next \in [Address -> Address \cup {NULL, Junk}] /\ Loopless(next, Address)
      /\ up \in [EnvAddress -> Address \cup {Static, NULL, Junk}] /\ Loopless(up, EnvAddress)
      /\ allocated \in [EnvAddress -> Address \cup {NULL, Junk}]
  BY DEF AllocInv, LinksInv, TypeOK, EnvAddress
<1>2. Junk \notin Address /\ Junk \notin EnvAddress /\ Static \in EnvAddress
  BY AllocNumbers DEF EnvAddress
<1>3. Divided(EnvSet, Owners, blocks) /\ EnvSet \subseteq EnvAddress
  BY FrameFacts DEF AllocInv, MemoryInv
<1>4. /\ Corrupted(next, NodeSize, a, size) \in [Address -> Address \cup {NULL, Junk}]
      /\ Corrupted(up, EnvSize, a, size)
           \in [EnvAddress -> Address \cup {Static, NULL, Junk}]
      /\ Corrupted(allocated, EnvSize, a, size) \in [EnvAddress -> Address \cup {NULL, Junk}]
  BY <1>1, CorruptedTyped
<1>5. /\ Loopless(Corrupted(next, NodeSize, a, size), Address)
      /\ Loopless(Corrupted(up, EnvSize, a, size), EnvAddress)
  BY <1>1, <1>2, CorruptedLoopless
<1>6. ASSUME NEW e \in EnvSet, NEW n \in Owned(e) \ {a}
      PROVE  Corrupted(next, NodeSize, a, size)[n] = next[n]
  <2>1. n \in Owners[e] /\ n \in Address /\ n \in DOMAIN next
    BY <1>1, OwnedFacts, FrameFacts
  <2>2. \A c \in blocks : c.base = n => Bytes(c) \cap Span(a, size) = {}
    OBVIOUS
  <2> QED
    BY <1>3, <2>1, <2>2, NodesKept
<1>7. ASSUME NEW e \in EnvSet \ {a}
      PROVE  /\ Corrupted(up, EnvSize, a, size)[e] = up[e]
             /\ Corrupted(allocated, EnvSize, a, size)[e] = allocated[e]
  <2>1. e \in EnvAddress /\ e \in DOMAIN up /\ e \in DOMAIN allocated
    BY <1>1, <1>3
  <2>2. \A c \in blocks : c.base = e => Bytes(c) \cap Span(a, size) = {}
    OBVIOUS
  <2> QED
    BY <1>3, <2>1, <2>2, RecordsKept
<1>8. ASSUME NEW x \in Address, Corrupted(up, EnvSize, a, size)[x] # Junk
      PROVE  x \in EnvSet
  <2>1. x \in DOMAIN up
    BY <1>1 DEF EnvAddress
  <2>2. Corrupted(up, EnvSize, a, size)[x] = up[x]
    BY <1>8, <2>1, CorruptedIs
  <2> QED
    BY <1>8, <2>2 DEF AllocInv, LinksInv
<1> QED
  BY <1>4, <1>5, <1>6, <1>7, <1>8 DEF WrittenAt

\* How memory is divided after a step.
LEMMA MemoryAfter ==
  ASSUME NEW F, NEW P, NEW C, P \in [F -> SUBSET Address], Divided(F, P, C),
         EnvSet' = F, blocks' = C, \A e \in F : Owned(e)' = P[e]
  PROVE  MemoryInv'
<1>1. Owners' = P
  BY DEF Owners
<1> QED
  BY <1>1 DEF MemoryInv

-----------------------------------------------------------------------------
(* One lemma for each function: the invariant, and what becomes of the     *)
(* frames.                                                                 *)

\* The parts of the invariant that a step has to show of the links.
LEMMA LinksAfter ==
  ASSUME SoundLinks', up'[Static] = NULL,
         \A a \in Address : up'[a] # Junk => a \in EnvSet',
         \A e \in EnvSet' : allocated'[e] # Junk /\ up'[e] # Junk,
         \A e \in EnvSet' : \A n \in Owned(e)' : next'[n] # Junk,
         doing' = "frame_pop" => dynamic_env' # Static
  PROVE  LinksInv'
BY DEF LinksInv, SoundLinks

\* pfstest_alloc: one node more at the end of the innermost frame's list.
AllocatedTo(d, b) ==
  /\ d = dynamic_env /\ dynamic_env' = d
  /\ blocks' = blocks \cup {b}
  /\ Envs' = Envs
  /\ ListOf(d)' = Append(ListOf(d), b.base)
  /\ \A e \in EnvSet \ {d} : ListOf(e)' = ListOf(e)

\* It keeps the invariant, and nothing else changes.
LEMMA AllocStep ==
  ASSUME AllocInv, NEW size \in Request, alloc(size)
  PROVE  /\ AllocInv'
         /\ \E d \in EnvSet, b \in Free(header_size + size) :
              FreshFor(b, blocks) /\ b.size = header_size + size /\ AllocatedTo(d, b)
<1>1. PICK b \in Free(header_size + size) :
        /\ blocks' = blocks \cup {b}
        /\ next' = Appended(dynamic_env, b.base, b)
        /\ up' = Corrupted(up, EnvSize, b.base, b.size)
        /\ allocated' =
             [Corrupted(allocated, EnvSize, b.base, b.size)
                EXCEPT ![dynamic_env] = IF @ = NULL THEN b.base ELSE @]
  BY DEF alloc
<1>2. /\ doing = "nothing" /\ size # 0 /\ size \in Nat
      /\ dynamic_env' = dynamic_env /\ node' = node /\ doing' = doing /\ stopped' = stopped
  BY AllocNumbers DEF alloc, Idle
<1>3. PICK d \in EnvSet : d = dynamic_env
  BY FrameFacts
<1>4. PICK s : s = ListOf(d)
  OBVIOUS
<1>5. TypeOK /\ SoundLinks /\ Divided(EnvSet, Owners, blocks) /\ EnvSet \subseteq EnvAddress
  BY FrameFacts DEF AllocInv, MemoryInv
<1>6. FreshFor(b, blocks) /\ b.size = header_size + size
  <2>1. header_size + size \in Nat \ {0} /\ blocks \in SUBSET Block
    BY <1>2, <1>5, AllocNumbers DEF TypeOK
  <2> QED
    BY <2>1, FreeIsFresh
<1>7. PICK x \in Address : x = b.base
  BY <1>6 DEF FreshFor, Block
<1>8. x \notin EnvSet /\ \A e \in EnvSet : x \notin Owned(e)
  BY <1>5, <1>6, <1>7, FreshIsUnused, OwnedFacts
<1>9. /\ x \in Nat /\ b.size \in Nat
      /\ \A c \in blocks : Bytes(c) \cap Span(x, b.size) = {}
  <2>1. b \in Block
    BY <1>6 DEF FreshFor
  <2>2. Span(x, b.size) = Bytes(b)
    BY <1>7 DEF Bytes
  <2> QED
    BY <1>6, <1>7, <2>1, <2>2, BlockNumbers DEF FreshFor
<1>9a. WrittenAt(x, b.size)
  BY <1>9, WriteKeeps
<1>10. /\ IsChain(next, Address, FirstOf(d), s) /\ Owned(d) = ToSet(s)
       /\ d \in EnvAddress /\ FirstOf(d) = allocated[d] /\ Nodes(allocated[d]) = s
  BY <1>2, <1>3, <1>4, <1>5, FrameFacts DEF FramesAreChains, ListChain, Owned, ListOf, FirstOf
<1>11. /\ s \in Seq(Address) /\ (s # << >> => Last(s) \in Owned(d))
       /\ allocated[d] # Junk
       /\ allocated[d] = NULL <=> s = << >>
  <2>1. allocated[d] \in Address \cup {NULL, Junk} /\ NULL \notin Address
    BY <1>5, <1>10, AllocNumbers DEF TypeOK, EnvAddress
  <2>2. allocated[d] # Junk
    BY DEF AllocInv, LinksInv
  <2> QED
    BY <1>10, <2>1, <2>2, ChainLinks
<1> DEFINE blank == Corrupted(next, NodeSize, x, b.size)
<1>12. /\ blank \in [Address -> Address \cup {NULL, Junk}] /\ Loopless(blank, Address)
       /\ \A e \in EnvSet : \A n \in Owned(e) : blank[n] = next[n]
  BY <1>8, <1>9a DEF WrittenAt
<1>13. next' = IF s = << >> THEN [blank EXCEPT ![x] = NULL]
               ELSE [blank EXCEPT ![Last(s)] = x, ![x] = NULL]
  BY <1>1, <1>3, <1>7, <1>10 DEF Appended
<1> HIDE DEF blank
<1>14. /\ next' \in [Address -> Address \cup {NULL, Junk}] /\ Loopless(next', Address)
       /\ next'[x] = NULL
       /\ s # << >> => next'[Last(s)] = x
       /\ \A e \in EnvSet : \A n \in Owned(e) :
            s = << >> \/ n # Last(s) => next'[n] = next[n]
  <2>1. CASE s = << >>
    <3>1. next' = [blank EXCEPT ![x] = NULL]
      BY <1>13, <2>1
    <3>2. Loopless(next', Address)
      <4>1. ASSUME NEW S \in SUBSET Address, S # {} PROVE \E m \in S : next'[m] \notin S
        <5>1. PICK m \in S : blank[m] \notin S
          BY <1>12, <4>1 DEF Loopless
        <5> QED
          BY <1>12, <3>1, <5>1, AllocNumbers
      <4> QED
        BY <4>1 DEF Loopless
    <3>3. ASSUME NEW e \in EnvSet, NEW n \in Owned(e) PROVE next'[n] = next[n]
      <4>1. n # x /\ n \in Address
        BY <1>8, FrameFacts
      <4> QED
        BY <1>12, <3>1, <4>1
    <3> QED
      BY <1>12, <2>1, <3>1, <3>2, <3>3
  <2>2. CASE s # << >>
    <3>1. PICK t \in Owned(d) : t = Last(s)
      BY <1>11, <2>2
    <3>2. next' = [blank EXCEPT ![t] = x, ![x] = NULL] /\ t # x /\ t \in Address
      BY <1>8, <1>13, <2>2, <3>1, FrameFacts
    <3>3. Loopless(next', Address)
      <4>1. NULL \notin Address /\ Address \subseteq DOMAIN blank
        BY <1>12, AllocNumbers
      <4> QED
        BY <1>12, <3>2, <4>1, LinkLoopless
    <3>4. ASSUME NEW e \in EnvSet, NEW n \in Owned(e), n # t PROVE next'[n] = next[n]
      <4>1. n # x /\ n \in Address
        BY <1>8, FrameFacts
      <4> QED
        BY <1>12, <3>2, <3>4, <4>1
    <3> QED
      BY <1>12, <2>2, <3>1, <3>2, <3>3, <3>4
  <2> QED
    BY <2>1, <2>2
<1>15. /\ up' \in [Address \cup {Static} -> Address \cup {Static, NULL, Junk}]
       /\ Loopless(up', EnvAddress)
       /\ \A e \in EnvSet : up'[e] = up[e]
       /\ \A a \in Address : up'[a] # Junk => a \in EnvSet
  BY <1>1, <1>7, <1>8, <1>9a DEF WrittenAt, EnvAddress
<1>16. /\ allocated' \in [Address \cup {Static} -> Address \cup {NULL, Junk}]
       /\ \A e \in EnvSet : e # d => allocated'[e] = allocated[e]
       /\ allocated'[d] = IF allocated[d] = NULL THEN x ELSE allocated[d]
  <2> DEFINE old == Corrupted(allocated, EnvSize, x, b.size)
  <2>1. /\ old \in [Address \cup {Static} -> Address \cup {NULL, Junk}]
        /\ \A e \in EnvSet : old[e] = allocated[e]
    BY <1>8, <1>9a DEF WrittenAt, EnvAddress
  <2>2. allocated' = [old EXCEPT ![d] = IF old[d] = NULL THEN x ELSE old[d]]
    BY <1>1, <1>3, <1>7
  <2>3. EnvSet \subseteq Address \cup {Static}
    BY <1>5 DEF EnvAddress
  <2> HIDE DEF old
  <2> QED
    BY <2>1, <2>2, <2>3
<1>17. TypeOK'
  <2>1. blocks' \subseteq Block
    BY <1>1, <1>5, <1>6 DEF TypeOK, FreshFor
  <2> QED
    BY <1>2, <1>5, <1>14, <1>15, <1>16, <2>1 DEF TypeOK
<1>18. SoundLinks'
  BY <1>14, <1>15, <1>17 DEF SoundLinks
<1>19. Envs' = Envs /\ EnvSet' = EnvSet
  BY <1>2, <1>15, <1>18, SameEnvs DEF EnvSet
<1>20. ASSUME NEW e \in EnvSet, e # d PROVE ListOf(e)' = ListOf(e) /\ Owned(e)' = Owned(e)
  <2>1. FirstOf(e)' = FirstOf(e) /\ e \in EnvAddress
    BY <1>2, <1>5, <1>16, <1>20 DEF FirstOf
  <2>2. ASSUME NEW n \in Owned(e) PROVE next'[n] = next[n]
    <3>1. s # << >> => n # Last(s)
      BY <1>11, <1>20, OwnedFacts
    <3> QED
      BY <1>14, <3>1
  <2>3. ListOf(e)' = ListOf(e)
    BY <1>18, <2>1, <2>2, SameList
  <2> QED
    BY <2>3 DEF Owned
<1>21. ListOf(d)' = Append(s, x) /\ Owned(d)' = Owned(d) \cup {x}
  <2>1. \A t : IsChain(next', Address, allocated'[d], t) => ListOf(d)' = t
    <3>1. \A t : ListChain(d, t)' => ListOf(d)' = t
      BY <1>10, <1>18, EnvsAreChainsNext DEF FramesAreChains
    <3>2. FirstOf(d)' = allocated'[d]
      BY <1>2 DEF FirstOf
    <3> QED
      BY <3>1, <3>2 DEF ListChain
  <2>2. IsChain(next', Address, allocated'[d], Append(s, x))
    <3>1. CASE s = << >>
      <4>1. allocated'[d] = x /\ Append(s, x) = <<x>>
        BY <1>11, <1>16, <3>1
      <4>2. IsChain(next', Address, x, <<x>>)
        BY <1>14, AllocNumbers DEF IsChain
      <4> QED
        BY <4>1, <4>2
    <3>2. CASE s # << >>
      <4>1. allocated'[d] = allocated[d]
        BY <1>11, <1>16, <3>2
      <4>2. Last(s) = s[Len(s)] /\ \A i \in 1..Len(s) : s[i] \in Owned(d)
        BY <1>10, <3>2, ChainLinks
      <4>3. /\ \A i \in 1..Len(s) : s[i] # s[Len(s)] => next'[s[i]] = next[s[i]]
            /\ next'[s[Len(s)]] = x /\ next'[x] \notin Address
        BY <1>14, <3>2, <4>2, AllocNumbers
      <4>4. Loopless(next, Address)
        BY <1>5 DEF SoundLinks
      <4>5. IsChain(next, Address, allocated[d], s)
        BY <1>10
      <4>6. IsChain(next', Address, allocated[d], Append(s, x))
        BY <3>2, <4>3, <4>4, <4>5, ChainExtended
      <4> QED
        BY <4>1, <4>6
    <3> QED
      BY <3>1, <3>2
  <2>3. ListOf(d)' = Append(s, x)
    BY <2>1, <2>2
  <2>4. ToSet(Append(s, x)) = ToSet(s) \cup {x}
    BY <1>11, ToSetAppend
  <2> QED
    BY <1>10, <2>3, <2>4 DEF Owned
<1>22. MemoryInv'
  <2> DEFINE P == [Owners EXCEPT ![d] = Owners[d] \cup {x}]
  <2>1. Divided(EnvSet, P, blocks')
    BY <1>1, <1>2, <1>5, <1>6, <1>7, DividedAfterAlloc
  <2>2. P \in [EnvSet -> SUBSET Address]
    BY <2>1 DEF Divided
  <2>3. \A e \in EnvSet : Owned(e)' = P[e]
    BY <1>20, <1>21, OwnedFacts DEF Owners
  <2> HIDE DEF P
  <2> QED
    BY <1>19, <2>1, <2>2, <2>3, MemoryAfter
<1>23. LinksInv'
  <2>1. ASSUME NEW e \in EnvSet PROVE allocated'[e] # Junk /\ up'[e] # Junk
    BY <1>11, <1>15, <1>16, AllocNumbers DEF AllocInv, LinksInv
  <2>2. ASSUME NEW e \in EnvSet, NEW n \in Owned(e)' PROVE next'[n] # Junk
    <3>1. CASE n = x
      BY <1>14, <3>1, AllocNumbers
    <3>2. CASE n \in Owned(e)
      <4>1. next[n] # Junk
        BY <3>2 DEF AllocInv, LinksInv
      <4>2. (s # << >> /\ n = Last(s)) \/ next'[n] = next[n]
        BY <1>14, <3>2
      <4> QED
        BY <1>14, <4>1, <4>2, AllocNumbers
    <3> QED
      BY <1>20, <1>21, <3>1, <3>2
  <2>3. up'[Static] = NULL /\ doing' # "frame_pop"
    BY <1>2, <1>15, FrameFacts DEF AllocInv, LinksInv
  <2> QED
    BY <1>15, <1>18, <1>19, <2>1, <2>2, <2>3, LinksAfter
<1>24. AllocatedTo(d, b)
  BY <1>1, <1>2, <1>3, <1>4, <1>7, <1>19, <1>20, <1>21 DEF AllocatedTo
<1> QED
  BY <1>6, <1>17, <1>22, <1>23, <1>24 DEF AllocInv

\* pfstest_alloc_frame_push: one frame more, which is empty.
Pushed(b) ==
  /\ dynamic_env' = b.base
  /\ blocks' = blocks \cup {b}
  /\ Envs' = <<b.base>> \o Envs
  /\ b.base \in Address \ EnvSet
  /\ ListOf(b.base)' = << >>
  /\ \A e \in EnvSet : ListOf(e)' = ListOf(e)

\* It keeps the invariant, and the other frames keep their lists.
LEMMA PushStep ==
  ASSUME AllocInv, frame_push
  PROVE  /\ AllocInv'
         /\ \E b \in Free(EnvSize) : FreshFor(b, blocks) /\ b.size = EnvSize /\ Pushed(b)
<1>1. PICK b \in Free(EnvSize) :
        /\ blocks' = blocks \cup {b}
        /\ next' = Corrupted(next, NodeSize, b.base, b.size)
        /\ up' = [Corrupted(up, EnvSize, b.base, b.size) EXCEPT ![b.base] = dynamic_env]
        /\ allocated' = [Corrupted(allocated, EnvSize, b.base, b.size) EXCEPT ![b.base] = NULL]
        /\ dynamic_env' = b.base
  BY DEF frame_push
<1>2. doing = "nothing" /\ node' = node /\ doing' = doing /\ stopped' = stopped
  BY DEF frame_push, Idle
<1>3. PICK d \in EnvSet : d = dynamic_env
  BY FrameFacts
<1>4. TypeOK /\ SoundLinks /\ Divided(EnvSet, Owners, blocks) /\ EnvSet \subseteq EnvAddress
  BY FrameFacts DEF AllocInv, MemoryInv
<1>5. FreshFor(b, blocks) /\ b.size = EnvSize
  BY <1>4, FreeIsFresh, AllocNumbers DEF TypeOK
<1>6. PICK x \in Address : x = b.base
  BY <1>5 DEF FreshFor, Block
<1>7. /\ x \notin EnvSet /\ \A e \in EnvSet : x \notin Owned(e)
      /\ x \in EnvAddress /\ d \in EnvAddress
  BY <1>4, <1>5, <1>6, FreshIsUnused, OwnedFacts DEF EnvAddress
<1>8. WrittenAt(x, b.size)
  <2>1. b \in Block
    BY <1>5 DEF FreshFor
  <2>2. Span(x, b.size) = Bytes(b)
    BY <1>6 DEF Bytes
  <2>3. x \in Nat /\ b.size \in Nat /\ \A c \in blocks : Bytes(c) \cap Span(x, b.size) = {}
    BY <1>5, <1>6, <2>1, <2>2, BlockNumbers DEF FreshFor
  <2> QED
    BY <2>3, WriteKeeps
<1>9. /\ next' \in [Address -> Address \cup {NULL, Junk}] /\ Loopless(next', Address)
      /\ \A e \in EnvSet : \A n \in Owned(e) : next'[n] = next[n]
  BY <1>1, <1>6, <1>7, <1>8 DEF WrittenAt
<1>10. /\ up' \in [EnvAddress -> Address \cup {Static, NULL, Junk}]
       /\ Loopless(up', EnvAddress)
       /\ up'[x] = d
       /\ \A e \in EnvSet : up'[e] = up[e]
       /\ \A a \in Address : up'[a] # Junk => a \in EnvSet \/ a = x
  <2> DEFINE old == Corrupted(up, EnvSize, x, b.size)
  <2>1. /\ old \in [EnvAddress -> Address \cup {Static, NULL, Junk}] /\ Loopless(old, EnvAddress)
        /\ \A e \in EnvSet : old[e] = up[e]
        /\ \A a \in Address : old[a] # Junk => a \in EnvSet
    BY <1>7, <1>8 DEF WrittenAt
  <2>2. up' = [old EXCEPT ![x] = d]
    BY <1>1, <1>3, <1>6
  <2>3. ASSUME NEW m \in EnvAddress PROVE old[m] # x
    <3>1. old[m] = Junk \/ m \in EnvSet
      BY <2>1, FrameFacts DEF EnvAddress
    <3>2. m \in EnvSet => up[m] \in EnvSet \cup {NULL}
      BY FrameFacts
    <3> QED
      BY <1>7, <2>1, <3>1, <3>2, AllocNumbers
  <2>4. x # d /\ EnvAddress \subseteq DOMAIN old /\ d \in Address \cup {Static, NULL, Junk}
    BY <1>7, <2>1 DEF EnvAddress
  <2> HIDE DEF old
  <2>5. Loopless(up', EnvAddress)
    BY <2>1, <2>2, <2>3, <2>4, FrontLoopless
  <2>6. up' \in [EnvAddress -> Address \cup {Static, NULL, Junk}]
    BY <2>1, <2>2, <2>4
  <2>7. /\ up'[x] = d /\ \A e \in EnvSet : up'[e] = up[e]
        /\ \A a \in Address : up'[a] # Junk => a \in EnvSet \/ a = x
    BY <1>4, <1>7, <2>1, <2>2 DEF EnvAddress
  <2> QED
    BY <2>5, <2>6, <2>7
<1>11. /\ allocated' \in [EnvAddress -> Address \cup {NULL, Junk}]
       /\ allocated'[x] = NULL
       /\ \A e \in EnvSet : allocated'[e] = allocated[e]
  <2> DEFINE old == Corrupted(allocated, EnvSize, x, b.size)
  <2>1. /\ old \in [EnvAddress -> Address \cup {NULL, Junk}]
        /\ \A e \in EnvSet : old[e] = allocated[e]
    BY <1>7, <1>8 DEF WrittenAt
  <2>2. allocated' = [old EXCEPT ![x] = NULL]
    BY <1>1, <1>6
  <2> HIDE DEF old
  <2> QED
    BY <1>4, <1>7, <2>1, <2>2
<1>12. TypeOK'
  <2>1. blocks' \subseteq Block
    BY <1>1, <1>4, <1>5 DEF TypeOK, FreshFor
  <2>2. dynamic_env' \in Address \cup {Static}
    BY <1>1, <1>6
  <2> QED
    BY <1>2, <1>4, <1>9, <1>10, <1>11, <2>1, <2>2 DEF TypeOK, EnvAddress
<1>13. SoundLinks'
  BY <1>9, <1>10, <1>12 DEF SoundLinks
<1>14. Envs' = <<x>> \o Envs /\ EnvSet' = EnvSet \cup {x}
  <2>1. PICK s : s = Envs
    OBVIOUS
  <2>2. IsChain(up, EnvAddress, d, s) /\ EnvSet = ToSet(s)
    BY <1>3, <2>1, FrameFacts DEF FramesAreChains, FrameChain, EnvSet
  <2>3. \A i \in 1..Len(s) : s[i] \in EnvSet
    BY <2>2, ChainLinks
  <2>4. IsChain(up', EnvAddress, d, s)
    BY <1>10, <2>2, <2>3, ChainKept
  <2>5. IsChain(up', EnvAddress, x, <<x>> \o s)
    BY <1>7, <1>10, <2>4, ChainGrowsInFront
  <2>6. \A t : IsChain(up', EnvAddress, x, t) => Envs' = t
    BY <1>1, <1>6, <1>13, EnvsAreChainsNext DEF FramesAreChains, FrameChain
  <2>7. Envs' = <<x>> \o s
    BY <2>5, <2>6
  <2>8. ToSet(<<x>> \o s) = ToSet(s) \cup {x}
    <3>1. s \in Seq(EnvAddress)
      BY <2>2 DEF IsChain
    <3> QED
      BY <1>7, <3>1, ToSetFront
  <2> QED
    BY <2>1, <2>2, <2>7, <2>8 DEF EnvSet
<1>15. ASSUME NEW e \in EnvSet PROVE ListOf(e)' = ListOf(e) /\ Owned(e)' = Owned(e)
  <2>1. FirstOf(e)' = FirstOf(e) /\ e \in EnvAddress
    BY <1>2, <1>4, <1>11 DEF FirstOf
  <2>2. ListOf(e)' = ListOf(e)
    BY <1>9, <1>13, <2>1, SameList
  <2> QED
    BY <2>2 DEF Owned
<1>16. ListOf(x)' = << >> /\ Owned(x)' = {}
  <2>1. IsChain(next', Address, NULL, ListOf(x)')
    <3>1. ListChain(x, ListOf(x))'
      BY <1>7, <1>13, EnvsAreChainsNext DEF FramesAreChains
    <3>2. FirstOf(x)' = NULL
      BY <1>2, <1>11 DEF FirstOf
    <3> QED
      BY <3>1, <3>2 DEF ListChain
  <2>2. ListOf(x)' = << >> /\ ToSet(ListOf(x)') = {}
    BY <2>1, AllocNumbers, ChainLinks
  <2> QED
    BY <2>2 DEF Owned
<1>17. MemoryInv'
  <2> DEFINE F == EnvSet \cup {x}
             P == [e \in F |-> IF e = x THEN {} ELSE Owners[e]]
  <2>1. Divided(F, P, blocks')
    BY <1>1, <1>4, <1>5, <1>6, DividedAfterPush
  <2>2. P \in [F -> SUBSET Address]
    BY <2>1 DEF Divided
  <2>3. \A e \in F : Owned(e)' = P[e]
    BY <1>15, <1>16, OwnedFacts
  <2>4. EnvSet' = F
    BY <1>14
  <2> HIDE DEF P, F
  <2> QED
    BY <2>1, <2>2, <2>3, <2>4, MemoryAfter
<1>18. LinksInv'
  <2>1. ASSUME NEW e \in EnvSet' PROVE allocated'[e] # Junk /\ up'[e] # Junk
    <3>1. CASE e = x
      BY <1>7, <1>10, <1>11, <3>1, AllocNumbers DEF EnvAddress
    <3>2. CASE e \in EnvSet
      BY <1>10, <1>11, <3>2 DEF AllocInv, LinksInv
    <3> QED
      BY <1>14, <3>1, <3>2
  <2>2. ASSUME NEW e \in EnvSet', NEW n \in Owned(e)' PROVE next'[n] # Junk
    <3>1. e \in EnvSet /\ n \in Owned(e)
      BY <1>14, <1>15, <1>16
    <3> QED
      BY <1>9, <3>1 DEF AllocInv, LinksInv
  <2>3. up'[Static] = NULL /\ doing' # "frame_pop"
    BY <1>2, <1>10, FrameFacts DEF AllocInv, LinksInv
  <2> QED
    BY <1>10, <1>13, <1>14, <2>1, <2>2, <2>3, LinksAfter
<1>19. Pushed(b)
  BY <1>1, <1>6, <1>7, <1>14, <1>15, <1>16 DEF Pushed
<1> QED
  BY <1>5, <1>12, <1>17, <1>18, <1>19 DEF AllocInv

\* The steps that only change what runs leave the frames as they are.
SameFrames ==
  /\ dynamic_env' = dynamic_env /\ blocks' = blocks
  /\ Envs' = Envs
  /\ \A e \in EnvSet : ListOf(e)' = ListOf(e)

\* They keep the invariant.
LEMMA SameFramesStep ==
  ASSUME AllocInv, TypeOK', UNCHANGED <<blocks, next, up, dynamic_env>>,
         \A e \in EnvSet : FirstOf(e)' = FirstOf(e) /\ allocated'[e] # Junk,
         doing' = "frame_pop" => dynamic_env # Static
  PROVE  AllocInv' /\ SameFrames
<1>1. SoundLinks'
  BY FrameFacts DEF SoundLinks
<1>2. Envs' = Envs /\ EnvSet' = EnvSet
  BY <1>1, SameEnvs DEF EnvSet
<1>3. ASSUME NEW e \in EnvSet PROVE ListOf(e)' = ListOf(e) /\ Owned(e)' = Owned(e)
  <2>1. e \in EnvAddress /\ FirstOf(e)' = FirstOf(e)
    BY FrameFacts
  <2>2. ListOf(e)' = ListOf(e)
    BY <1>1, <2>1, SameList
  <2> QED
    BY <2>2 DEF Owned
<1>4. MemoryInv'
  <2>1. Divided(EnvSet, Owners, blocks)
    BY DEF AllocInv, MemoryInv
  <2>2. Owners \in [EnvSet -> SUBSET Address] /\ \A e \in EnvSet : Owned(e)' = Owners[e]
    BY <1>3, <2>1, OwnedFacts DEF Divided
  <2> QED
    BY <1>2, <2>1, <2>2, MemoryAfter
<1>5. LinksInv'
  BY <1>1, <1>2, <1>3, LinksAfter DEF AllocInv, LinksInv
<1> QED
  BY <1>2, <1>3, <1>4, <1>5 DEF AllocInv, SameFrames

\* pfstest_alloc_free_frame is called: what was the list is now to be freed.
LEMMA FreeEnterStep ==
  ASSUME AllocInv, NEW caller \in {"free_frame", "frame_pop"}, FreeEnter(caller)
  PROVE  AllocInv' /\ SameFrames
<1>1. /\ doing = "nothing" /\ doing' = caller /\ node' = allocated[dynamic_env]
      /\ UNCHANGED <<blocks, next, allocated, up, dynamic_env, stopped>>
      /\ caller = "frame_pop" => dynamic_env # Static
  BY DEF FreeEnter, Idle, memory
<1>2. dynamic_env \in EnvSet /\ TypeOK /\ \A e \in EnvSet : allocated[e] # Junk
  BY FrameFacts DEF AllocInv, LinksInv
<1>3. TypeOK'
  BY <1>1, <1>2 DEF TypeOK
<1>4. \A e \in EnvSet : FirstOf(e)' = FirstOf(e) /\ allocated'[e] # Junk
  BY <1>1, <1>2 DEF FirstOf
<1> QED
  BY <1>1, <1>3, <1>4, SameFramesStep

\* The loop has ended: the list is empty.
LEMMA FreeFrameStep ==
  ASSUME AllocInv, free_frame
  PROVE  AllocInv' /\ SameFrames /\ Owned(dynamic_env) = {}
<1>1. /\ doing = "free_frame" /\ node = NULL /\ doing' = "nothing"
      /\ allocated' = [allocated EXCEPT ![dynamic_env] = NULL]
      /\ UNCHANGED <<blocks, next, up, dynamic_env, node, stopped>>
  BY DEF free_frame
<1>2. /\ dynamic_env \in EnvSet /\ TypeOK /\ FramesAreChains /\ EnvSet \subseteq EnvAddress
      /\ \A e \in EnvSet : allocated[e] # Junk
  BY FrameFacts DEF AllocInv, LinksInv
<1>3. /\ allocated'[dynamic_env] = NULL
      /\ \A e \in EnvSet : e # dynamic_env => allocated'[e] = allocated[e]
  BY <1>1, <1>2 DEF TypeOK, EnvAddress
<1>4. TypeOK'
  BY <1>1, <1>2 DEF TypeOK
<1>5. \A e \in EnvSet : FirstOf(e)' = FirstOf(e) /\ allocated'[e] # Junk
  BY <1>1, <1>2, <1>3, AllocNumbers DEF FirstOf
<1>6. Owned(dynamic_env) = {}
  <2>1. FirstOf(dynamic_env) \notin Address
    BY <1>1, AllocNumbers DEF FirstOf
  <2>2. ListChain(dynamic_env, ListOf(dynamic_env))
    BY <1>2 DEF FramesAreChains
  <2> QED
    BY <2>1, <2>2, ChainLinks DEF ListChain, Owned
<1> QED
  BY <1>1, <1>4, <1>5, <1>6, SameFramesStep

\* An iteration: one object less in the innermost frame.
Freed(d, n) ==
  /\ d = dynamic_env /\ dynamic_env' = d
  /\ n \in Owned(d)
  /\ blocks' = {b \in blocks : b.base # n}
  /\ Envs' = Envs
  /\ \A e \in EnvSet \ {d} : ListOf(e)' = ListOf(e)

\* It keeps the invariant, although it overwrites the node before the block goes
\* back: the loop has read node->next by then.
LEMMA FreeStepStep ==
  ASSUME AllocInv, FreeStep
  PROVE  AllocInv' /\ \E d \in EnvSet, n \in Address : Freed(d, n)
<1>1. /\ doing # "nothing" /\ node # NULL /\ node' = next[node]
      /\ next' = Corrupted(next, NodeSize, node, NodeSize + 1)
      /\ up' = Corrupted(up, EnvSize, node, NodeSize + 1)
      /\ allocated' = Corrupted(allocated, EnvSize, node, NodeSize + 1)
      /\ blocks' = {b \in blocks : b.base # node}
      /\ dynamic_env' = dynamic_env /\ doing' = doing /\ stopped' = stopped
  BY DEF FreeStep, corrupt, free
<1>2. PICK d \in EnvSet : d = dynamic_env
  BY FrameFacts
<1>3. PICK s : s = ListOf(d)
  OBVIOUS
<1>4. PICK n \in Address : n = node
  BY <1>1 DEF AllocInv, TypeOK
<1>5. TypeOK /\ SoundLinks /\ Divided(EnvSet, Owners, blocks) /\ EnvSet \subseteq EnvAddress
  BY FrameFacts DEF AllocInv, MemoryInv
<1>6. IsChain(next, Address, n, s) /\ Owned(d) = ToSet(s) /\ FirstOf(d) = n
  BY <1>1, <1>2, <1>3, <1>4, <1>5, FrameFacts
  DEF FramesAreChains, ListChain, Owned, ListOf, FirstOf
<1>7. n \in Owned(d) /\ n \notin EnvSet /\ \A e \in EnvSet : e # d => n \notin Owned(e)
  <2>1. n \in Owned(d)
    BY <1>6, ChainLinks
  <2> QED
    BY <2>1, OwnedFacts
<1>8. WrittenAt(n, NodeSize + 1)
  <2>1. n \in Nat /\ NodeSize + 1 \in Nat
    BY AllocNumbers
  <2>2. ASSUME NEW c \in blocks, c.base # n PROVE Bytes(c) \cap Span(n, NodeSize + 1) = {}
    <3>1. PICK z \in Request \ {0} : HasBlock(blocks, n, header_size + z)
      BY <1>5, <1>7, OwnedFacts DEF Divided
    <3>2. PICK b \in blocks : b.base = n /\ b.size = header_size + z
      BY <3>1 DEF HasBlock
    <3>3. NodeSize + 1 <= b.size /\ b.size \in Nat
      BY <3>2, AllocNumbers
    <3>4. Span(n, NodeSize + 1) \subseteq Bytes(b)
      BY <2>1, <3>2, <3>3 DEF Bytes, Span
    <3>5. Bytes(b) \cap Bytes(c) = {}
      BY <1>5, <2>2, <3>2 DEF Divided
    <3> QED
      BY <3>4, <3>5
  <2> QED
    BY <2>1, <2>2, WriteKeeps
<1>9. /\ next' \in [Address -> Address \cup {NULL, Junk}] /\ Loopless(next', Address)
      /\ \A e \in EnvSet : \A m \in Owned(e) : m # n => next'[m] = next[m]
  BY <1>1, <1>4, <1>8 DEF WrittenAt
<1>10. /\ up' \in [EnvAddress -> Address \cup {Static, NULL, Junk}] /\ Loopless(up', EnvAddress)
       /\ \A e \in EnvSet : up'[e] = up[e]
       /\ \A a \in Address : up'[a] # Junk => a \in EnvSet
  BY <1>1, <1>4, <1>7, <1>8 DEF WrittenAt
<1>11. /\ allocated' \in [EnvAddress -> Address \cup {NULL, Junk}]
       /\ \A e \in EnvSet : allocated'[e] = allocated[e]
  BY <1>1, <1>4, <1>7, <1>8 DEF WrittenAt
<1>12. next[n] \in Address \cup {NULL}
  BY <1>5, <1>7 DEF AllocInv, LinksInv, TypeOK
<1>13. TypeOK'
  BY <1>1, <1>4, <1>5, <1>9, <1>10, <1>11, <1>12 DEF TypeOK, EnvAddress
<1>14. SoundLinks'
  BY <1>9, <1>10, <1>13 DEF SoundLinks
<1>15. Envs' = Envs /\ EnvSet' = EnvSet
  BY <1>1, <1>10, <1>14, SameEnvs DEF EnvSet
<1>16. ASSUME NEW e \in EnvSet, e # d PROVE ListOf(e)' = ListOf(e) /\ Owned(e)' = Owned(e)
  <2>1. FirstOf(e)' = FirstOf(e) /\ e \in EnvAddress
    BY <1>1, <1>2, <1>5, <1>11, <1>16 DEF FirstOf
  <2>2. \A m \in Owned(e) : next'[m] = next[m]
    BY <1>7, <1>9, <1>16
  <2>3. ListOf(e)' = ListOf(e)
    BY <1>14, <2>1, <2>2, SameList
  <2> QED
    BY <2>3 DEF Owned
<1>17. ListOf(d)' = Tail(s) /\ Owned(d)' = Owned(d) \ {n}
  <2> DEFINE t == Tail(s)
  <2>1. s = <<n>> \o t /\ IsChain(next, Address, next[n], t)
    BY <1>6, ChainWithoutFirst
  <2> HIDE DEF t
  <2>2. t \in Seq(Address) /\ ToSet(s) = ToSet(t) \cup {n}
    <3>1. t \in Seq(Address)
      BY <2>1 DEF IsChain
    <3> QED
      BY <2>1, <3>1, ToSetFront
  <2>3. n \notin ToSet(t)
    <3>1. Loopless(next, Address)
      BY <1>5 DEF SoundLinks
    <3>2. \A i, j \in 1..Len(s) : s[i] = s[j] => i = j
      BY <1>6, <3>1, ChainHasNoRepeats
    <3>3. ASSUME NEW i \in 1..Len(t), t[i] = n PROVE FALSE
      <4>1. 1 \in 1..Len(s) /\ i + 1 \in 1..Len(s) /\ s[1] = n /\ s[i + 1] = t[i] /\ i + 1 # 1
        BY <2>1, <2>2
      <4> QED
        BY <3>2, <3>3, <4>1
    <3> QED
      BY <2>2, <3>3 DEF ToSet
  <2>4. IsChain(next', Address, next[n], t)
    <3>1. \A i \in 1..Len(t) : t[i] \in Owned(d) /\ t[i] # n
      BY <1>6, <2>1, <2>2, <2>3, ChainLinks
    <3>2. \A i \in 1..Len(t) : next'[t[i]] = next[t[i]]
      BY <1>9, <3>1
    <3> QED
      BY <2>1, <3>2, ChainKept
  <2>5. ListOf(d)' = t
    <3>1. \A u : ListChain(d, u)' => ListOf(d)' = u
      BY <1>5, <1>14, EnvsAreChainsNext DEF FramesAreChains
    <3>2. FirstOf(d)' = next[n]
      BY <1>1, <1>2, <1>4 DEF FirstOf
    <3> QED
      BY <2>4, <3>1, <3>2 DEF ListChain
  <2>6. Owned(d)' = Owned(d) \ {n}
    BY <1>6, <2>2, <2>3, <2>5 DEF Owned
  <2> QED
    BY <2>5, <2>6 DEF t
<1>18. MemoryInv'
  <2> DEFINE P == [Owners EXCEPT ![d] = Owners[d] \ {n}]
  <2>1. Divided(EnvSet, P, blocks')
    <3>1. n \in Owners[d]
      BY <1>7, OwnedFacts
    <3> QED
      BY <1>1, <1>4, <1>5, <3>1, DividedAfterFree
  <2>2. P \in [EnvSet -> SUBSET Address]
    BY <2>1 DEF Divided
  <2>3. \A e \in EnvSet : Owned(e)' = P[e]
    BY <1>16, <1>17, OwnedFacts DEF Owners
  <2> HIDE DEF P
  <2> QED
    BY <1>15, <2>1, <2>2, <2>3, MemoryAfter
<1>19. LinksInv'
  <2>1. ASSUME NEW e \in EnvSet PROVE allocated'[e] # Junk /\ up'[e] # Junk
    BY <1>10, <1>11 DEF AllocInv, LinksInv
  <2>2. ASSUME NEW e \in EnvSet, NEW m \in Owned(e)' PROVE next'[m] # Junk
    <3>1. m \in Owned(e) /\ m # n
      BY <1>7, <1>16, <1>17
    <3> QED
      BY <1>9, <3>1 DEF AllocInv, LinksInv
  <2>3. up'[Static] = NULL /\ (doing' = "frame_pop" => dynamic_env' # Static)
    BY <1>1, <1>10, FrameFacts DEF AllocInv, LinksInv
  <2> QED
    BY <1>10, <1>14, <1>15, <2>1, <2>2, <2>3, LinksAfter
<1>20. Freed(d, n)
  BY <1>1, <1>2, <1>4, <1>7, <1>15, <1>16 DEF Freed
<1> QED
  BY <1>13, <1>18, <1>19, <1>20 DEF AllocInv

\* The end of pfstest_alloc_frame_pop: one frame less, which was empty.
Popped(d) ==
  /\ d = dynamic_env /\ d # Static
  /\ Owned(d) = {}
  /\ blocks' = {b \in blocks : b.base # d}
  /\ Envs = <<d>> \o Envs'
  /\ EnvSet' = EnvSet \ {d}
  /\ dynamic_env' \in EnvSet'
  /\ \A e \in EnvSet \ {d} : ListOf(e)' = ListOf(e)

\* It keeps the invariant, although the record is overwritten before it is freed.
LEMMA PopStep ==
  ASSUME AllocInv, frame_pop
  PROVE  AllocInv' /\ \E d \in EnvSet : Popped(d)
<1>1. /\ doing = "frame_pop" /\ node = NULL /\ dynamic_env' = up[dynamic_env]
      /\ next' = Corrupted(next, NodeSize, dynamic_env, EnvSize)
      /\ up' = Corrupted(up, EnvSize, dynamic_env, EnvSize)
      /\ allocated' = Corrupted(allocated, EnvSize, dynamic_env, EnvSize)
      /\ blocks' = {b \in blocks : b.base # dynamic_env}
      /\ doing' = "nothing" /\ node' = node /\ stopped' = stopped
  BY DEF frame_pop, corrupt, free
<1>2. PICK d \in EnvSet : d = dynamic_env
  BY FrameFacts
<1>3. PICK s : s = Envs
  OBVIOUS
<1>4. TypeOK /\ SoundLinks /\ Divided(EnvSet, Owners, blocks) /\ EnvSet \subseteq EnvAddress
  BY FrameFacts DEF AllocInv, MemoryInv
<1>5. d # Static /\ d \in Address /\ up[d] \in EnvSet
  BY <1>1, <1>2, <1>4, FrameFacts DEF AllocInv, LinksInv, EnvAddress
<1>6. IsChain(up, EnvAddress, d, s) /\ EnvSet = ToSet(s) /\ d \in EnvAddress
  BY <1>2, <1>3, <1>4, FrameFacts DEF FramesAreChains, FrameChain, EnvSet
<1>7. Owned(d) = {} /\ \A e \in EnvSet : d \notin Owned(e)
  <2>1. FirstOf(d) \notin Address
    BY <1>1, <1>2, AllocNumbers DEF FirstOf
  <2>2. ListChain(d, ListOf(d))
    BY <1>6, FrameFacts DEF FramesAreChains
  <2> QED
    BY <2>1, <2>2, ChainLinks, OwnedFacts DEF ListChain, Owned
<1>8. WrittenAt(d, EnvSize)
  <2>1. d \in Nat /\ EnvSize \in Nat
    BY <1>5, AllocNumbers
  <2>2. ASSUME NEW c \in blocks, c.base # d PROVE Bytes(c) \cap Span(d, EnvSize) = {}
    <3>1. PICK b \in blocks : b.base = d /\ b.size = EnvSize
      BY <1>4, <1>5 DEF Divided, HasBlock
    <3>2. Span(d, EnvSize) = Bytes(b)
      BY <3>1 DEF Bytes
    <3>3. Bytes(b) \cap Bytes(c) = {}
      BY <1>4, <2>2, <3>1 DEF Divided
    <3> QED
      BY <3>2, <3>3
  <2> QED
    BY <2>1, <2>2, WriteKeeps
<1>9. /\ next' \in [Address -> Address \cup {NULL, Junk}] /\ Loopless(next', Address)
      /\ \A e \in EnvSet : \A m \in Owned(e) : next'[m] = next[m]
  BY <1>1, <1>2, <1>7, <1>8 DEF WrittenAt
<1>10. /\ up' \in [EnvAddress -> Address \cup {Static, NULL, Junk}] /\ Loopless(up', EnvAddress)
       /\ \A e \in EnvSet \ {d} : up'[e] = up[e]
       /\ \A a \in Address : up'[a] # Junk => a \in EnvSet
  BY <1>1, <1>2, <1>8 DEF WrittenAt
<1>11. /\ allocated' \in [EnvAddress -> Address \cup {NULL, Junk}]
       /\ \A e \in EnvSet \ {d} : allocated'[e] = allocated[e]
  BY <1>1, <1>2, <1>8 DEF WrittenAt
<1>12. up'[d] = Junk
  <2>1. d \in Address \cap DOMAIN up
    BY <1>4, <1>5 DEF TypeOK
  <2> QED
    BY <1>1, <1>2, <2>1, AllocNumbers, CorruptedThere
<1>13. TypeOK'
  <2>1. dynamic_env' \in Address \cup {Static}
    BY <1>1, <1>2, <1>4, <1>5 DEF EnvAddress
  <2> QED
    BY <1>1, <1>4, <1>9, <1>10, <1>11, <2>1 DEF TypeOK, EnvAddress
<1>14. SoundLinks'
  BY <1>9, <1>10, <1>13 DEF SoundLinks
<1>15. s = <<d>> \o Envs' /\ EnvSet' = EnvSet \ {d} /\ dynamic_env' \in EnvSet'
  <2> DEFINE t == Tail(s)
  <2>1. s = <<d>> \o t /\ IsChain(up, EnvAddress, up[d], t)
    BY <1>6, ChainWithoutFirst
  <2> HIDE DEF t
  <2>2. t \in Seq(EnvAddress) /\ ToSet(s) = ToSet(t) \cup {d}
    <3>1. t \in Seq(EnvAddress)
      BY <2>1 DEF IsChain
    <3> QED
      BY <1>6, <2>1, <3>1, ToSetFront
  <2>3. d \notin ToSet(t)
    <3>1. Loopless(up, EnvAddress)
      BY <1>4 DEF SoundLinks
    <3>2. \A i, j \in 1..Len(s) : s[i] = s[j] => i = j
      BY <1>6, <3>1, ChainHasNoRepeats
    <3>3. ASSUME NEW i \in 1..Len(t), t[i] = d PROVE FALSE
      <4>1. 1 \in 1..Len(s) /\ i + 1 \in 1..Len(s) /\ s[1] = d /\ s[i + 1] = t[i] /\ i + 1 # 1
        BY <2>1, <2>2
      <4> QED
        BY <3>2, <3>3, <4>1
    <3> QED
      BY <2>2, <3>3 DEF ToSet
  <2>4. IsChain(up', EnvAddress, up[d], t)
    <3>1. \A i \in 1..Len(t) : t[i] \in EnvSet \ {d}
      BY <1>6, <2>1, <2>2, <2>3, ChainLinks
    <3>2. \A i \in 1..Len(t) : up'[t[i]] = up[t[i]]
      BY <1>10, <3>1
    <3> QED
      BY <2>1, <3>2, ChainKept
  <2>5. Envs' = t
    <3>1. \A u : FrameChain(u)' => Envs' = u
      BY <1>14, EnvsAreChainsNext DEF FramesAreChains
    <3> QED
      BY <1>1, <1>2, <2>4, <3>1 DEF FrameChain
  <2>6. ToSet(t) = EnvSet \ {d}
    BY <1>6, <2>2, <2>3
  <2>7. up[d] \in ToSet(t)
    BY <1>4, <1>5, <2>1, ChainLinks
  <2> QED
    BY <1>1, <1>2, <2>1, <2>5, <2>6, <2>7 DEF EnvSet
<1>16. ASSUME NEW e \in EnvSet \ {d} PROVE ListOf(e)' = ListOf(e) /\ Owned(e)' = Owned(e)
  <2>1. FirstOf(e)' = FirstOf(e) /\ e \in EnvAddress
    BY <1>1, <1>2, <1>4, <1>11, <1>16 DEF FirstOf
  <2>2. ListOf(e)' = ListOf(e)
    BY <1>9, <1>14, <2>1, SameList
  <2> QED
    BY <2>2 DEF Owned
<1>17. MemoryInv'
  <2> DEFINE F == EnvSet \ {d}
             P == [e \in F |-> Owners[e]]
  <2>1. Divided(F, P, blocks')
    <3>1. Owners[d] = {}
      BY <1>7, OwnedFacts
    <3> QED
      BY <1>1, <1>2, <1>4, <1>5, <3>1, DividedAfterPop
  <2>2. P \in [F -> SUBSET Address]
    BY <2>1 DEF Divided
  <2>3. \A e \in F : Owned(e)' = P[e]
    BY <1>16, OwnedFacts
  <2>4. EnvSet' = F
    BY <1>15
  <2> HIDE DEF P, F
  <2> QED
    BY <2>1, <2>2, <2>3, <2>4, MemoryAfter
<1>18. LinksInv'
  <2>1. ASSUME NEW e \in EnvSet' PROVE allocated'[e] # Junk /\ up'[e] # Junk
    <3>1. e \in EnvSet \ {d}
      BY <1>15
    <3> QED
      BY <1>10, <1>11, <3>1 DEF AllocInv, LinksInv
  <2>2. ASSUME NEW e \in EnvSet', NEW m \in Owned(e)' PROVE next'[m] # Junk
    <3>1. e \in EnvSet \ {d} /\ m \in Owned(e)
      BY <1>15, <1>16
    <3> QED
      BY <1>9, <3>1 DEF AllocInv, LinksInv
  <2>3. up'[Static] = NULL /\ doing' # "frame_pop"
    BY <1>1, <1>5, <1>10, FrameFacts DEF AllocInv, LinksInv
  <2>4. \A a \in Address : up'[a] # Junk => a \in EnvSet'
    BY <1>10, <1>12, <1>15
  <2> QED
    BY <1>14, <2>1, <2>2, <2>3, <2>4, LinksAfter
<1>19. Popped(d)
  BY <1>1, <1>2, <1>3, <1>5, <1>7, <1>15, <1>16 DEF Popped
<1> QED
  BY <1>13, <1>17, <1>18, <1>19 DEF AllocInv

-----------------------------------------------------------------------------
(* The invariant in every state *)

\* At first there is the static record and nothing else.
LEMMA FirstFrames ==
  ASSUME Init
  PROVE  AllocInv /\ Envs = <<Static>> /\ ListOf(Static) = << >>
<1>1. TypeOK
  BY AllocNumbers DEF Init, TypeOK
<1>2. /\ Static \in EnvAddress /\ up[Static] = NULL /\ allocated[Static] = NULL
      /\ NULL \notin EnvAddress /\ Junk \notin EnvAddress
      /\ \A a \in Address : next[a] = Junk /\ up[a] = Junk
      /\ EnvAddress = Address \cup {Static}
  BY AllocNumbers DEF Init, EnvAddress
<1>3. Loopless(next, Address) /\ Loopless(up, EnvAddress)
  <2>1. ASSUME NEW S \in SUBSET Address, S # {} PROVE \E n \in S : next[n] \notin S
    BY <1>2, <2>1
  <2>2. ASSUME NEW S \in SUBSET EnvAddress, S # {} PROVE \E n \in S : up[n] \notin S
    <3>1. \A n \in EnvAddress : up[n] \notin EnvAddress
      BY <1>2
    <3> QED
      BY <2>2, <3>1
  <2> QED
    BY <2>1, <2>2 DEF Loopless
<1>4. SoundLinks
  BY <1>1, <1>3 DEF SoundLinks
<1>5. dynamic_env = Static /\ doing = "nothing" /\ blocks = {}
  BY DEF Init
<1>6. Envs = <<Static>> /\ EnvSet = {Static}
  <2>1. IsChain(up, EnvAddress, Static, <<Static>>)
    BY <1>2 DEF IsChain
  <2>2. Envs = <<Static>>
    BY <1>4, <1>5, <2>1, EnvsAreChains DEF FramesAreChains, FrameChain
  <2>3. ToSet(<<Static>>) = {Static}
    BY DEF ToSet
  <2> QED
    BY <2>2, <2>3 DEF EnvSet
<1>7. ListOf(Static) = << >> /\ Owned(Static) = {}
  <2>1. FirstOf(Static) \notin Address
    BY <1>2, <1>5, AllocNumbers DEF FirstOf
  <2>2. ListChain(Static, ListOf(Static))
    BY <1>2, <1>4, EnvsAreChains DEF FramesAreChains
  <2> QED
    BY <2>1, <2>2, ChainLinks DEF ListChain, Owned
<1>8. MemoryInv
  BY <1>2, <1>5, <1>6, <1>7 DEF MemoryInv, Divided, Owners
<1>9. LinksInv
  BY <1>2, <1>3, <1>5, <1>6, <1>7, AllocNumbers DEF LinksInv
<1> QED
  BY <1>1, <1>6, <1>7, <1>8, <1>9 DEF AllocInv

\* Steps that change nothing, and the one that finds no memory.
LEMMA StopStep ==
  ASSUME AllocInv, UNCHANGED <<memory, dynamic_env, node, doing>>, stopped' \in BOOLEAN
  PROVE  AllocInv' /\ SameFrames /\ doing' = doing
<1>1. UNCHANGED <<blocks, next, allocated, up, dynamic_env, node, doing>>
  BY DEF memory
<1>2. TypeOK'
  BY <1>1 DEF AllocInv, TypeOK
<1>3. \A e \in EnvSet : FirstOf(e)' = FirstOf(e) /\ allocated'[e] # Junk
  BY <1>1 DEF FirstOf, AllocInv, LinksInv
<1>4. doing' = "frame_pop" => dynamic_env # Static
  BY <1>1 DEF AllocInv, LinksInv
<1> QED
  BY <1>1, <1>2, <1>3, <1>4, SameFramesStep

\* What a step does is one of these.
LEMMA StepCases ==
  ASSUME AllocInv, [Next]_vars
  PROVE  \/ \E size \in Request : alloc(size)
         \/ UNCHANGED <<memory, dynamic_env, node, doing>> /\ stopped' \in BOOLEAN
         \/ frame_push
         \/ \E caller \in {"free_frame", "frame_pop"} : FreeEnter(caller)
         \/ FreeStep
         \/ free_frame
         \/ frame_pop
<1>1. stopped \in BOOLEAN
  BY DEF AllocInv, TypeOK
<1>2. CASE UNCHANGED vars
  BY <1>1, <1>2 DEF vars
<1>3. CASE Next
  BY <1>1, <1>2, <1>3 DEF Next, OutOfMemory, alloc_zero
<1> QED
  BY <1>2, <1>3

\* Every step keeps the invariant.
LEMMA NextAllocInv == AllocInv /\ [Next]_vars => AllocInv'
<1> SUFFICES ASSUME AllocInv, [Next]_vars PROVE AllocInv'
  OBVIOUS
<1> QED
  BY StepCases, AllocStep, StopStep, PushStep, FreeEnterStep, FreeStepStep, FreeFrameStep, PopStep

(***************************************************************************)
(* AllocInv: the frames and the objects divide what malloc handed out, the *)
(* links make no loop, and none that is followed was overwritten, whatever *)
(* sizes are asked for and wherever malloc puts the blocks.                *)
(***************************************************************************)
THEOREM AllocInvHolds == Spec => []AllocInv
BY FirstFrames, NextAllocInv, PTL DEF Spec

(***************************************************************************)
(* The links and pointers of the allocator keep their types: the loop of   *)
(* pfstest_alloc_free_frame never follows a pointer it has overwritten.    *)
(***************************************************************************)
THEOREM AllocTypesHold == Spec => []TypeOK
<1>1. AllocInv => TypeOK
  BY DEF AllocInv
<1> QED
  BY <1>1, AllocInvHolds, PTL

\* How memory is divided, as the invariant that is model-checked says it.
LEMMA DividedOwners == AllocInv => EveryBlockHasOneOwner
<1> SUFFICES ASSUME AllocInv PROVE EveryBlockHasOneOwner
  OBVIOUS
<1>1. /\ Last(Envs) = Static /\ FramesAreChains /\ SoundLinks /\ EnvSet \subseteq EnvAddress
      /\ Divided(EnvSet, Owners, blocks)
  BY FrameFacts DEF AllocInv, MemoryInv
<1>2. ASSUME NEW e \in EnvSet PROVE IsInjective(ListOf(e))
  <2>1. PICK s : s = ListOf(e)
    OBVIOUS
  <2>2. IsChain(next, Address, FirstOf(e), s) /\ Loopless(next, Address)
    BY <1>1, <2>1 DEF FramesAreChains, ListChain, SoundLinks
  <2>3. \A i, j \in 1..Len(s) : s[i] = s[j] => i = j
    BY <2>2, ChainHasNoRepeats
  <2>4. DOMAIN s = 1..Len(s)
    BY <2>2 DEF IsChain
  <2> QED
    BY <2>1, <2>3, <2>4 DEF IsInjective
<1>3. \A e \in EnvSet : Owned(e) \cap Records = {}
  BY OwnedFacts DEF Records, EnvSet
<1>4. {b.base : b \in blocks} \subseteq (UNION {Owned(e) : e \in EnvSet}) \cup Records
  <2>1. ASSUME NEW b \in blocks
        PROVE  b.base \in (UNION {Owned(e) : e \in EnvSet}) \cup Records
    <3>1. b.base \in Address
      BY <1>1, BlockNumbers DEF Divided
    <3>2. b.base \in EnvSet \/ \E e \in EnvSet : b.base \in Owned(e)
      BY <1>1, OwnedFacts DEF Divided
    <3> QED
      BY <3>1, <3>2, AllocNumbers DEF Records, EnvSet
  <2> QED
    BY <2>1
<1>5. ASSUME NEW e \in EnvSet, NEW n \in Owned(e) PROVE n \in {b.base : b \in blocks}
  BY <1>1, OwnedFacts DEF Divided, HasBlock
<1>6. ASSUME NEW e \in Records PROVE e \in {b.base : b \in blocks}
  BY <1>1 DEF Records, EnvSet, Divided, HasBlock
<1> QED
  BY <1>1, <1>2, <1>3, <1>4, <1>5, <1>6, OwnedFacts DEF EveryBlockHasOneOwner, EnvSet

(***************************************************************************)
(* EveryBlockHasOneOwner: in every state each block of malloc is the       *)
(* record of one frame or one object of one frame.                         *)
(***************************************************************************)
THEOREM BlocksHaveOneOwner == Spec => []EveryBlockHasOneOwner
BY DividedOwners, AllocInvHolds, PTL

(***************************************************************************)
(* A loop of pfstest_alloc_free_frame that goes on has given a block back. *)
(***************************************************************************)
FreesOn ==
  doing # "nothing" /\ doing' # "nothing" =>
    doing' = doing /\ blocks' \subseteq blocks /\ blocks' # blocks

(***************************************************************************)
(* FreeingEnds rests on this: every round of the loop that frees a frame   *)
(* gives malloc back a block that was handed out, and no block twice, so   *)
(* the loop makes no more rounds than there are blocks.                    *)
(***************************************************************************)
THEOREM FreeingGoesOn == Spec => [][FreesOn]_vars
<1>1. AllocInv /\ [Next]_vars => [FreesOn]_vars
  <2> SUFFICES ASSUME AllocInv, Next PROVE FreesOn \/ UNCHANGED vars
    OBVIOUS
  <2>1. CASE FreeStep
    <3>1. PICK d \in EnvSet, n \in Address : Freed(d, n)
      BY <2>1, FreeStepStep
    <3>2. n \in Owned(d) /\ blocks' = {b \in blocks : b.base # n} /\ doing' = doing
      BY <2>1, <3>1 DEF Freed, FreeStep
    <3>3. Divided(EnvSet, Owners, blocks)
      BY DEF AllocInv, MemoryInv
    <3>4. PICK size \in Request \ {0} : HasBlock(blocks, n, header_size + size)
      BY <3>2, <3>3, OwnedFacts DEF Divided
    <3>5. \E b \in blocks : b.base = n
      BY <3>4 DEF HasBlock
    <3> QED
      BY <3>2, <3>5 DEF FreesOn
  <2>2. CASE doing = "nothing" \/ doing' = "nothing"
    BY <2>2 DEF FreesOn
  <2>3. CASE UNCHANGED vars
    BY <2>3
  <2> QED
    BY <2>1, <2>2, <2>3
    DEF Next, alloc, OutOfMemory, alloc_zero, frame_push, FreeEnter, free_frame, frame_pop, Idle
<1> QED
  BY <1>1, AllocInvHolds, PTL DEF Spec


-----------------------------------------------------------------------------
(* The frames that PFAllocSpec speaks of: those of s, innermost last.      *)

FramesOf(s, M) == [i \in 1..Len(s) |-> M[s[Len(s) + 1 - i]]]

NowFrames == [e \in EnvSet |-> ObjectsOf(e)]

\* The i-th frame is the i-th record from the end.
LEMMA Mirrored ==
  ASSUME NEW n \in Nat, NEW i \in 1..n
  PROVE  n + 1 - i \in 1..n /\ n + 1 + 1 - i = (n + 1 - i) + 1
OBVIOUS

\* A longer sequence is a function on a longer interval.
LEMMA AppendTyped ==
  ASSUME NEW V, NEW c \in Seq(V), NEW v \in V
  PROVE  Append(c, v) \in [1..(Len(c) + 1) -> V]
<1>1. Append(c, v) \in Seq(V)
  OBVIOUS
<1>2. Len(Append(c, v)) = Len(c) + 1
  OBVIOUS
<1>3. \A d \in Seq(V) : d \in [1..Len(d) -> V]
  OBVIOUS
<1> QED
  BY <1>1, <1>2, <1>3, Zenon

\* FramesOf is a sequence, its last element the frame of s[1].
LEMMA FramesSeq ==
  ASSUME NEW N, NEW s \in Seq(N), s # << >>, NEW M
  PROVE  /\ Len(s) \in Nat \ {0}
         /\ DOMAIN FramesOf(s, M) = 1..Len(s) /\ Len(FramesOf(s, M)) = Len(s)
         /\ \A i \in 1..Len(s) : Len(s) + 1 - i \in 1..Len(s)
         /\ \A i \in 1..Len(s) : FramesOf(s, M)[i] = M[s[Len(s) + 1 - i]]
         /\ FramesOf(s, M)[Len(s)] = M[s[1]]
<1>1. Len(s) \in Nat \ {0}
  OBVIOUS
<1>2. \A i \in 1..Len(s) : Len(s) + 1 - i \in 1..Len(s)
  BY <1>1
<1>3. Len(s) \in 1..Len(s) /\ Len(s) + 1 - Len(s) = 1
  BY <1>1
<1>4. DOMAIN FramesOf(s, M) = 1..Len(s)
  BY DEF FramesOf
<1>5. Len(FramesOf(s, M)) = Len(s)
  BY <1>1, <1>4
<1>6. \A i \in 1..Len(s) : FramesOf(s, M)[i] = M[s[Len(s) + 1 - i]]
  BY DEF FramesOf
<1> QED
  BY <1>1, <1>2, <1>3, <1>4, <1>5, <1>6

\* A change of the innermost frame.
LEMMA FramesExcept ==
  ASSUME NEW N, NEW s \in Seq(N), s # << >>,
         \A i, j \in 1..Len(s) : s[i] = s[j] => i = j,
         NEW M, NEW P, NEW v, P[s[1]] = v,
         \A e \in N : e # s[1] => P[e] = M[e]
  PROVE  FramesOf(s, P) = [FramesOf(s, M) EXCEPT ![Len(s)] = v]
<1>1. /\ Len(s) \in Nat \ {0} /\ 1 \in 1..Len(s)
      /\ \A i \in 1..Len(s) : Len(s) + 1 - i \in 1..Len(s) /\ (Len(s) + 1 - i = 1 <=> i = Len(s))
  OBVIOUS
<1>2. ASSUME NEW i \in 1..Len(s), i # Len(s)
      PROVE  P[s[Len(s) + 1 - i]] = M[s[Len(s) + 1 - i]]
  <2>1. PICK j \in 1..Len(s) : j = Len(s) + 1 - i /\ j # 1
    BY <1>1, <1>2
  <2>2. s[j] # s[1] /\ s[j] \in N
    BY <1>1, <2>1
  <2> QED
    BY <2>1, <2>2
<1>3. P[s[Len(s) + 1 - Len(s)]] = v
  <2>1. Len(s) + 1 - Len(s) = 1
    BY <1>1
  <2> QED
    BY <2>1
<1> QED
  BY <1>1, <1>2, <1>3 DEF FramesOf

\* One more.
LEMMA FramesAppend ==
  ASSUME NEW N, NEW s \in Seq(N), s # << >>, NEW x,
         NEW M, NEW P, NEW v, P[x] = v, \A e \in N : P[e] = M[e]
  PROVE  FramesOf(<<x>> \o s, P) = Append(FramesOf(s, M), v)
<1> DEFINE t == <<x>> \o s
           A == FramesOf(t, P)
           B == Append(FramesOf(s, M), v)
<1>1. /\ Len(s) \in Nat \ {0} /\ Len(t) = Len(s) + 1 /\ t[1] = x
      /\ \A i \in 1..Len(s) : t[i + 1] = s[i] /\ s[i] \in N
  OBVIOUS
<1>2. /\ DOMAIN FramesOf(s, M) = 1..Len(s) /\ Len(FramesOf(s, M)) = Len(s)
      /\ \A i \in 1..Len(s) : FramesOf(s, M)[i] = M[s[Len(s) + 1 - i]]
  BY FramesSeq
<1>3. /\ DOMAIN B = 1..(Len(s) + 1) /\ B[Len(s) + 1] = v
      /\ \A i \in 1..Len(s) : B[i] = FramesOf(s, M)[i]
  BY <1>1, <1>2
<1>4. /\ A = [i \in 1..Len(t) |-> P[t[Len(t) + 1 - i]]]
  BY DEF FramesOf
<1>5. ASSUME NEW i \in 1..(Len(s) + 1) PROVE P[t[Len(t) + 1 - i]] = B[i]
  <2>1. CASE i = Len(s) + 1
    <3>1. Len(t) + 1 - i = 1
      BY <1>1, <2>1
    <3> HIDE DEF t, B
    <3> QED
      BY <1>1, <1>3, <2>1, <3>1
  <2>2. CASE i # Len(s) + 1
    <3> HIDE DEF t, B
    <3>0. i \in 1..Len(s)
      BY <1>1, <2>2
    <3>1. PICK j \in 1..Len(s) : j = Len(s) + 1 - i /\ j + 1 = Len(s) + 1 + 1 - i
      BY <1>1, <3>0, Mirrored
    <3>2. Len(t) + 1 - i = j + 1 /\ i \in 1..Len(s)
      BY <1>1, <3>0, <3>1
    <3>3. t[j + 1] = s[j] /\ s[j] \in N
      BY <1>1
    <3>4. B[i] = M[s[j]]
      BY <1>2, <1>3, <3>1, <3>2
    <3> QED
      BY <3>2, <3>3, <3>4
  <2> QED
    BY <2>1, <2>2
<1>6. B = [i \in 1..(Len(s) + 1) |-> B[i]]
  <2> DEFINE V == {M[e] : e \in N} \cup {v}
             C == FramesOf(s, M)
  <2>1. C \in [1..Len(s) -> V]
    <3>1. \A i \in 1..Len(s) : Len(s) + 1 - i \in 1..Len(s)
      BY <1>1
    <3>2. \A i \in 1..Len(s) : M[s[Len(s) + 1 - i]] \in V
      BY <1>1, <3>1
    <3> HIDE DEF V
    <3> QED
      BY <3>2 DEF FramesOf
  <2>2. v \in V
    OBVIOUS
  <2> HIDE DEF V, C
  <2>3. C \in Seq(V) /\ Len(C) = Len(s)
    BY <1>1, <2>1
  <2>4. Append(C, v) \in [1..(Len(s) + 1) -> V]
    BY <2>2, <2>3, AppendTyped
  <2>5. B = Append(C, v)
    BY DEF C
  <2> HIDE DEF B
  <2> QED
    BY <2>4, <2>5
<1> HIDE DEF A, B, t
<1>7. A = B
  BY <1>1, <1>4, <1>5, <1>6
<1> QED
  BY <1>7 DEF A, B, t

\* One less.
LEMMA FramesSubSeq ==
  ASSUME NEW N, NEW s \in Seq(N), s # << >>, NEW x,
         NEW M, NEW P, \A e \in N : P[e] = M[e]
  PROVE  FramesOf(s, P)
           = SubSeq(FramesOf(<<x>> \o s, M), 1, Len(FramesOf(<<x>> \o s, M)) - 1)
<1> DEFINE t == <<x>> \o s
           A == FramesOf(t, M)
<1>1. /\ Len(s) \in Nat \ {0} /\ Len(t) = Len(s) + 1
      /\ \A i \in 1..Len(s) : t[i + 1] = s[i] /\ s[i] \in N
  OBVIOUS
<1>2. /\ DOMAIN A = 1..(Len(s) + 1) /\ Len(A) = Len(s) + 1
      /\ \A i \in 1..(Len(s) + 1) : A[i] = M[t[Len(t) + 1 - i]]
  <2>1. A = [i \in 1..Len(t) |-> M[t[Len(t) + 1 - i]]]
    BY DEF FramesOf
  <2> HIDE DEF A, t
  <2> QED
    BY <1>1, <2>1
<1>3. SubSeq(A, 1, Len(A) - 1) = [i \in 1..Len(s) |-> A[i]]
  <2> HIDE DEF A, t
  <2> QED
    BY <1>1, <1>2
<1>4. ASSUME NEW i \in 1..Len(s) PROVE A[i] = P[s[Len(s) + 1 - i]]
  <2> HIDE DEF A, t
  <2>1. PICK j \in 1..Len(s) : j = Len(s) + 1 - i
    BY <1>1, Mirrored
  <2>2. Len(t) + 1 - i = j + 1 /\ i \in 1..(Len(s) + 1)
    BY <1>1, <2>1
  <2>3. t[j + 1] = s[j] /\ s[j] \in N
    BY <1>1
  <2> QED
    BY <1>2, <2>1, <2>2, <2>3
<1> HIDE DEF A, t
<1>5. FramesOf(s, P) = SubSeq(A, 1, Len(A) - 1)
  BY <1>3, <1>4 DEF FramesOf
<1> QED
  BY <1>5 DEF A, t

FramesRight ==
  /\ Envs \in Seq(EnvSet) /\ Envs # << >> /\ Envs[1] = dynamic_env
  /\ \A i, j \in 1..Len(Envs) : Envs[i] = Envs[j] => i = j
  /\ Frames = FramesOf(Envs, NowFrames)
  /\ \A e \in EnvSet : NowFrames[e] = ObjectsOf(e)

\* The frames of PFAllocSpec follow the records from the outermost inwards.
LEMMA FramesAreRight == AllocInv => FramesRight
<1> SUFFICES ASSUME AllocInv PROVE FramesRight
  OBVIOUS
<1>1. PICK s, d : s = Envs /\ d = dynamic_env
  OBVIOUS
<1>2. IsChain(up, EnvAddress, d, s) /\ EnvSet = ToSet(s) /\ d \in EnvAddress
      /\ Loopless(up, EnvAddress)
  BY <1>1, FrameFacts DEF FramesAreChains, FrameChain, EnvSet, SoundLinks
<1>3. s # << >> /\ \A i \in 1..Len(s) : s[i] \in EnvSet
  BY <1>2, ChainLinks
<1>4. s \in Seq(EnvSet) /\ s[1] = d
  <2>1. s \in Seq(EnvAddress) /\ s[1] = d
    BY <1>2, <1>3 DEF IsChain
  <2> QED
    BY <1>3, <2>1
<1>5. \A i, j \in 1..Len(s) : s[i] = s[j] => i = j
  BY <1>2, ChainHasNoRepeats
<1>6. \A e \in EnvSet : NowFrames[e] = ObjectsOf(e)
  BY DEF NowFrames
<1>7. \A i \in 1..Len(s) : NowFrames[s[Len(s) + 1 - i]] = ObjectsOf(s[Len(s) + 1 - i])
  <2>1. Len(s) \in Nat
    BY <1>4
  <2> QED
    BY <1>3, <1>6, <2>1, Mirrored
<1>8. Frames = FramesOf(s, NowFrames)
  BY <1>1, <1>7 DEF Frames, FramesOf
<1> QED
  BY <1>1, <1>3, <1>4, <1>5, <1>6, <1>8 DEF FramesRight

\* In the next state too.
LEMMA FramesAreRightNext == AllocInv' => FramesRight'
BY FramesAreRight, PTL

\* Blocks are found by where they begin.
BlocksFound == \A b \in blocks : BlockAt(b.base) = b

\* No two blocks begin in the same place.
LEMMA BlocksAreFound == AllocInv => BlocksFound
<1> SUFFICES ASSUME AllocInv, NEW b \in blocks PROVE BlockAt(b.base) = b
  BY DEF BlocksFound
<1>1. blocks \in SUBSET Block /\ \A c, d \in blocks : c # d => Bytes(c) \cap Bytes(d) = {}
  BY DEF AllocInv, MemoryInv, Divided
<1>2. \A c \in blocks : c.base = b.base => c = b
  BY <1>1, OneBlockAtABase
<1> QED
  BY <1>2, Zenon DEF BlockAt

\* In the next state too.
LEMMA BlocksAreFoundNext == AllocInv' => BlocksFound'
BY BlocksAreFound, PTL

\* Every object has a block.
LEMMA ObjectIs ==
  ASSUME AllocInv, NEW e \in EnvSet, NEW n \in Owned(e)
  PROVE  \E c \in blocks, size \in Request \ {0} :
           /\ c.base = n /\ c.size = header_size + size
           /\ ObjectAt(n) = [base |-> n + header_size, size |-> size]
<1>1. PICK size \in Request \ {0} : HasBlock(blocks, n, header_size + size)
  BY OwnedFacts DEF AllocInv, MemoryInv, Divided
<1>2. PICK c \in blocks : c.base = n /\ c.size = header_size + size
  BY <1>1 DEF HasBlock
<1>3. BlockAt(n) = c
  BY <1>2, BlocksAreFound DEF BlocksFound
<1>4. BlockAt(n).size - header_size = size
  BY <1>2, <1>3, AllocNumbers
<1> QED
  BY <1>2, <1>4 DEF ObjectAt

\* A frame whose list and blocks a step leaves alone keeps its objects.
LEMMA SameObjects ==
  ASSUME AllocInv, AllocInv', NEW e \in EnvSet, ListOf(e)' = ListOf(e),
         \A n \in Owned(e) : \A b \in blocks : b.base = n => b \in blocks',
         (doing # "nothing" /\ e = dynamic_env)' <=> (doing # "nothing" /\ e = dynamic_env)
  PROVE  ObjectsOf(e)' = ObjectsOf(e)
<1>1. Owned(e)' = Owned(e)
  BY DEF Owned
<1>2. ASSUME NEW n \in Owned(e) PROVE ObjectAt(n)' = ObjectAt(n)
  <2>1. PICK c \in blocks : c.base = n
    BY ObjectIs
  <2>2. c \in blocks'
    BY <2>1
  <2>3. BlockAt(n) = c /\ BlockAt(n)' = c
    <3>1. BlockAt(c.base) = c
      BY BlocksAreFound DEF BlocksFound
    <3>2. BlockAt(c.base)' = c
      BY <2>2, BlocksAreFoundNext DEF BlocksFound
    <3> QED
      BY <2>1, <3>1, <3>2
  <2> QED
    BY <2>3 DEF ObjectAt
<1>3. {ObjectAt(n) : n \in Owned(e)}' = {ObjectAt(n) : n \in Owned(e)}
  BY <1>1, <1>2
<1> QED
  BY <1>3 DEF ObjectsOf

\* A frame without a list has no objects.
LEMMA NoObjects ==
  ASSUME NEW e
  PROVE  Owned(e) = {} => ObjectsOf(e) = {}
BY DEF ObjectsOf

-----------------------------------------------------------------------------
(* Every step keeps the promise of PFAllocSpec *)

\* pfstest_alloc adds an object that overlaps no other to the innermost frame.
LEMMA AllocKeepsPromise ==
  ASSUME AllocInv, NEW size \in Request, alloc(size)
  PROVE  Promise!Next
<1>1. AllocInv'
  BY AllocStep
<1>2. PICK d \in EnvSet, b \in Free(header_size + size) :
        FreshFor(b, blocks) /\ b.size = header_size + size /\ AllocatedTo(d, b)
  BY AllocStep
<1>3. doing = "nothing" /\ doing' = "nothing" /\ size # 0
  BY DEF alloc, Idle
<1>4. PICK E, s, M, P, x : E = EnvSet /\ s = Envs /\ M = NowFrames /\ P = NowFrames' /\ x = b.base
  OBVIOUS
<1>5. /\ EnvSet' = E /\ Envs' = s /\ d = dynamic_env /\ dynamic_env' = d
      /\ blocks' = blocks \cup {b}
  BY <1>2, <1>4 DEF AllocatedTo, EnvSet
<1>6. /\ s \in Seq(E) /\ s # << >> /\ s[1] = d
      /\ \A i, j \in 1..Len(s) : s[i] = s[j] => i = j
      /\ Frames = FramesOf(s, M) /\ \A e \in E : M[e] = ObjectsOf(e)
  BY <1>4, <1>5, FramesAreRight DEF FramesRight
<1>7. Frames' = FramesOf(s, P) /\ \A e \in E : P[e] = ObjectsOf(e)'
  BY <1>1, <1>4, <1>5, FramesAreRightNext DEF FramesRight
<1>8. ASSUME NEW e \in E, e # d PROVE P[e] = M[e]
  <2>1. ListOf(e)' = ListOf(e)
    BY <1>2, <1>4, <1>8 DEF AllocatedTo
  <2>2. ObjectsOf(e)' = ObjectsOf(e)
    BY <1>1, <1>3, <1>4, <1>5, <2>1, SameObjects
  <2> QED
    BY <1>6, <1>7, <2>2
<1> DEFINE o == [base |-> x + header_size, size |-> size]
<1>9. P[d] = M[d] \cup {o}
  <2>1. Owned(d)' = Owned(d) \cup {x}
    <3>1. ListOf(d)' = Append(ListOf(d), x)
      BY <1>2, <1>4 DEF AllocatedTo
    <3>2. PICK l : l = ListOf(d)
      OBVIOUS
    <3>3. l \in Seq(Address)
      <4>1. d \in EnvAddress /\ FramesAreChains
        BY FrameFacts
      <4> QED
        BY <3>2, <4>1 DEF FramesAreChains, ListChain, IsChain
    <3>4. x \in Address
      BY <1>2, <1>4, BlockNumbers DEF FreshFor
    <3>5. ToSet(Append(l, x)) = ToSet(l) \cup {x}
      BY <3>3, <3>4, ToSetAppend
    <3> QED
      BY <3>1, <3>2, <3>5 DEF Owned
  <2>2. ASSUME NEW n \in Owned(d) PROVE ObjectAt(n)' = ObjectAt(n)
    <3>1. PICK c \in blocks : c.base = n
      BY ObjectIs
    <3>2. BlockAt(c.base) = c
      BY BlocksAreFound DEF BlocksFound
    <3>3. BlockAt(c.base)' = c
      BY <1>1, <1>5, BlocksAreFoundNext DEF BlocksFound
    <3> QED
      BY <3>1, <3>2, <3>3 DEF ObjectAt
  <2>3. ObjectAt(x)' = o
    <3>1. BlockAt(b.base)' = b
      BY <1>1, <1>5, BlocksAreFoundNext DEF BlocksFound
    <3>2. b.size - header_size = size
      BY <1>2, AllocNumbers
    <3> QED
      BY <1>4, <3>1, <3>2 DEF ObjectAt
  <2>4. /\ ObjectsOf(d)' = {ObjectAt(n) : n \in Owned(d)}'
        /\ ObjectsOf(d) = {ObjectAt(n) : n \in Owned(d)}
    BY <1>3 DEF ObjectsOf
  <2> HIDE DEF o
  <2>5. ObjectsOf(d)' = ObjectsOf(d) \cup {o}
    BY <2>1, <2>2, <2>3, <2>4
  <2> QED
    BY <1>4, <1>6, <1>7, <2>5
<1> HIDE DEF o
<1>10. Frames' = [Frames EXCEPT ![Len(Frames)] = Frames[Len(Frames)] \cup {o}]
  <2>1. Frames' = [Frames EXCEPT ![Len(s)] = M[d] \cup {o}]
    BY <1>6, <1>7, <1>8, <1>9, FramesExcept
  <2>2. Len(Frames) = Len(s) /\ Frames[Len(s)] = M[d]
    BY <1>6, FramesSeq
  <2> QED
    BY <2>1, <2>2
<1>11. o \in [base : Address, size : Request \ {0}]
  <2>1. b.base \in Address /\ b.base + (header_size + size) <= MemSize
    BY <1>2 DEF Free
  <2>2. size \in Nat \ {0} /\ header_size \in Nat /\ MemSize \in Nat /\ x \in Nat
        /\ x + (header_size + size) <= MemSize
    BY <1>3, <1>4, <2>1, AllocNumbers
  <2>3. x + header_size \in Address
    BY <2>2 DEF Address
  <2> QED
    BY <1>3, <2>3 DEF o
<1>12. ASSUME NEW p \in Promise!Live PROVE Promise!Bytes(o) \cap Promise!Bytes(p) = {}
  <2>1. PICK i \in 1..Len(s) : p \in Frames[i]
    BY <1>6, FramesSeq DEF Promise!Live
  <2>2. PICK e \in EnvSet : p \in ObjectsOf(e)
    <3>1. PICK j \in 1..Len(s) : Frames[i] = M[s[j]]
      BY <1>6, FramesSeq
    <3>2. s[j] \in E
      BY <1>6
    <3> QED
      BY <1>4, <1>6, <2>1, <3>1, <3>2
  <2>3. PICK n \in Owned(e) : p = ObjectAt(n)
    BY <1>3, <2>2 DEF ObjectsOf
  <2>4. PICK c \in blocks, z \in Request \ {0} :
          c.base = n /\ c.size = header_size + z /\ p = [base |-> n + header_size, size |-> z]
    BY <2>3, ObjectIs
  <2>5. z \in Nat /\ size \in Nat /\ header_size \in Nat /\ x \in Nat /\ n \in Nat
    <3>1. c \in Block
      BY DEF AllocInv, TypeOK
    <3>2. b \in Block
      BY <1>2 DEF FreshFor
    <3> QED
      BY <1>4, <2>4, <3>1, <3>2, AllocNumbers, BlockNumbers
  <2>6. Promise!Bytes(p) \subseteq Bytes(c)
    BY <2>4, <2>5 DEF Promise!Bytes, Bytes, Span
  <2>7. Promise!Bytes(o) \subseteq Bytes(b)
    BY <1>2, <1>4, <2>5 DEF o, Promise!Bytes, Bytes, Span
  <2>8. Bytes(b) \cap Bytes(c) = {}
    BY <1>2 DEF FreshFor
  <2> QED
    BY <2>6, <2>7, <2>8
<1>13. Promise!Alloc(o)
  BY <1>10, <1>12, Zenon DEF Promise!Alloc
<1> QED
  BY <1>11, <1>13, Zenon DEF Promise!Next

\* pfstest_alloc_frame_push adds a frame without objects.
LEMMA PushKeepsPromise ==
  ASSUME AllocInv, frame_push
  PROVE  Promise!Next
<1>1. AllocInv'
  BY PushStep
<1>2. PICK b : Pushed(b)
  BY PushStep
<1>3. doing = "nothing" /\ doing' = "nothing"
  BY DEF frame_push, Idle
<1>4. PICK E, s, M, P, x : E = EnvSet /\ s = Envs /\ M = NowFrames /\ P = NowFrames' /\ x = b.base
  OBVIOUS
<1>5. s \in Seq(E) /\ s # << >> /\ Frames = FramesOf(s, M) /\ \A e \in E : M[e] = ObjectsOf(e)
  BY <1>4, FramesAreRight DEF FramesRight
<1>6. Envs' = <<x>> \o s /\ EnvSet' = E \cup {x} /\ x \notin E
  <2>1. Envs' = <<x>> \o s /\ x \in Address \ E
    BY <1>2, <1>4 DEF Pushed
  <2>2. s \in Seq(EnvAddress) /\ E = ToSet(s) /\ x \in EnvAddress
    BY <1>4, <2>1, FrameFacts DEF FramesAreChains, FrameChain, IsChain, EnvSet, EnvAddress
  <2>3. ToSet(<<x>> \o s) = E \cup {x}
    BY <2>2, ToSetFront
  <2> QED
    BY <2>1, <2>3 DEF EnvSet
<1>7. Frames' = FramesOf(<<x>> \o s, P) /\ \A e \in E \cup {x} : P[e] = ObjectsOf(e)'
  BY <1>1, <1>4, <1>6, FramesAreRightNext DEF FramesRight
<1>8. ASSUME NEW e \in E PROVE P[e] = M[e]
  <2>1. ListOf(e)' = ListOf(e) /\ blocks' = blocks \cup {b}
    BY <1>2, <1>4 DEF Pushed
  <2>2. ObjectsOf(e)' = ObjectsOf(e)
    BY <1>1, <1>3, <1>4, <2>1, SameObjects
  <2> QED
    BY <1>5, <1>7, <2>2
<1>9. P[x] = {}
  <2>1. ListOf(x)' = << >>
    BY <1>2, <1>4 DEF Pushed
  <2>2. Owned(x)' = {}
    <3>1. ToSet(<< >>) = {}
      BY DEF ToSet
    <3> QED
      BY <2>1, <3>1 DEF Owned
  <2>3. ObjectsOf(x)' = {}
    BY <2>2 DEF ObjectsOf
  <2> QED
    BY <1>7, <2>3
<1>10. Frames' = Append(Frames, {})
  BY <1>5, <1>7, <1>8, <1>9, FramesAppend
<1> QED
  BY <1>10, Zenon DEF Promise!Next, Promise!Push

\* pfstest_alloc_frame_pop takes the innermost frame away.
LEMMA PopKeepsPromise ==
  ASSUME AllocInv, frame_pop
  PROVE  Promise!Next
<1>1. AllocInv'
  BY PopStep
<1>2. PICK d \in EnvSet : Popped(d)
  BY PopStep
<1>3. doing' = "nothing" /\ d = dynamic_env
  BY <1>2 DEF frame_pop, Popped
<1>4. PICK E, s, t, M, P :
        E = EnvSet /\ s = Envs /\ t = Envs' /\ M = NowFrames /\ P = NowFrames'
  OBVIOUS
<1>5. s = <<d>> \o t /\ EnvSet' = E \ {d}
  BY <1>2, <1>4 DEF Popped
<1>6. s \in Seq(E) /\ Frames = FramesOf(s, M) /\ \A e \in E : M[e] = ObjectsOf(e)
  BY <1>4, FramesAreRight DEF FramesRight
<1>7. t \in Seq(E \ {d}) /\ t # << >> /\ Frames' = FramesOf(t, P)
      /\ \A e \in E \ {d} : P[e] = ObjectsOf(e)'
  BY <1>1, <1>4, <1>5, FramesAreRightNext DEF FramesRight
<1>8. ASSUME NEW e \in E \ {d} PROVE P[e] = M[e]
  <2>1. /\ ListOf(e)' = ListOf(e) /\ e \in EnvSet /\ Owned(e) \cap EnvSet = {}
        /\ blocks' = {b \in blocks : b.base # d}
    BY <1>2, <1>4, OwnedFacts DEF Popped
  <2>2. \A n \in Owned(e) : \A b \in blocks : b.base = n => b \in blocks'
    BY <2>1
  <2>3. (doing # "nothing" /\ e = dynamic_env)' <=> (doing # "nothing" /\ e = dynamic_env)
    BY <1>3
  <2>4. ObjectsOf(e)' = ObjectsOf(e)
    BY <1>1, <2>1, <2>2, <2>3, SameObjects
  <2> QED
    BY <1>6, <1>7, <2>4
<1>9. Frames' = SubSeq(Frames, 1, Len(Frames) - 1)
  BY <1>5, <1>6, <1>7, <1>8, FramesSubSeq
<1>10. Len(Frames) > 1
  <2>1. Len(t) \in Nat \ {0}
    BY <1>7
  <2>2. Len(s) = Len(t) + 1 /\ s # << >>
    BY <1>5, <1>7
  <2>3. Len(Frames) = Len(s)
    BY <1>6, <2>2, FramesSeq
  <2> QED
    BY <2>1, <2>2, <2>3
<1> QED
  BY <1>9, <1>10, Zenon DEF Promise!Next, Promise!Pop

\* The steps after which the innermost frame has no objects, and the others
\* have theirs.
LEMMA EmptyingKeepsPromise ==
  ASSUME AllocInv, AllocInv', NEW d, d = dynamic_env, dynamic_env' = d,
         Envs' = Envs, ObjectsOf(d)' = {},
         \A e \in EnvSet : e # d => ObjectsOf(e)' = ObjectsOf(e)
  PROVE  Frames' = [Frames EXCEPT ![Len(Frames)] = {}]
<1>1. PICK E, s, M, P : E = EnvSet /\ s = Envs /\ M = NowFrames /\ P = NowFrames'
  OBVIOUS
<1>2. EnvSet' = E /\ Envs' = s
  BY <1>1 DEF EnvSet
<1>3. /\ s \in Seq(E) /\ s # << >> /\ s[1] = d
      /\ \A i, j \in 1..Len(s) : s[i] = s[j] => i = j
      /\ Frames = FramesOf(s, M) /\ \A e \in E : M[e] = ObjectsOf(e)
  BY <1>1, FramesAreRight DEF FramesRight
<1>4. Frames' = FramesOf(s, P) /\ \A e \in E : P[e] = ObjectsOf(e)'
  BY <1>1, <1>2, FramesAreRightNext DEF FramesRight
<1>5. P[d] = {} /\ \A e \in E : e # d => P[e] = M[e]
  BY <1>1, <1>3, <1>4, FrameFacts
<1>6. Frames' = [Frames EXCEPT ![Len(s)] = {}]
  BY <1>3, <1>4, <1>5, FramesExcept
<1>7. Len(Frames) = Len(s)
  BY <1>3, FramesSeq
<1> QED
  BY <1>6, <1>7

\* When the innermost frame is to be freed its objects are gone.
LEMMA FreeEnterKeepsPromise ==
  ASSUME AllocInv, NEW caller \in {"free_frame", "frame_pop"}, FreeEnter(caller)
  PROVE  Promise!Next
<1>1. AllocInv' /\ SameFrames
  BY FreeEnterStep
<1>2. doing = "nothing" /\ doing' # "nothing"
  BY DEF FreeEnter, Idle
<1>3. PICK d : d = dynamic_env
  OBVIOUS
<1>4. dynamic_env' = d /\ Envs' = Envs /\ blocks' = blocks
  BY <1>1, <1>3 DEF SameFrames
<1>5. ObjectsOf(d)' = {}
  BY <1>2, <1>4 DEF ObjectsOf
<1>6. ASSUME NEW e \in EnvSet, e # d PROVE ObjectsOf(e)' = ObjectsOf(e)
  <2>1. ListOf(e)' = ListOf(e)
    BY <1>1 DEF SameFrames
  <2> QED
    BY <1>1, <1>2, <1>3, <1>4, <1>6, <2>1, SameObjects
<1>7. Frames' = [Frames EXCEPT ![Len(Frames)] = {}]
  BY <1>1, <1>3, <1>4, <1>5, <1>6, EmptyingKeepsPromise
<1> QED
  BY <1>7, Zenon DEF Promise!Next, Promise!FreeFrame

\* An iteration gives no other object back.
LEMMA FreeStepKeepsPromise ==
  ASSUME AllocInv, FreeStep
  PROVE  Promise!Next
<1>1. AllocInv'
  BY FreeStepStep
<1>2. PICK d \in EnvSet, n \in Address : Freed(d, n)
  BY FreeStepStep
<1>3. doing # "nothing" /\ doing' # "nothing"
  BY DEF FreeStep
<1>4. /\ d = dynamic_env /\ dynamic_env' = d /\ Envs' = Envs /\ n \in Owned(d)
      /\ blocks' = {b \in blocks : b.base # n}
  BY <1>2 DEF Freed
<1>5. ObjectsOf(d)' = {}
  BY <1>3, <1>4 DEF ObjectsOf
<1>6. ASSUME NEW e \in EnvSet, e # d PROVE ObjectsOf(e)' = ObjectsOf(e)
  <2>1. ListOf(e)' = ListOf(e) /\ n \notin Owned(e)
    BY <1>2, <1>4, <1>6, OwnedFacts DEF Freed
  <2>2. \A m \in Owned(e) : \A b \in blocks : b.base = m => b \in blocks'
    BY <1>4, <2>1
  <2>3. (doing # "nothing" /\ e = dynamic_env)' <=> (doing # "nothing" /\ e = dynamic_env)
    BY <1>4, <1>6
  <2> QED
    BY <1>1, <2>1, <2>2, <2>3, SameObjects
<1>7. Frames' = [Frames EXCEPT ![Len(Frames)] = {}]
  BY <1>1, <1>4, <1>5, <1>6, EmptyingKeepsPromise
<1> QED
  BY <1>7, Zenon DEF Promise!Next, Promise!FreeFrame

\* After the loop the frame is empty.
LEMMA FreeFrameKeepsPromise ==
  ASSUME AllocInv, free_frame
  PROVE  Promise!Next
<1>1. AllocInv' /\ SameFrames
  BY FreeFrameStep
<1>2. doing = "free_frame" /\ doing' = "nothing"
  BY DEF free_frame
<1>3. PICK d \in EnvSet : d = dynamic_env
  BY FrameFacts
<1>4. dynamic_env' = d /\ Envs' = Envs /\ blocks' = blocks
  BY <1>1, <1>3 DEF SameFrames
<1>5. ObjectsOf(d)' = {}
  <2>1. Owned(d) = {} /\ ListOf(d)' = ListOf(d)
    BY <1>1, <1>3, FreeFrameStep DEF SameFrames
  <2>2. Owned(d)' = {}
    BY <2>1 DEF Owned
  <2> QED
    BY <2>2 DEF ObjectsOf
<1>6. ASSUME NEW e \in EnvSet, e # d PROVE ObjectsOf(e)' = ObjectsOf(e)
  <2>1. ListOf(e)' = ListOf(e)
    BY <1>1 DEF SameFrames
  <2> QED
    BY <1>1, <1>2, <1>3, <1>4, <1>6, <2>1, SameObjects
<1>7. Frames' = [Frames EXCEPT ![Len(Frames)] = {}]
  BY <1>1, <1>3, <1>4, <1>5, <1>6, EmptyingKeepsPromise
<1> QED
  BY <1>7, Zenon DEF Promise!Next, Promise!FreeFrame

\* Nothing changes otherwise.
LEMMA StopKeepsPromise ==
  ASSUME AllocInv, UNCHANGED <<memory, dynamic_env, node, doing>>, stopped' \in BOOLEAN
  PROVE  UNCHANGED Frames
<1>1. AllocInv' /\ SameFrames /\ doing' = doing
  BY StopStep
<1>2. PICK E, s, M, P : E = EnvSet /\ s = Envs /\ M = NowFrames /\ P = NowFrames'
  OBVIOUS
<1>3. EnvSet' = E /\ Envs' = s /\ dynamic_env' = dynamic_env /\ blocks' = blocks
  BY <1>1, <1>2 DEF SameFrames, EnvSet
<1>4. ASSUME NEW e \in E PROVE ObjectsOf(e)' = ObjectsOf(e)
  <2>1. ListOf(e)' = ListOf(e)
    BY <1>1, <1>2 DEF SameFrames
  <2> QED
    BY <1>1, <1>2, <1>3, <2>1, SameObjects
<1>5. P = M
  BY <1>2, <1>3, <1>4 DEF NowFrames
<1>6. Frames = FramesOf(s, M) /\ Frames' = FramesOf(s, P)
  BY <1>1, <1>2, <1>3, FramesAreRight, FramesAreRightNext DEF FramesRight
<1> QED
  BY <1>5, <1>6

\* Every step is a step of PFAllocSpec or changes no frame.
LEMMA StepKeepsPromise == AllocInv /\ [Next]_vars => [Promise!Next]_Frames
<1> SUFFICES ASSUME AllocInv, [Next]_vars PROVE Promise!Next \/ UNCHANGED Frames
  OBVIOUS
<1> QED
  BY StepCases, AllocKeepsPromise, PushKeepsPromise, PopKeepsPromise, StopKeepsPromise,
     FreeEnterKeepsPromise, FreeStepKeepsPromise, FreeFrameKeepsPromise

\* At first there is one frame, without objects.
LEMMA StartsAsPromised == Init => Promise!Init
<1> SUFFICES ASSUME Init PROVE Frames = << {} >>
  BY Zenon DEF Promise!Init
<1>1. Envs = <<Static>> /\ ListOf(Static) = << >>
  BY FirstFrames
<1>2. ObjectsOf(Static) = {}
  <2>1. ToSet(<< >>) = {}
    BY DEF ToSet
  <2> QED
    BY <1>1, <2>1, NoObjects DEF Owned
<1>3. Len(Envs) = 1 /\ \A i \in 1..1 : Envs[1 + 1 - i] = Static
  BY <1>1
<1>4. Frames = [i \in 1..1 |-> {}]
  BY <1>2, <1>3 DEF Frames
<1> QED
  BY <1>4

(***************************************************************************)
(* ImplementsAlloc: the allocator over malloc keeps the promise of         *)
(* PFAllocSpec in every behaviour: an object overlaps no other object that *)
(* is alive, and only the innermost frame loses its objects.               *)
(***************************************************************************)
THEOREM MallocImplementsAlloc == Spec => ImplementsAlloc
BY StartsAsPromised, StepKeepsPromise, AllocInvHolds, PTL
DEF Spec, ImplementsAlloc, Promise!Spec
=============================================================================
