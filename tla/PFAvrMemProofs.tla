--------------------------- MODULE PFAvrMemProofs ---------------------------
(***************************************************************************)
(* Proofs about PFAvrMem for every size of the memory and whatever the     *)
(* stack and the heap write.  UntouchedInv is what the gauge relies on in  *)
(* any case: a byte that neither the stack nor the heap has ever reached   *)
(* holds the pattern.  ExactInv is what makes its readings exact as long   *)
(* as no byte in use looks free.                                           *)
(***************************************************************************)
EXTENDS PFAvrMem, PFInduction

\* The history is in order, and the heap ends below the stack pointer's RAM.
RangeInv ==
  /\ mem \in [Addr -> Nat]
  /\ sp \in Addr /\ brk \in Addr
  /\ low \in Nat /\ lowest \in Nat /\ high \in Addr
  /\ lowest <= low /\ low <= sp + 1 /\ brk <= high
  /\ max_stack_used \in Nat
  /\ lookalikes \in Nat
  /\ clobbered \in BOOLEAN

UntouchedInv == \A a \in Addr : high <= a /\ a < lowest => Free(mem, a)

\* The free bytes are those between the heap and the stack; what the stack has
\* lost of its greatest depth by refills is in max_stack_used.
ExactInv ==
  lookalikes = 0 /\ ~clobbered =>
    /\ \A a \in Addr : Free(mem, a) <=> high <= a /\ a < low
    /\ max_stack_used <= Size - lowest
    /\ low = lowest \/ max_stack_used = Size - lowest

GaugeInv == RangeInv /\ UntouchedInv /\ ExactInv

-----------------------------------------------------------------------------
\* Max and Min of the sets the gauge takes them of.
LEMMA GreatestNatural ==
  ASSUME NEW N \in Nat, NEW T \in SUBSET (0..N), T # {}
  PROVE  Max(T) \in T /\ \A x \in T : x <= Max(T)
<1> DEFINE U == {N - x : x \in T}
<1>1. U \in SUBSET Nat /\ U # {}
  <2>1. \A x \in T : N - x \in Nat
    OBVIOUS
  <2> QED
    BY <2>1, Zenon
<1>2. PICK m \in U : \A n \in U : m <= n
  <2> HIDE DEF U
  <2> QED
    BY <1>1, LeastNatural
<1>3. PICK x \in T : m = N - x
  OBVIOUS
<1>4. ASSUME NEW y \in T PROVE x >= y
  <2>1. N - y \in U
    OBVIOUS
  <2>2. m <= N - y
    BY <1>2, <2>1
  <2> QED
    BY <1>3, <2>2
<1> QED
  BY <1>3, <1>4 DEF Max

\* The larger of two numbers.
LEMMA LargerOfTwo ==
  ASSUME NEW a \in Nat, NEW b \in Nat
  PROVE  Max({a, b}) = IF a >= b THEN a ELSE b
BY DEF Max

\* The smaller of two numbers.
LEMMA SmallerOfTwo ==
  ASSUME NEW a \in Nat, NEW b \in Nat
  PROVE  Min({a, b}) = IF a <= b THEN a ELSE b
BY DEF Min

\* What the addresses and the pattern are.
LEMMA AddrFacts ==
  /\ Size \in Nat /\ Size >= 2 /\ NULL \notin 0 .. Size
  /\ \A a \in Int : a \in Addr <=> 0 <= a /\ a < Size
  /\ \A a \in Addr : get_fill_char(a) \in Nat /\ get_fill_char(a) # Other
BY AvrMemAssumption DEF AvrMemAssumption, Addr, get_fill_char, Other

-----------------------------------------------------------------------------
(***************************************************************************)
(* What find_stack_high_water_mark finds: the byte above the highest four  *)
(* free bytes in a row.                                                    *)
(***************************************************************************)
LEMMA NoRow ==
  ASSUME NEW m, NEW start, Rows(m, start) = {}
  PROVE  find_stack_high_water_mark(m, start) = NULL
BY DEF find_stack_high_water_mark

\* The mark is above a row, and no row is above it.
LEMMA MarkFacts ==
  ASSUME NEW m, NEW start \in Addr, NEW r \in Rows(m, start)
  PROVE  /\ find_stack_high_water_mark(m, start) \in Nat
         /\ find_stack_high_water_mark(m, start) # NULL
         /\ find_stack_high_water_mark(m, start) <= start + 1
         /\ r + 4 <= find_stack_high_water_mark(m, start)
         /\ find_stack_high_water_mark(m, start) - 4 \in Rows(m, start)
<1> DEFINE rows == Rows(m, start)
<1>1. rows \in SUBSET (0..start) /\ rows # {} /\ \A p \in rows : p + 3 <= start
  BY DEF Rows
<1>2. start \in Nat /\ start < Size
  BY AddrFacts DEF Addr
<1> HIDE DEF rows
<1>3. Max(rows) \in rows /\ \A x \in rows : x <= Max(rows)
  BY <1>1, <1>2, GreatestNatural
<1>4. find_stack_high_water_mark(m, start) = Max(rows) + 4
  BY <1>1 DEF find_stack_high_water_mark, rows
<1>5. r \in rows
  BY DEF rows
<1>6. PICK x \in rows : x = Max(rows)
  BY <1>3
<1>7. x \in Nat /\ x + 3 <= start /\ r <= x
  BY <1>1, <1>2, <1>3, <1>5, <1>6
<1> DEFINE mark == find_stack_high_water_mark(m, start)
<1> HIDE DEF mark
<1>8. mark = x + 4
  BY <1>4, <1>6 DEF mark
<1>9. mark \in Nat /\ mark # NULL /\ mark <= start + 1 /\ r + 4 <= mark /\ mark - 4 = x
  <2>1. r \in Nat /\ Size \in Nat
    BY <1>1, <1>2, <1>5, AddrFacts
  <2>2. mark \in 0..Size /\ mark \in Nat
    BY <1>2, <1>7, <1>8, <2>1
  <2>3. mark # NULL
    BY <2>2, AddrFacts
  <2> QED
    BY <1>2, <1>7, <1>8, <2>1, <2>2, <2>3
<1>10. mark - 4 \in Rows(m, start)
  BY <1>9, Zenon DEF rows
<1> QED
  BY <1>9, <1>10 DEF mark

\* If the free bytes are those from f up to u, the mark is u if it is one.
LEMMA MarkOfRange ==
  ASSUME NEW m, NEW start \in Addr, NEW f \in Nat, NEW u \in Nat, u <= start + 1,
         \A a \in Addr : Free(m, a) <=> f <= a /\ a < u
  PROVE  find_stack_high_water_mark(m, start) = IF f + 4 <= u THEN u ELSE NULL
<1>1. start \in Nat /\ start < Size
  BY AddrFacts DEF Addr
<1>2. ASSUME NEW p \in Rows(m, start) PROVE f <= p /\ p + 4 <= u
  <2>1. p \in Nat /\ p + 3 <= start /\ Free(m, p) /\ Free(m, p + 3)
    BY <1>1 DEF Rows
  <2>2. p \in Addr /\ p + 3 \in Addr
    BY <1>1, <2>1, AddrFacts
  <2> QED
    BY <2>1, <2>2
<1>3. CASE f + 4 <= u
  <2>1. u - 4 \in 0..start /\ u - 4 + 3 <= start
    BY <1>1, <1>3
  <2>2. ASSUME NEW i \in u - 4 .. u - 4 + 3 PROVE Free(m, i)
    <3>1. i \in Addr /\ f <= i /\ i < u
      BY <1>1, <1>3, AddrFacts
    <3> QED
      BY <3>1
  <2>3. u - 4 \in Rows(m, start)
    BY <2>1, <2>2 DEF Rows
  <2>4. PICK h \in Nat : h = find_stack_high_water_mark(m, start) /\ u - 4 + 4 <= h /\ h - 4 \in Rows(m, start)
    BY <2>3, MarkFacts
  <2>5. h - 4 + 4 <= u
    BY <1>2, <2>4
  <2> QED
    BY <1>3, <2>4, <2>5
<1>4. CASE ~(f + 4 <= u)
  <2>1. Rows(m, start) = {}
    <3> SUFFICES ASSUME NEW p \in Rows(m, start) PROVE FALSE
      OBVIOUS
    <3>1. p \in Nat
      BY <1>1 DEF Rows
    <3> QED
      BY <1>2, <1>4, <3>1
  <2> QED
    BY <1>4, <2>1, NoRow
<1> QED
  BY <1>3, <1>4

-----------------------------------------------------------------------------
\* The mark a reset finds.
mark == find_stack_high_water_mark(mem, sp)

\* A mark is above a row of four, so in 4..sp + 1.
LEMMA MarkTyped ==
  ASSUME RangeInv
  PROVE  mark = NULL \/ (mark \in Nat /\ 4 <= mark /\ mark <= sp + 1)
<1>1. CASE Rows(mem, sp) = {}
  BY <1>1, NoRow DEF mark
<1>2. CASE Rows(mem, sp) # {}
  <2>1. PICK r \in Rows(mem, sp) : TRUE
    BY <1>2
  <2>2. sp \in Addr /\ sp \in Nat /\ r \in Nat
    BY <2>1, AddrFacts DEF RangeInv, Addr, Rows
  <2>3. mark \in Nat /\ mark <= sp + 1 /\ r + 4 <= mark
    BY <2>2, MarkFacts DEF mark
  <2> QED
    BY <2>2, <2>3
<1> QED
  BY <1>1, <1>2

\* The memory above the mark has the pattern, the reading is recorded.
Refilled ==
  /\ mem' \in [Addr -> Nat]
  /\ \A a \in Addr :
       mem'[a] = IF (mark = NULL \/ mark <= a) /\ a <= sp
                 THEN get_fill_char(a) ELSE mem[a]
  /\ clobbered' = (clobbered \/ mark = NULL)
  /\ mark = NULL => max_stack_used' = max_stack_used
  /\ mark # NULL => max_stack_used' = IF Size - mark >= max_stack_used
                                      THEN Size - mark ELSE max_stack_used
  /\ low' = sp + 1
  /\ UNCHANGED <<sp, brk, lowest, high, lookalikes>>

\* What a reset writes, and what it records.
LEMMA ResetFacts ==
  ASSUME RangeInv, reset_stack_usage
  PROVE  Refilled
<1>1. sp \in Nat /\ sp < Size /\ Size \in Nat /\ max_stack_used \in Nat /\ 0 \in Nat
      /\ mem \in [Addr -> Nat] /\ \A a \in Addr : a \in Nat
  BY AddrFacts DEF RangeInv, Addr
<1>2. mark = NULL \/ (mark \in Nat /\ mark <= sp + 1)
  BY MarkTyped
<1>3. /\ mem' = fill_to_sp(mem, IF mark = NULL THEN 0 ELSE mark)
      /\ clobbered' = (clobbered \/ mark = NULL)
  BY Zenon DEF reset_stack_usage, _pfstest_avr_fill_unused_stack, mark
<1>4. /\ mem' \in [Addr -> Nat]
      /\ \A a \in Addr :
           mem'[a] = IF (mark = NULL \/ mark <= a) /\ a <= sp
                     THEN get_fill_char(a) ELSE mem[a]
  <2>1. \A a \in Addr : get_fill_char(a) \in Nat
    BY AddrFacts
  <2> QED
    BY <1>1, <1>2, <1>3, <2>1 DEF fill_to_sp
<1>5. max_stack_used' = Max({_pfstest_avr_mem_usage(mem).stack, max_stack_used})
      /\ low' = sp + 1
      /\ UNCHANGED <<sp, brk, lowest, high, lookalikes>>
  BY DEF reset_stack_usage
<1>6. mark = NULL => _pfstest_avr_mem_usage(mem).stack = 0
  BY DEF _pfstest_avr_mem_usage, mark
<1>7. mark # NULL => _pfstest_avr_mem_usage(mem).stack = Size - mark
  BY DEF _pfstest_avr_mem_usage, mark
<1>8. mark = NULL => max_stack_used' = max_stack_used
  BY <1>1, <1>5, <1>6, LargerOfTwo
<1>9. ASSUME mark # NULL
      PROVE  max_stack_used' = IF Size - mark >= max_stack_used
                               THEN Size - mark ELSE max_stack_used
  <2>1. Size - mark \in Nat
    BY <1>1, <1>2, <1>9
  <2> QED
    BY <1>1, <1>5, <1>7, <1>9, <2>1, LargerOfTwo
<1> QED
  BY <1>3, <1>4, <1>5, <1>8, <1>9 DEF Refilled

\* A byte of the stack is written.
Pushed(v) ==
  /\ sp > 0 /\ sp' = sp - 1
  /\ mem' = [mem EXCEPT ![sp] = v] /\ v \in Nat
  /\ low' = IF low <= sp THEN low ELSE sp
  /\ lowest' = IF lowest <= sp THEN lowest ELSE sp
  /\ lookalikes' \in Nat
  /\ lookalikes' = 0 => v = Other /\ lookalikes = 0
  /\ UNCHANGED <<brk, max_stack_used, high, clobbered>>

\* What a write to the stack or to the heap changes.
LEMMA PushFacts ==
  ASSUME RangeInv, NEW v \in {get_fill_char(sp), Other}, Push(v)
  PROVE  Pushed(v)
<1>1. sp \in Addr /\ sp \in Nat /\ low \in Nat /\ lowest \in Nat /\ lookalikes \in Nat
  BY AddrFacts DEF RangeInv, Addr
<1>2. lookalikes' \in Nat /\ (lookalikes' = 0 => v = Other /\ lookalikes = 0)
  BY <1>1 DEF Push, NoteLookalike
<1>3. v \in Nat
  BY <1>1, AddrFacts DEF Other
<1> QED
  BY <1>1, <1>2, <1>3, SmallerOfTwo DEF Push, Pushed

\* A byte of the heap is written.
Grown(v) ==
  /\ brk < sp /\ brk' = brk + 1
  /\ mem' = [mem EXCEPT ![brk] = v] /\ v \in Nat
  /\ high' = IF high >= brk + 1 THEN high ELSE brk + 1
  /\ lookalikes' \in Nat
  /\ lookalikes' = 0 => v = Other /\ lookalikes = 0
  /\ UNCHANGED <<sp, max_stack_used, low, lowest, clobbered>>

\* The same for a byte of the heap.
LEMMA HeapGrowFacts ==
  ASSUME RangeInv, NEW v \in {get_fill_char(brk), Other}, HeapGrow(v)
  PROVE  Grown(v)
<1>1. brk \in Addr /\ brk \in Nat /\ high \in Nat /\ lookalikes \in Nat /\ brk + 1 \in Nat
  BY AddrFacts DEF RangeInv, Addr
<1>2. lookalikes' \in Nat /\ (lookalikes' = 0 => v = Other /\ lookalikes = 0)
  BY <1>1 DEF HeapGrow, NoteLookalike
<1>3. v \in Nat
  BY <1>1, AddrFacts DEF Other
<1> QED
  BY <1>1, <1>2, <1>3, LargerOfTwo DEF HeapGrow, Grown

-----------------------------------------------------------------------------
\* The parts of the invariant, step by step.
LEMMA RangeStep == RangeInv /\ [Next]_vars => RangeInv'
<1> SUFFICES ASSUME RangeInv, [Next]_vars PROVE RangeInv'
  OBVIOUS
<1>1. ASSUME NEW v \in {get_fill_char(sp), Other}, Push(v) PROVE RangeInv'
  <2>1. Pushed(v)
    BY <1>1, PushFacts
  <2> QED
    BY <2>1, AddrFacts DEF RangeInv, Pushed, Addr
<1>2. CASE Pop
  BY <1>2, AddrFacts DEF Pop, RangeInv, Addr
<1>3. ASSUME NEW v \in {get_fill_char(brk), Other}, HeapGrow(v) PROVE RangeInv'
  <2>1. Grown(v)
    BY <1>3, HeapGrowFacts
  <2> QED
    BY <2>1, AddrFacts DEF RangeInv, Grown, Addr
<1>4. CASE HeapShrink
  BY <1>4, AddrFacts DEF HeapShrink, RangeInv, Addr
<1>5. CASE reset_stack_usage
  <2>1. mark = NULL \/ (mark \in Nat /\ mark <= sp + 1)
    BY MarkTyped
  <2>2. Refilled
    BY <1>5, ResetFacts
  <2>3. max_stack_used' \in Nat
    BY <2>1, <2>2, AddrFacts DEF RangeInv, Refilled, Addr
  <2> QED
    BY <2>2, <2>3, AddrFacts DEF RangeInv, Refilled, Addr
<1>6. CASE UNCHANGED vars
  BY <1>6 DEF vars, RangeInv
<1> QED
  BY <1>1, <1>2, <1>3, <1>4, <1>5, <1>6 DEF Next

\* What nobody has reached keeps the pattern.
LEMMA UntouchedStep == RangeInv /\ UntouchedInv /\ [Next]_vars => UntouchedInv'
<1> SUFFICES ASSUME RangeInv, UntouchedInv, [Next]_vars, NEW a \in Addr,
                    high' <= a, a < lowest'
             PROVE  mem'[a] = get_fill_char(a)
  BY DEF UntouchedInv, Free
<1>0. high <= a /\ a < lowest => mem[a] = get_fill_char(a)
  BY DEF UntouchedInv, Free
<1>1. ASSUME NEW v \in {get_fill_char(sp), Other}, Push(v)
      PROVE  mem'[a] = get_fill_char(a)
  <2>1. Pushed(v)
    BY <1>1, PushFacts
  <2> QED
    BY <1>0, <2>1, AddrFacts DEF RangeInv, Pushed, Addr
<1>2. CASE Pop
  BY <1>0, <1>2 DEF Pop
<1>3. ASSUME NEW v \in {get_fill_char(brk), Other}, HeapGrow(v)
      PROVE  mem'[a] = get_fill_char(a)
  <2>1. Grown(v)
    BY <1>3, HeapGrowFacts
  <2> QED
    BY <1>0, <2>1, AddrFacts DEF RangeInv, Grown, Addr
<1>4. CASE HeapShrink
  BY <1>0, <1>4 DEF HeapShrink
<1>5. CASE reset_stack_usage
  <2>1. Refilled
    BY <1>5, ResetFacts
  <2> QED
    BY <1>0, <2>1 DEF Refilled
<1>6. CASE UNCHANGED vars
  BY <1>0, <1>6 DEF vars
<1> QED
  BY <1>1, <1>2, <1>3, <1>4, <1>5, <1>6 DEF Next

\* While the memory is exact the mark is the deepest byte of the stack.
LEMMA MarkIsExact ==
  ASSUME RangeInv, ExactInv, lookalikes = 0, ~clobbered
  PROVE  mark = IF high + 4 <= low THEN low ELSE NULL
<1>1. sp \in Addr /\ high \in Nat /\ low \in Nat /\ low <= sp + 1
  BY AddrFacts DEF RangeInv, Addr
<1>2. \A a \in Addr : Free(mem, a) <=> high <= a /\ a < low
  BY DEF ExactInv
<1> QED
  BY <1>1, <1>2, MarkOfRange DEF mark

\* The free bytes are those between heap and stack after every step.
LEMMA ExactStep == RangeInv /\ ExactInv /\ [Next]_vars => ExactInv'
<1> DEFINE E(a) == Free(mem, a) <=> high <= a /\ a < low
           D == /\ max_stack_used <= Size - lowest
                /\ low = lowest \/ max_stack_used = Size - lowest
<1> SUFFICES ASSUME RangeInv, ExactInv, [Next]_vars, lookalikes' = 0, ~clobbered'
             PROVE  (\A a \in Addr : E(a)') /\ D'
  BY DEF ExactInv
<1>0. ASSUME lookalikes = 0, ~clobbered PROVE (\A a \in Addr : E(a)) /\ D
  BY <1>0 DEF ExactInv
<1> HIDE DEF E, D
<1>1. ASSUME NEW v \in {get_fill_char(sp), Other}, Push(v)
      PROVE  (\A a \in Addr : E(a)') /\ D'
  <2>1. Pushed(v) /\ v = Other /\ (\A a \in Addr : E(a)) /\ D
    <3>1. Pushed(v)
      BY <1>1, PushFacts
    <3> QED
      BY <1>0, <3>1 DEF Pushed
  <2>2. ASSUME NEW a \in Addr PROVE E(a)'
    <3>1. (mem'[a] = get_fill_char(a)) <=> (mem[a] = get_fill_char(a) /\ a # sp)
      BY <2>1, AddrFacts DEF RangeInv, Pushed
    <3> QED
      BY <2>1, <3>1, AddrFacts DEF RangeInv, Pushed, Addr, E, Free
  <2>3. D'
    BY <2>1, AddrFacts DEF RangeInv, Pushed, Addr, D
  <2> QED
    BY <2>2, <2>3
<1>2. CASE Pop
  BY <1>0, <1>2 DEF Pop, E, D, Free
<1>3. ASSUME NEW v \in {get_fill_char(brk), Other}, HeapGrow(v)
      PROVE  (\A a \in Addr : E(a)') /\ D'
  <2>1. Grown(v) /\ v = Other /\ (\A a \in Addr : E(a)) /\ D
    <3>1. Grown(v)
      BY <1>3, HeapGrowFacts
    <3> QED
      BY <1>0, <3>1 DEF Grown
  <2>2. ASSUME NEW a \in Addr PROVE E(a)'
    <3>1. (mem'[a] = get_fill_char(a)) <=> (mem[a] = get_fill_char(a) /\ a # brk)
      BY <2>1, AddrFacts DEF RangeInv, Grown
    <3> QED
      BY <2>1, <3>1, AddrFacts DEF RangeInv, Grown, Addr, E, Free
  <2>3. D'
    BY <2>1 DEF Grown, D
  <2> QED
    BY <2>2, <2>3
<1>4. CASE HeapShrink
  BY <1>0, <1>4 DEF HeapShrink, E, D, Free
<1>5. CASE reset_stack_usage
  <2>1. Refilled /\ lookalikes = 0 /\ ~clobbered /\ mark # NULL
    <3>1. Refilled
      BY <1>5, ResetFacts
    <3> QED
      BY <3>1 DEF Refilled
  <2>2. high + 4 <= low /\ mark = low
    BY <2>1, MarkIsExact
  <2>3. ASSUME NEW a \in Addr PROVE E(a)'
    <3>1. E(a)
      BY <1>0, <2>1
    <3> QED
      BY <2>1, <2>2, <3>1, AddrFacts DEF RangeInv, Refilled, Addr, E, Free
  <2>4. D'
    <3>1. D
      BY <1>0, <2>1
    <3>2. max_stack_used' = IF Size - low >= max_stack_used THEN Size - low ELSE max_stack_used
      BY <2>1, <2>2 DEF Refilled
    <3>3. lowest' = lowest
      BY <2>1 DEF Refilled
    <3> QED
      BY <3>1, <3>2, <3>3, AddrFacts DEF RangeInv, D
  <2> QED
    BY <2>3, <2>4
<1>6. CASE UNCHANGED vars
  BY <1>0, <1>6 DEF vars, E, D, Free
<1> QED
  BY <1>1, <1>2, <1>3, <1>4, <1>5, <1>6 DEF Next

\* The start of main fills everything up to the stack pointer.
LEMMA InitGauge == Init => GaugeInv
<1> SUFFICES ASSUME Init PROVE GaugeInv
  OBVIOUS
<1>1. /\ sp \in Addr /\ 0 \in Addr /\ mem \in [Addr -> Nat]
      /\ \A a \in Addr : mem[a] = IF a <= sp THEN get_fill_char(a) ELSE Other
  <2>1. sp \in Addr /\ 0 \in Addr
    BY AddrFacts DEF Init
  <2>2. \A a \in Addr : 0 <= a /\ get_fill_char(a) \in Nat
    BY AddrFacts DEF Addr
  <2> QED
    BY <2>1, <2>2 DEF Init, fill_to_sp, Other
<1>2. /\ brk = 0 /\ max_stack_used = 0 /\ low = sp + 1 /\ lowest = sp + 1
      /\ high = 0 /\ lookalikes = 0 /\ clobbered = FALSE
  BY DEF Init
<1>3. sp \in Nat /\ sp < Size
  BY <1>1, AddrFacts DEF Addr
<1>4. RangeInv
  <2>1. clobbered \in BOOLEAN
    BY <1>2, Zenon
  <2>2. brk \in Addr /\ high \in Addr
    BY <1>1, <1>2, Zenon
  <2>3. low \in Nat /\ lowest \in Nat /\ lowest <= low /\ low <= sp + 1 /\ brk <= high
        /\ max_stack_used \in Nat /\ lookalikes \in Nat
    BY <1>2, <1>3
  <2> QED
    BY <1>1, <2>1, <2>2, <2>3 DEF RangeInv
<1>5. ASSUME NEW a \in Addr PROVE Free(mem, a) <=> high <= a /\ a < low
  <2>1. a \in Nat /\ get_fill_char(a) # Other
    BY AddrFacts DEF Addr
  <2> QED
    BY <1>1, <1>2, <1>3, <2>1 DEF Free
<1>6. UntouchedInv /\ ExactInv
  BY <1>2, <1>3, <1>5, AddrFacts DEF UntouchedInv, ExactInv
<1> QED
  BY <1>4, <1>6 DEF GaugeInv

(***************************************************************************)
(* The invariant of the gauge: bytes nobody has reached hold the pattern,  *)
(* and as long as no byte in use looks free no other byte does.            *)
(***************************************************************************)
THEOREM GaugeInvHolds == Spec => []GaugeInv
<1>1. GaugeInv /\ [Next]_vars => GaugeInv'
  BY RangeStep, UntouchedStep, ExactStep DEF GaugeInv
<1> QED
  BY <1>1, InitGauge, PTL DEF Spec

-----------------------------------------------------------------------------
\* The mark of apart stack and heap is neither below the stack's deepest byte
\* nor above the stack pointer, whatever the bytes look like.
LEMMA MarkSparesData ==
  ASSUME RangeInv, UntouchedInv, AlwaysApart
  PROVE  mark # NULL /\ mark \in Nat /\ lowest <= mark /\ mark <= sp + 1
<1>1. /\ sp \in Addr /\ sp \in Nat /\ sp < Size /\ high \in Nat /\ lowest \in Nat
      /\ lowest <= sp + 1 /\ high + 4 <= lowest
  BY AddrFacts DEF RangeInv, Addr, AlwaysApart
<1>2. \A i \in lowest - 4 .. lowest - 4 + 3 : Free(mem, i)
  <2>1. ASSUME NEW i \in lowest - 4 .. lowest - 4 + 3
        PROVE  i \in Addr /\ high <= i /\ i < lowest
    BY <1>1, AddrFacts
  <2> QED
    BY <2>1 DEF UntouchedInv
<1>3. lowest - 4 \in Rows(mem, sp)
  BY <1>1, <1>2 DEF Rows
<1>4. mark \in Nat /\ mark # NULL /\ mark <= sp + 1 /\ lowest - 4 + 4 <= mark
  BY <1>1, <1>3, MarkFacts DEF mark
<1> QED
  BY <1>1, <1>4

\* The heap's reading under a mark.
LEMMA HeapIsExact ==
  ASSUME NEW m, NEW top \in Nat, NEW h \in Nat, h <= top + 1,
         \A p \in 1..top : Free(m, p) <=> h <= p
  PROVE  find_heap_high_water_mark(m, top) = IF h <= 1 THEN 0 ELSE h
<1> DEFINE used == {p \in 1..top : ~Free(m, p)}
<1>1. used = {p \in 1..top : p < h}
  OBVIOUS
<1>2. find_heap_high_water_mark(m, top) = IF used = {} THEN 0 ELSE Max(used) + 1
  BY DEF find_heap_high_water_mark
<1>3. CASE h <= 1
  BY <1>1, <1>2, <1>3
<1>4. CASE ~(h <= 1)
  <2>1. h - 1 \in used /\ used \in SUBSET (0..top)
    BY <1>1, <1>4
  <2>2. \A p \in used : p \in Nat /\ p <= h - 1
    BY <1>1
  <2> HIDE DEF used
  <2>3. Max(used) \in used /\ \A x \in used : x <= Max(used)
    BY <2>1, GreatestNatural
  <2>4. Max(used) = h - 1
    <3>1. PICK x \in used : x = Max(used)
      BY <2>3
    <3>2. x \in Nat /\ x <= h - 1 /\ h - 1 <= x
      BY <2>1, <2>2, <2>3, <3>1
    <3> QED
      BY <3>1, <3>2
  <2> QED
    BY <1>2, <1>4, <2>1, <2>4
<1> QED
  BY <1>3, <1>4

\* What a reading is made of.
LEMMA UsageFacts ==
  /\ _pfstest_avr_mem_usage(mem).collision <=> mark = NULL
  /\ mark # NULL =>
       /\ _pfstest_avr_mem_usage(mem).stack = Size - mark
       /\ _pfstest_avr_mem_usage(mem).heap = find_heap_high_water_mark(mem, mark - 1)
BY DEF _pfstest_avr_mem_usage, mark

(***************************************************************************)
(* ReadingIsRight: exact readings as long as no byte in use looks free,    *)
(* no false collision and no reading out of bounds whatever they look      *)
(* like, for memories of any size.                                         *)
(***************************************************************************)
LEMMA ReadingFollows == GaugeInv => ReadingIsRight
<1> SUFFICES ASSUME GaugeInv, ~clobbered
             PROVE  LET usage == _pfstest_avr_mem_usage(mem)
                    IN  /\ AlwaysApart => /\ ~usage.collision
                                          /\ usage.stack \in Size - sp - 1 .. Size - lowest
                        /\ lookalikes = 0 =>
                             /\ usage.collision <=> ~Apart
                             /\ Apart => /\ usage.stack = Size - low
                                         /\ usage.heap = IF high <= 1 THEN 0 ELSE high
  BY DEF ReadingIsRight
<1> DEFINE usage == _pfstest_avr_mem_usage(mem)
<1>0. RangeInv /\ UntouchedInv /\ ExactInv
  BY DEF GaugeInv
<1>1. /\ sp \in Nat /\ sp < Size /\ Size \in Nat
      /\ high \in Nat /\ low \in Nat /\ lowest \in Nat
      /\ lowest <= low /\ low <= sp + 1
  BY <1>0, AddrFacts DEF RangeInv, Addr
<1>2. /\ usage.collision <=> mark = NULL
      /\ mark # NULL => /\ usage.stack = Size - mark
                        /\ usage.heap = find_heap_high_water_mark(mem, mark - 1)
  BY UsageFacts
<1> HIDE DEF usage
<1>3. ASSUME AlwaysApart
      PROVE  ~usage.collision /\ usage.stack \in Size - sp - 1 .. Size - lowest
  <2>1. mark # NULL /\ mark \in Nat /\ lowest <= mark /\ mark <= sp + 1
    BY <1>0, <1>3, MarkSparesData
  <2> QED
    BY <1>1, <1>2, <2>1
<1>4. ASSUME lookalikes = 0
      PROVE  /\ usage.collision <=> ~Apart
             /\ Apart => /\ usage.stack = Size - low
                         /\ usage.heap = IF high <= 1 THEN 0 ELSE high
  <2>1. mark = IF high + 4 <= low THEN low ELSE NULL
    BY <1>0, <1>4, MarkIsExact
  <2>2. Apart <=> high + 4 <= low
    BY <1>1 DEF Apart
  <2>3. low # NULL
    <3>1. low \in 0..Size
      BY <1>1
    <3> QED
      BY <3>1, AddrFacts
  <2>4. usage.collision <=> ~Apart
    BY <1>2, <2>1, <2>2, <2>3
  <2>5. ASSUME Apart
        PROVE  usage.stack = Size - low /\ usage.heap = IF high <= 1 THEN 0 ELSE high
    <3>1. mark = low /\ high + 4 <= low
      BY <2>1, <2>2, <2>5
    <3>2. \A p \in 1 .. low - 1 : Free(mem, p) <=> high <= p
      <4>1. \A p \in 1 .. low - 1 : p \in Addr /\ p < low
        BY <1>1, AddrFacts
      <4> QED
        BY <1>0, <1>4, <4>1 DEF ExactInv
    <3>3. low - 1 \in Nat /\ high <= low - 1 + 1
      BY <1>1, <3>1
    <3>4. find_heap_high_water_mark(mem, low - 1) = IF high <= 1 THEN 0 ELSE high
      BY <1>1, <3>2, <3>3, HeapIsExact
    <3> QED
      BY <1>2, <2>3, <3>1, <3>4
  <2> QED
    BY <2>4, <2>5
<1> QED
  BY <1>3, <1>4, Zenon DEF usage

(***************************************************************************)
(* ReadingIsRight: readings are exact while no byte in use looks free, and *)
(* keep their bounds while stack and heap have always been apart.          *)
(***************************************************************************)
THEOREM ReadingsAreRight == Spec => []ReadingIsRight
BY GaugeInvHolds, ReadingFollows, PTL

(***************************************************************************)
(* MaxIsDeepest: the refills lose no part of the greatest depth, while no  *)
(* byte in use looks free and stack and heap are apart.                    *)
(***************************************************************************)
THEOREM GreatestDepthIsKept == Spec => []MaxIsDeepest
<1>1. GaugeInv => MaxIsDeepest
  <2> SUFFICES ASSUME GaugeInv, ~clobbered, lookalikes = 0, Apart
               PROVE  max_stack = Size - lowest
    BY DEF MaxIsDeepest
  <2>0. RangeInv /\ ExactInv
    BY DEF GaugeInv
  <2>1. /\ sp \in Nat /\ sp < Size /\ Size \in Nat /\ high \in Nat
        /\ low \in Nat /\ lowest \in Nat
        /\ lowest <= low /\ low <= sp + 1 /\ max_stack_used \in Nat
    BY <2>0, AddrFacts DEF RangeInv, Addr
  <2>2. max_stack_used <= Size - lowest /\ (low = lowest \/ max_stack_used = Size - lowest)
    BY <2>0 DEF ExactInv
  <2>3. low \in 0..Size /\ high + 4 <= low
    BY <2>1 DEF Apart
  <2>4. mark = low /\ mark # NULL
    BY <2>0, <2>3, MarkIsExact, AddrFacts
  <2>5. _pfstest_avr_mem_usage(mem).stack = Size - low
    BY <2>4, UsageFacts
  <2>6. max_stack = Max({Size - low, max_stack_used}) /\ Size - low \in Nat
    BY <2>1, <2>5 DEF max_stack
  <2>7. max_stack = IF Size - low >= max_stack_used THEN Size - low ELSE max_stack_used
    BY <2>1, <2>6, LargerOfTwo
  <2> QED
    BY <2>1, <2>2, <2>7
<1> QED
  BY <1>1, GaugeInvHolds, PTL

\* The step ResetSparesData is about.
ResetSpares ==
  reset_stack_usage /\ AlwaysApart =>
    \A a \in Addr : a < high \/ a > sp => mem'[a] = mem[a]

(***************************************************************************)
(* ResetSparesData: a refill writes to neither the heap nor the stack in   *)
(* use while the two have always been apart.                               *)
(***************************************************************************)
THEOREM RefillSparesData == Spec => ResetSparesData
<1>1. GaugeInv => ResetSpares
  <2> SUFFICES ASSUME GaugeInv, reset_stack_usage, AlwaysApart,
                      NEW a \in Addr, a < high \/ a > sp
               PROVE  mem'[a] = mem[a]
    BY DEF ResetSpares
  <2>1. RangeInv /\ UntouchedInv
    BY DEF GaugeInv
  <2>2. Refilled
    BY <2>1, ResetFacts
  <2>3. mark # NULL /\ mark \in Nat /\ lowest <= mark /\ mark <= sp + 1
    BY <2>1, MarkSparesData
  <2>4. high \in Nat /\ lowest \in Nat /\ high + 4 <= lowest /\ sp \in Nat /\ a \in Nat
    BY <2>1, AddrFacts DEF RangeInv, Addr, AlwaysApart
  <2> QED
    BY <2>2, <2>3, <2>4 DEF Refilled
<1>2. Spec => [][ResetSpares]_vars
  BY <1>1, GaugeInvHolds, PTL
<1> QED
  BY <1>2 DEF ResetSparesData, ResetSpares

-----------------------------------------------------------------------------
(***************************************************************************)
(* The loop of find_stack_high_water_mark: sentinel_count and found after  *)
(* the byte at p was looked at, from start down; at start + 1, before it.  *)
(***************************************************************************)
IsScan(m, start, count, found) ==
  /\ count \in [0 .. start + 1 -> Nat]
  /\ count[start + 1] = 0
  /\ \A p \in 0 .. start :
       /\ count[p] = IF Free(m, p) THEN count[p + 1] + 1 ELSE 0
       /\ found[p] = IF Free(m, p) /\ count[p + 1] = 0 THEN p + 1 ELSE found[p + 1]

\* The loop has the values IsScan speaks of, whatever the memory holds.
LEMMA ScanExists ==
  ASSUME NEW m, NEW start \in Nat
  PROVE  \E count, found : IsScan(m, start, count, found)
<1> DEFINE N == start + 1
           counts == [i \in 1 .. N |-> [x \in Nat |-> IF Free(m, N - i) THEN x + 1 ELSE 0]]
<1>1. N \in Nat /\ 0 \in Nat /\ counts \in [1 .. N -> [Nat -> Nat]]
  OBVIOUS
<1>2. PICK f : IsIteration(f, N, counts, 0, Nat)
  <2> HIDE DEF N, counts
  <2> QED
    BY <1>1, IterationExists
<1>3. /\ f \in [0 .. N -> Nat] /\ f[0] = 0
      /\ \A i \in 1 .. N : f[i] = IF Free(m, N - i) THEN f[i - 1] + 1 ELSE 0
  <2>1. f \in [0 .. N -> Nat] /\ f[0] = 0 /\ \A i \in 1 .. N : f[i] = counts[i][f[i - 1]]
    <3> HIDE DEF N, counts
    <3> QED
      BY <1>2 DEF IsIteration
  <2>2. ASSUME NEW i \in 1 .. N
        PROVE  f[i] = IF Free(m, N - i) THEN f[i - 1] + 1 ELSE 0
    <3>1. PICK x \in Nat : x = f[i - 1]
      BY <2>1
    <3>2. counts[i][x] = IF Free(m, N - i) THEN x + 1 ELSE 0
      OBVIOUS
    <3> QED
      BY <2>1, <3>1, <3>2
  <2> QED
    BY <2>1, <2>2
<1> DEFINE count == [p \in 0 .. N |-> f[N - p]]
           places == [i \in 1 .. N |-> [x \in Nat |->
                        IF Free(m, N - i) /\ f[i - 1] = 0 THEN N - i + 1 ELSE x]]
<1>4. places \in [1 .. N -> [Nat -> Nat]]
  OBVIOUS
<1>5. PICK g : IsIteration(g, N, places, 0, Nat)
  <2> HIDE DEF N, places
  <2> QED
    BY <1>1, <1>4, IterationExists
<1>6. /\ g \in [0 .. N -> Nat]
      /\ \A i \in 1 .. N :
           g[i] = IF Free(m, N - i) /\ f[i - 1] = 0 THEN N - i + 1 ELSE g[i - 1]
  <2>1. g \in [0 .. N -> Nat] /\ \A i \in 1 .. N : g[i] = places[i][g[i - 1]]
    <3> HIDE DEF N, places
    <3> QED
      BY <1>5 DEF IsIteration
  <2>2. ASSUME NEW i \in 1 .. N
        PROVE  g[i] = IF Free(m, N - i) /\ f[i - 1] = 0 THEN N - i + 1 ELSE g[i - 1]
    <3>1. PICK x \in Nat : x = g[i - 1]
      BY <2>1
    <3>2. places[i][x] = IF Free(m, N - i) /\ f[i - 1] = 0 THEN N - i + 1 ELSE x
      OBVIOUS
    <3> QED
      BY <2>1, <3>1, <3>2
  <2> QED
    BY <2>1, <2>2
<1> DEFINE found == [p \in 0 .. N |-> g[N - p]]
<1>7. count \in [0 .. start + 1 -> Nat] /\ count[start + 1] = 0
  BY <1>3
<1>8. ASSUME NEW p \in 0 .. start
      PROVE  /\ count[p] = IF Free(m, p) THEN count[p + 1] + 1 ELSE 0
             /\ found[p] = IF Free(m, p) /\ count[p + 1] = 0 THEN p + 1 ELSE found[p + 1]
  <2>1. PICK i \in 1 .. N : i = N - p
    OBVIOUS
  <2>2. /\ N - i = p /\ N - (p + 1) = i - 1 /\ p \in 0 .. N /\ p + 1 \in 0 .. N
    BY <2>1
  <2>3. count[p] = f[i] /\ count[p + 1] = f[i - 1] /\ found[p] = g[i] /\ found[p + 1] = g[i - 1]
    BY <2>1, <2>2
  <2> HIDE DEF count, found
  <2> QED
    BY <1>3, <1>6, <2>2, <2>3
<1>9. IsScan(m, start, count, found)
  <2> HIDE DEF count, found
  <2> QED
    BY <1>7, <1>8 DEF IsScan
<1> QED
  BY <1>9

\* The loop breaks at p.
Breaks(start, count, p) == count[p] = 4 /\ \A r \in p + 1 .. start : count[r] # 4

\* After p: count free bytes from p up, and found the byte above them.
Scanned(m, start, count, found, p) ==
  /\ p + count[p] <= start + 1
  /\ \A i \in p .. p + count[p] - 1 : Free(m, i)
  /\ p + count[p] = start + 1 \/ ~Free(m, p + count[p])
  /\ count[p] > 0 => found[p] = p + count[p]
  /\ (\A r \in p .. start : count[r] # 4) => count[p] <= 3

\* What one turn of the loop does.
LEMMA ScanTurn ==
  ASSUME NEW m, NEW start \in Nat, NEW count, NEW found,
         IsScan(m, start, count, found),
         NEW p \in 0 .. start, Scanned(m, start, count, found, p + 1)
  PROVE  Scanned(m, start, count, found, p)
<1>1. /\ count[p] = IF Free(m, p) THEN count[p + 1] + 1 ELSE 0
      /\ found[p] = IF Free(m, p) /\ count[p + 1] = 0 THEN p + 1 ELSE found[p + 1]
      /\ count[p] \in Nat /\ count[p + 1] \in Nat
  BY DEF IsScan
<1>2. PICK c \in Nat : c = count[p + 1]
  BY <1>1
<1>3. /\ p + 1 + c <= start + 1
      /\ \A i \in p + 1 .. p + 1 + c - 1 : Free(m, i)
      /\ p + 1 + c = start + 1 \/ ~Free(m, p + 1 + c)
      /\ c > 0 => found[p + 1] = p + 1 + c
      /\ (\A r \in p + 1 .. start : count[r] # 4) => c <= 3
  BY <1>2 DEF Scanned
<1>4. CASE Free(m, p)
  <2>1. count[p] = c + 1 /\ p + (c + 1) = p + 1 + c
    BY <1>1, <1>2, <1>4
  <2>2. \A i \in p .. p + (c + 1) - 1 : Free(m, i)
    <3>1. \A i \in p .. p + (c + 1) - 1 : i = p \/ i \in p + 1 .. p + 1 + c - 1
      OBVIOUS
    <3> QED
      BY <1>3, <1>4, <3>1
  <2>3. found[p] = p + (c + 1)
    BY <1>1, <1>2, <1>3, <1>4
  <2>4. (\A r \in p .. start : count[r] # 4) => c + 1 <= 3
    <3>1. p \in p .. start /\ \A r \in p + 1 .. start : r \in p .. start
      OBVIOUS
    <3> SUFFICES ASSUME \A r \in p .. start : count[r] # 4 PROVE c + 1 <= 3
      OBVIOUS
    <3>2. c <= 3 /\ c + 1 # 4
      BY <1>3, <2>1, <3>1
    <3> QED
      BY <3>2
  <2> QED
    BY <1>3, <2>1, <2>2, <2>3, <2>4 DEF Scanned
<1>5. CASE ~Free(m, p)
  BY <1>1, <1>5 DEF Scanned
<1> QED
  BY <1>4, <1>5

\* The invariant of the loop.
LEMMA ScanInvariant ==
  ASSUME NEW m, NEW start \in Nat, NEW count, NEW found,
         IsScan(m, start, count, found)
  PROVE  \A p \in 0 .. start + 1 : Scanned(m, start, count, found, p)
<1> DEFINE S == {n \in 0 .. start + 1 : Scanned(m, start, count, found, start + 1 - n)}
<1>1. 0 \in S
  <2>1. start + 1 - 0 = start + 1 /\ count[start + 1] = 0
    BY DEF IsScan
  <2>2. Scanned(m, start, count, found, start + 1)
    BY <2>1 DEF Scanned
  <2> QED
    BY <2>1, <2>2
<1>2. ASSUME NEW n \in 0 .. start + 1 - 1, n \in S PROVE n + 1 \in S
  <2>1. PICK p \in 0 .. start : p = start - n
    OBVIOUS
  <2>2. start + 1 - n = p + 1 /\ start + 1 - (n + 1) = p /\ n + 1 \in 0 .. start + 1
    BY <2>1
  <2>3. Scanned(m, start, count, found, p + 1)
    BY <1>2, <2>2
  <2>4. Scanned(m, start, count, found, p)
    BY <2>3, ScanTurn
  <2> QED
    BY <2>2, <2>4
<1>3. 0 .. start + 1 \subseteq S
  <2> HIDE DEF S
  <2> QED
    BY <1>1, <1>2, IntervalInduction
<1> SUFFICES ASSUME NEW p \in 0 .. start + 1 PROVE Scanned(m, start, count, found, p)
  OBVIOUS
<1>4. PICK n \in 0 .. start + 1 : n = start + 1 - p
  OBVIOUS
<1>5. start + 1 - n = p
  BY <1>4
<1>6. n \in S
  BY <1>3, Zenon
<1> QED
  BY <1>5, <1>6

(***************************************************************************)
(* The definition of find_stack_high_water_mark is what the loop returns:  *)
(* found where it breaks, and the null pointer if it comes to buf.         *)
(***************************************************************************)
THEOREM ScanFindsMark ==
  ASSUME NEW m, NEW start \in Addr, NEW count, NEW found,
         IsScan(m, start, count, found)
  PROVE  /\ \A p \in 0 .. start : Breaks(start, count, p) =>
              find_stack_high_water_mark(m, start) = found[p]
         /\ (\A p \in 0 .. start : count[p] # 4) =>
              find_stack_high_water_mark(m, start) = NULL
<1>0. start \in Nat /\ \A p \in 0 .. start + 1 : count[p] \in Nat
  BY AddrFacts DEF Addr, IsScan
<1>1. \A p \in 0 .. start + 1 : Scanned(m, start, count, found, p)
  BY <1>0, ScanInvariant
\* A row is where the loop counts to four or more.
<1>2. ASSUME NEW r \in Rows(m, start) PROVE r \in 0 .. start /\ count[r] > 3
  <2>1. r \in 0 .. start /\ r \in Nat /\ r + 3 <= start /\ \A i \in r .. r + 3 : Free(m, i)
    BY <1>0 DEF Rows
  <2>2. r + count[r] = start + 1 \/ ~Free(m, r + count[r])
    <3>1. r \in 0 .. start + 1
      BY <1>0, <2>1
    <3> QED
      BY <1>1, <3>1 DEF Scanned
  <2>3. PICK c \in Nat : c = count[r]
    BY <1>0, <2>1
  <2>4. ~(c <= 3)
    BY <1>0, <2>1, <2>2, <2>3
  <2> QED
    BY <2>1, <2>3, <2>4
<1>3. ASSUME NEW p \in 0 .. start, Breaks(start, count, p)
      PROVE  find_stack_high_water_mark(m, start) = found[p]
  <2>1. count[p] = 4 /\ \A r \in p + 1 .. start : count[r] # 4
    BY <1>3 DEF Breaks
  <2>2. p + 4 <= start + 1 /\ (\A i \in p .. p + 4 - 1 : Free(m, i)) /\ found[p] = p + 4
    <3>1. p \in 0 .. start + 1
      BY <1>0
    <3>2. Scanned(m, start, count, found, p)
      BY <1>1, <3>1
    <3> QED
      BY <2>1, <3>2 DEF Scanned
  <2>3. p \in Rows(m, start)
    BY <1>0, <2>2 DEF Rows
  <2>4. ASSUME NEW r \in Rows(m, start) PROVE r <= p
    <3> SUFFICES ASSUME ~(r <= p) PROVE FALSE
      OBVIOUS
    <3>1. r \in 0 .. start /\ count[r] > 3
      BY <1>2
    <3>2. \A s \in r .. start : s \in p + 1 .. start
      BY <1>0, <3>1
    <3>3. \A s \in r .. start : count[s] # 4
      BY <2>1, <3>2
    <3>4. count[r] <= 3
      BY <1>0, <1>1, <3>1, <3>3 DEF Scanned
    <3> QED
      BY <1>0, <3>1, <3>4
  <2>5. PICK h \in Nat : /\ h = find_stack_high_water_mark(m, start)
                         /\ p + 4 <= h /\ h - 4 \in Rows(m, start)
    BY <2>3, MarkFacts
  <2>6. h - 4 <= p
    BY <2>4, <2>5
  <2> QED
    BY <2>2, <2>5, <2>6
<1>4. ASSUME \A p \in 0 .. start : count[p] # 4
      PROVE  find_stack_high_water_mark(m, start) = NULL
  <2>1. ASSUME NEW r \in Rows(m, start) PROVE FALSE
    <3>1. r \in 0 .. start /\ count[r] > 3
      BY <1>2
    <3>2. \A s \in r .. start : s \in 0 .. start
      BY <1>0, <3>1
    <3>3. count[r] <= 3
      BY <1>0, <1>1, <1>4, <3>1, <3>2 DEF Scanned
    <3> QED
      BY <1>0, <3>1, <3>3
  <2> QED
    BY <2>1, NoRow
<1> QED
  BY <1>3, <1>4
=============================================================================
