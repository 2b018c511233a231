------------------------------ MODULE PFAvrMem ------------------------------
(***************************************************************************)
(* The memory gauge of the AVR port.  The RAM between the end of the       *)
(* static data and the end of memory is shared by the heap, which grows up *)
(* from its first byte, and the stack, which grows down from its last.  At *)
(* the start of main the free bytes are filled with a repeated pattern of  *)
(* four characters; a reading scans for what is left of the pattern.  A    *)
(* plugin may refill the part the stack has left, before every test, so    *)
(* that each test is measured by itself.                                   *)
(*                                                                         *)
(* Addresses are offsets from buf.  Of a byte only its equality with the   *)
(* pattern's character at its address matters: a byte is one of the four   *)
(* characters or Other.  A byte that belongs to the heap or the stack and  *)
(* happens to equal the pattern at its place, or was never written since   *)
(* the pattern was put there, looks free to the gauge (a lookalike).       *)
(***************************************************************************)
EXTENDS Naturals, FiniteSetsExt

CONSTANTS
  Size,            \* the bytes between __heap_start and RAMEND
  MaxLookalikes,   \* bound: bytes in use that look free
  NULL             \* the null pointer

Addr == 0 .. Size - 1

ASSUME AvrMemAssumption ==
  /\ Size \in Nat \ {0, 1}
  /\ MaxLookalikes \in Nat
  /\ NULL \notin 0 .. Size

VARIABLES
  mem,             \* the bytes
  sp,              \* the stack pointer: the first free byte below the stack
  brk,             \* __brkval: the first byte above the heap
  max_stack_used,  \* avr-main.c: the largest reading at a reset
  low,             \* history: the lowest stack byte since the last reset
  lowest,          \* history: the lowest stack byte ever
  high,            \* history: the highest end of the heap ever
  lookalikes,      \* history: how many bytes in use have looked free
  clobbered        \* history: a reset filled memory from the null pointer

vars ==
  <<mem, sp, brk, max_stack_used, low, lowest, high, lookalikes, clobbered>>

Other == 4

get_fill_char(i) == i % 4

Free(m, p) == m[p] = get_fill_char(p)

-----------------------------------------------------------------------------
(***************************************************************************)
(* From start up to and including the byte the stack pointer points at.    *)
(***************************************************************************)
fill_to_sp(m, start) ==
  [a \in Addr |-> IF start <= a /\ a <= sp THEN get_fill_char(a) ELSE m[a]]

\* Where four matching bytes are in a row, none of them above start.
Rows(m, start) == {p \in 0 .. start : p + 3 <= start /\ \A i \in p .. p + 3 : Free(m, i)}

\* Variant: every matching byte moves the mark, not only the first of a row.
find_stack_high_water_mark_last(m, start) ==
  LET rows == Rows(m, start)
  IN  IF rows = {} THEN NULL ELSE Max(rows) + 1

(***************************************************************************)
(* The loop goes down from start to the first four matching bytes in a     *)
(* row, those of the highest row; the mark is the byte above the first of  *)
(* them.                                                                   *)
(***************************************************************************)
find_stack_high_water_mark(m, start) ==
  LET rows == Rows(m, start)
  IN  IF rows = {} THEN NULL ELSE Max(rows) + 4

(***************************************************************************)
(* Down from highest_sp to the first byte that differs; the loop stops at  *)
(* buf without a look at the byte there.                                   *)
(***************************************************************************)
find_heap_high_water_mark(m, highest_sp) ==
  LET used == {p \in 1 .. highest_sp : ~Free(m, p)}
  IN  IF used = {} THEN 0 ELSE Max(used) + 1

_pfstest_avr_mem_usage(m) ==
  LET stack_hwm == find_stack_high_water_mark(m, sp)
  IN  IF stack_hwm = NULL
      THEN [heap |-> 0, stack |-> 0, collision |-> TRUE]
      ELSE [heap |-> find_heap_high_water_mark(m, stack_hwm - 1),
            stack |-> Size - stack_hwm,
            collision |-> FALSE]

\* Variant: everything up to the stack pointer is refilled.
_pfstest_avr_fill_unused_stack_whole(m) ==
  [mem |-> fill_to_sp(m, 0), wild |-> FALSE]

(***************************************************************************)
(* Without a mark the fill starts at the null pointer, below buf.          *)
(***************************************************************************)
_pfstest_avr_fill_unused_stack(m) ==
  LET stack_hwm == find_stack_high_water_mark(m, sp)
  IN  [mem |-> fill_to_sp(m, IF stack_hwm = NULL THEN 0 ELSE stack_hwm),
       wild |-> stack_hwm = NULL]

\* print_max_memory_usage
max_stack == Max({_pfstest_avr_mem_usage(mem).stack, max_stack_used})

-----------------------------------------------------------------------------
\* After pfstest_avr_fill_heap_with_sentinel, main's frame being on the stack.
Init ==
  /\ sp \in {Size - 2, Size - 1}
  /\ mem = fill_to_sp([a \in Addr |-> Other], 0)
  /\ brk = 0
  /\ max_stack_used = 0
  /\ low = sp + 1
  /\ lowest = sp + 1
  /\ high = 0
  /\ lookalikes = 0
  /\ clobbered = FALSE

NoteLookalike(a, v) ==
  IF v = Other
  THEN UNCHANGED lookalikes
  ELSE lookalikes < MaxLookalikes /\ lookalikes' = lookalikes + 1

\* A call or a push, by whatever runs: the stack does not look at the heap.
Push(v) ==
  /\ sp > 0
  /\ mem' = [mem EXCEPT ![sp] = v]
  /\ sp' = sp - 1
  /\ low' = Min({low, sp})
  /\ lowest' = Min({lowest, sp})
  /\ NoteLookalike(sp, v)
  /\ UNCHANGED <<brk, max_stack_used, high, clobbered>>

Pop ==
  /\ sp < Size - 1
  /\ sp' = sp + 1
  /\ UNCHANGED <<mem, brk, max_stack_used, low, lowest, high, lookalikes,
                 clobbered>>

\* malloc never takes a byte that is at or above the stack pointer.
HeapGrow(v) ==
  /\ brk < sp
  /\ mem' = [mem EXCEPT ![brk] = v]
  /\ brk' = brk + 1
  /\ high' = Max({high, brk + 1})
  /\ NoteLookalike(brk, v)
  /\ UNCHANGED <<sp, max_stack_used, low, lowest, clobbered>>

HeapShrink ==
  /\ brk > 0
  /\ brk' = brk - 1
  /\ UNCHANGED <<mem, sp, max_stack_used, low, lowest, high, lookalikes,
                 clobbered>>

\* Variant: the reading is taken after the refill.
reset_stack_usage_late ==
  LET filled == _pfstest_avr_fill_unused_stack(mem)
      usage == _pfstest_avr_mem_usage(filled.mem)
  IN  /\ max_stack_used' = Max({usage.stack, max_stack_used})
      /\ mem' = filled.mem
      /\ clobbered' = (clobbered \/ filled.wild)
      /\ low' = sp + 1
      /\ UNCHANGED <<sp, brk, lowest, high, lookalikes>>

\* The plugin's setup, if it is registered: before any test, at any depth.
reset_stack_usage ==
  LET usage == _pfstest_avr_mem_usage(mem)
      filled == _pfstest_avr_fill_unused_stack(mem)
  IN  /\ max_stack_used' = Max({usage.stack, max_stack_used})
      /\ mem' = filled.mem
      /\ clobbered' = (clobbered \/ filled.wild)
      /\ low' = sp + 1
      /\ UNCHANGED <<sp, brk, lowest, high, lookalikes>>

\* A program whose memory below buf was overwritten is not followed further.
Next ==
  /\ ~clobbered
  /\ \/ \E v \in {get_fill_char(sp), Other} : Push(v)
     \/ Pop
     \/ \E v \in {get_fill_char(brk), Other} : HeapGrow(v)
     \/ HeapShrink
     \/ reset_stack_usage

Spec == Init /\ [][Next]_vars

-----------------------------------------------------------------------------
(***************************************************************************)
(* Four bytes separate the deepest stack, since the last reset or of the   *)
(* whole run, from the greatest heap.                                      *)
(***************************************************************************)
Apart == low >= high + 4
AlwaysApart == lowest >= high + 4

(***************************************************************************)
(* What a reading says, wherever the stack pointer is when it is taken.    *)
(* If no byte in use looks free: the stack's reading is its greatest depth *)
(* since the last reset, the heap's is its greatest size (a heap of one    *)
(* byte reads as none), and a collision is reported exactly when the two   *)
(* have come within four bytes.  Whatever the bytes look like, as long as  *)
(* stack and heap have always been apart none is reported, and the stack's *)
(* reading lies between its present depth and its greatest one (not only   *)
(* since the last reset: a reset leaves what lies below bytes that look    *)
(* free).                                                                  *)
(***************************************************************************)
ReadingIsRight ==
  LET usage == _pfstest_avr_mem_usage(mem)
  IN  ~clobbered =>
        /\ AlwaysApart => /\ ~usage.collision
                          /\ usage.stack \in Size - sp - 1 .. Size - lowest
        /\ lookalikes = 0 =>
             /\ usage.collision <=> ~Apart
             /\ Apart => /\ usage.stack = Size - low
                         /\ usage.heap = IF high <= 1 THEN 0 ELSE high

(***************************************************************************)
(* However often the plugin has refilled the stack, the figure printed at  *)
(* the end is the greatest depth of the whole run, if no byte in use looks *)
(* free, stack and heap are apart, and no refill has followed a collision. *)
(***************************************************************************)
MaxIsDeepest ==
  ~clobbered /\ lookalikes = 0 /\ Apart => max_stack = Size - lowest

(***************************************************************************)
(* While stack and heap have always been apart, a refill writes neither to *)
(* the heap nor to the stack in use, whatever their bytes look like.       *)
(***************************************************************************)
ResetSparesData ==
  [][reset_stack_usage /\ AlwaysApart =>
       \A a \in Addr : a < high \/ a > sp => mem'[a] = mem[a]]_vars
=============================================================================
