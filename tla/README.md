# pfstest in TLA+

pfstest is a unit test framework in portable C for small machines (AVR, PIC18)
and for hosts. This directory models it in TLA+, from the runner down to the
printing of numbers, checks the models with TLC, and proves theorems about the
lists, the runner, the mocks, the command line, the allocators and the memory gauge
with TLAPS.
Source paths are relative to the repository's root; definitions carry the names
of the C functions they translate.

## The system

| part | code | state | operations |
|---|---|---|---|
| test runner | `src/core/pfstest-core.c` | registered tests and plugins; the stack `dynamic_env` of reporter and `jmp_buf` | `pfstest_suite_run`, `run_test`, the `pfstest_fail_*` functions |
| list | `src/core/pfstest-list.c`, `include/pfstest-list.h` | `head`, and the `next` field inside each object | append, head, reset, iterate |
| allocators | `src/alloc/pfstest-alloc-malloc.c`, `pfstest-alloc-pic.c` | a stack of frames; a list of blocks, or a bump pointer in a static heap | `pfstest_alloc`, free frame, push, pop |
| mocks | `src/mock/*.c` | a stack of environments, each with lists of expectations, default expectations, invocations and verifiers of the test in flight | when, do_return, do_times, invoke, verify..., in_order..., run_verifiers |
| standard and verbose reporters | `src/reporters/pfstest-reporters-standard.c` | counters, flags of the test in flight, two layout flags | one handler for each event of a run |
| XML reporter | `src/reporters/pfstest-reporter-xml.c` | flags of the test and of the element being written | the same events |
| reporter dispatch, numbers | `src/core/pfstest-reporter.c` | none | forwarding; `print_int`, `print_uint` |
| matchers, values, tags | `src/matchers/*.c` | `next_auto_tag`; immutable objects | constructors, `equal_to`, `is`, arrays |
| floating point | `src/fp/*.c` | a printer hook | values, `close_to` |
| command line | `src/cli/pfstest-cli.c` | `pfstest_arguments_t` | parse, `pfstest_main` |
| memory gauge | `src/platform/avr8/tools/pfstest-avr-mem.c` | the memory between heap and stack | fill, high-water marks |
| platform, main programs | `src/platform`, `src/main` | none | wrappers; start |
| mock generator | `automock/*.py` | the declarations read | generates C |

How they interact. A run pushes a *dynamic context* for each test: an allocation
frame first, then an entry of `dynamic_env` allocated in that frame. Everything
a test makes (expectations, values, invocations, nested suites) is allocated in
the innermost frame and linked into lists by fields inside the objects. The
plugins, above all the mock plugin, get callbacks before the body, after it (the
*checks*, which run the verifiers) and after the fixture's teardown. A failing
assertion, wherever it is, tells the reporter of the innermost entry and leaves
through that entry's `jmp_buf`. A test may run a suite of its own, on top of the
stacks of the test around it; the framework tests itself that way.

Everything is one thread. What is hard is control that leaves functions in the
middle (`longjmp` out of a loop, a callback, a half-done update), stacks that
must stay in step on every such path, pointers that live in memory about to be
freed or that are shared between lists, results that depend on the order of
registration, and boundaries: the last byte of the static heap, the last word of
`argv`. `PROJECT.json` lists these hazards, each at its line.

What makes each part correct:

- *runner*: a failure is handled by the run it happened in; every fixture and
  plugin that was set up is torn down; each test gets one verdict; runs end.
- *list*: loops end; nothing uninitialised is followed; lists are sequences.
- *allocators*: objects do not overlap, a frame gives back what it took and
  nothing else, nothing leaks or is freed twice.
- *mocks*: who answers a call; how often; the verdict of the verifiers is that
  of a declarative reading of them.
- *mocks in nested tests*: the stack of environments keeps in step with that of
  the frames.
- *reporters*: counts and exit status agree with the verdicts; output is well
  formed, and a reader gets from it what happened.
- *numbers, values, matchers, assertions*: an assertion passes exactly when what
  the user's calls mean is the case; what is printed reads back as what was boxed.
- *memory gauge*: readings are the true maxima; taking them spares data in use.
- *command line*: the words mean what the flags say, wherever they stand.

## Modules

| module | models | abstract specification |
|---|---|---|
| `PFList` | the list, one pointer step at a time | `PFListSpec`: lists are sequences |
| `PFRunner` | the runner, the fixture, plugin callbacks, nested runs, and the reporter's bookkeeping | `PFRunSpec`: what a run promises its user |
| `PFMock` | the mocks of one test | reference operators in the module |
| `PFMockRuns` | `PFRunner` together with the stack of mock environments | |
| `PFAlloc` | the malloc allocator over explicit memory | `PFAllocSpec`: frames of objects |
| `PFAllocPic` | the static heap of the PIC port | `PFAllocSpec` |
| `PFCli` | parsing `argv` and the choice `pfstest_main` makes | reference operators in the module |
| `PFReport` | everything the standard, the verbose and the XML reporter write | a reader of each report |
| `PFNumbers` | `print_int`, `print_uint`, escaped characters | numerals read back, in `PFValues` |
| `PFFloat` | floating point values and matchers | in `PFValues` |
| `PFValues` | boxes, printers, matchers, tags and one assertion, over `PFNumbers` and `PFFloat` | reference operators in the module |
| `PFAvrMem` | the memory gauge of the AVR port | |
| `PFListProofs`, `PFRunnerProofs` (with those about `PFMockRuns`), `PFMockProofs`, `PFCliProofs`, `PFAllocProofs`, `PFAllocPicProofs`, `PFAvrMemProofs` | the invariants and proofs | |
| `PFInduction` | induction and linked structures, in the form the provers need | |
| `MCPFRunner`, `MCPFMock`, `MCPFReport`, `MCPFValues` | values of the constants for TLC | |

`PFRunner` abstracts a reporter to its counters and flags, where failures come
from every place of a run; `PFReport` takes the order of events from the runner
(a test is ignored, or fails any number of times and completes) and follows the
reporters to the last character.

**PFList.** `head[l]` and `next[n]` are the C fields; `tail`, `list` and `node`
are the locals of the append that runs. `AppendEnter`, `AppendStep`,
`AppendBail` and `AppendLink` are its loop; `AppendFirst` is the branch for an
empty list. `Junk` is the content of a field nobody wrote. Nothing in the
code keeps callers from putting a node in two lists, so they may; `shared`
remembers that they did. `Iter` is what `pfstest_list_iter` visits.

**PFRunner.** Every local of `pfstest_suite_run` and `run_test` is indexed by
the nesting level of the run, `depth` is the innermost one and `pc[d]` the place
in its code. `env` and `frames` are the two stacks of dynamic contexts, `jmp[d]`
the place the entry's `jmp_buf` returns to (`"unset"` before `setjmp`). Each
statement of `run_test` is an action: `StartTest`, `CallPlugin` with the
callback's label, `IgnoreTest`, `ArmBody`, `FixtureSetup`, `TestFunction`,
`ChecksDone`, `ArmTeardown`, `FixtureTeardown`, `TeardownDone`,
`ReportComplete`, `PopEnv`, `PopFrame`. `Fail` is `pfstest_fail_*`: it may
happen wherever the code runs a function of the user or a callback, and its
`longjmp` also abandons whatever nested run it leaves. Jumping through a
`jmp_buf` that was never set is undefined in C; the model goes to the place
`"undefined"` then. The reporter is the record `rep[d]`, its handlers the
functions `RunStarted` to `TestComplete`. `raised`, `ran`, `over` and `active`
are history variables that no guard reads.

**PFMock.** Objects are indices of sequences (what PFList shows of the
pointers), expectation 0 stands for the default expectation of a mock, which
has no handlers and matches every call. An argument handler is the set of values
it accepts and whether its matched function copies something. A call is not one
step: `call` holds the mock and the arguments of the one that runs, and the loop
variables of `pfstest_mock_invoke` (the expectation `e`) and of `args_match` and
`args_matched` (the argument `i`). `mock_invoke` begins it, `skip_expectation` is
an expectation of another mock or an exhausted one, `arg_handler_test` one round of
`args_match`, `args_match` its return with true, `arg_handler_matched` one round of
`args_matched`, each with a write of its own. A call ends with `mock_return`, with
`mock_return_default` if no expectation takes it, or with
`mock_return_wrong_size`, which has been recorded and leaves by `longjmp` before the
count goes down. While it runs the user's code does not. `run_verifier` is one
round of the loop of `pfstest_mock_run_verifiers`. Phases follow `run_test`: the body, the checks,
the fixture's teardown. `past` is history.

**PFMockRuns.** The variables of `PFRunner` and `mock_env`, the stack
`dynamic_env` of `pfstest-mock.c`. An environment remembers the frame it was
allocated in and the frames of the objects linked into its lists. `mock_setup`
and `mock_teardown` are the callbacks the runner makes for the mock plugin;
`use_mocks` is any call of the user's code that links an object;
`OtherStep` is every other step of the runner.

**PFAlloc.** `blocks` is what `malloc` has handed out; `malloc` may place a block
at any free aligned address. `next`, `allocated` and `up` are the fields of list
nodes and frame records by address, and become `Junk` when the code fills memory
with `0xaa`, be it its own or, were the size wrong, a neighbour's. Freeing a
frame is a loop of steps, since the list lives in the memory being freed.

**PFAllocPic.** `env[a]` is the frame record at address `a` of the heap,
`Fits` the address arithmetic of `assert_object_fits_in_heap` modulo `AddressSpace`.
A request larger than the end address of the heap makes it wrap (`Wraps`): every
such request passes the check, and the object handed out leaves the heap. `wrapped`
records that; what the object's user writes may then be anywhere, so the model
stops, and the properties are about what happens until then.
`pfstest_assert` is called there but defined nowhere in the repository; it is
taken to stop the program.

**PFCli.** `args` is the structure, `argp` the word looked at. `parse_flag` and
`parse_value` are the two parsers of the table, `pfstest_main` the sanitising of
the flags and the choice of what to run. The reference says which positions of a
command line hold flags, without a parser: `AreFlagsOf`.

**PFReport.** `rep` is the reporter object, the C fields by their names and in
`rep.out` what the writer has been given. Each event is an action that calls the
handler of the reporter in use; `print_message(c)` is one character of the
printer of a failure, between the start and the completion of its message. A
word of fixed text is one character, a new line is always its own.
`StandardReadsBack` compares the lines of the report, its colors taken out, with
the history `story`; `XmlReadsBack` runs `ReadXml`, an XML reader with a stack of
open elements, over the output.

**PFNumbers, PFFloat, PFValues.** A number is printed as a sequence of digits,
with the arithmetic of `pfstest_uintmax_t` modulo its width: `print_uint` is the
two loops of the code, the divisor growing and shrinking by the base. Boxes are
records of bytes and of the functions the C structure points to, named by strings;
`Box` is the boxer of each type, `value_print` and `matcher_print` the printers,
`matches` the test functions. `tags` is `next_auto_tag` with the tag of each kind
of object. The actions are the calls one assertion is made of, in any order the
code allows. A floating point number is an integer, with ends of the range for
the infinities, NaN and the negative zero, and the order and subtraction of
IEEE-754. The printer rounds it to `PrintedDigits` significant digits, as `%g`
does to six, so different numbers may print alike.

**PFAvrMem.** `mem` is the bytes between the static data and the end of memory,
`sp` and `brk` the ends of stack and heap. `Push`, `Pop`, `HeapGrow` and
`HeapShrink` are whatever the program does with them, `reset_stack_usage` is the
plugin of `avr-main.c`, and a reading is a function of the state that
`ReadingIsRight` takes in every state. A byte in use may hold the character the
gauge looks for; `lookalikes` counts how many did.

Some modules hold operators whose comment begins with *Variant*. They are faulty
forms of the definition below them (a swapped order, an off-by-one, a missing
reset), used by no specification: each property is confronted with one to make
sure that it notices such a fault (`mutants` in `PROJECT.json`).

## Runs

The longest run (`avr_mem`) takes under two minutes, the others seconds.

| run | bounds | what it shows |
|---|---|---|
| `list` | 3 nodes that may be in both of 2 lists | loops end, no uninitialised link is read, the list appended to grows only at its end, appends return; until a node is shared the pointers implement `PFListSpec` |
| `runner` | a suite of 3 tests in 2 files, one ignored, running a suite of 2 tests; 2 plugins outside, that of the mocks inside too; checks of plugins may fail; filters by file, name, both, none | failures in every phase and both levels: their effects stay in their run, phases and callbacks pair up, counters and exit status are right, runs end, `PFRunSpec` is implemented, and mock environments stay in their test |
| `mock_stub` | 1 mock of 2 arguments, 2 values, 2 expectations, 3 calls | who answers, how often, and from which call comes what handlers wrote |
| `mock_verify` | 2 mocks, 2 expectations, 3 calls, 2 verifiers of all kinds, orders of 2 | the verdict is the reference's (of `verify`: the code's reading) |
| `alloc_malloc` | 18 bytes, objects of 0, 1 and 3 bytes | one owner per block in the middle of freeing, too; `PFAllocSpec` is implemented |
| `alloc_pic` | a heap of 14 bytes at address 3 of 32; the largest request that does not wrap, the first and the last that do | no overlap up to the last byte, nesting of frames, `PFAllocSpec`, until a request wraps |
| `cli` | all command lines of up to 5 words | the reference's reading; never past `argv`; parsing ends |
| `report` | 2 tests, up to 2 failures each, up to 3 characters of messages | the three reports read back as what happened |
| `values` | `int` and `short` of one byte, `long` of two, `uintmax_t` of two; floating point numbers printed to one digit, with two that print alike | printed values read back; assertions decide what the calls mean; a failure shows a difference, unless floating point numbers agree in the digits printed |
| `avr_mem` | 8 bytes, up to 4 lookalikes | readings are the true maxima; a refill spares data |
| `mock_one_time`, `values_each_member` | as `mock_stub`, `values` | two counterexamples, below |

Why the bounds are enough. A list operation looks at one node, its neighbour and
the end, so three nodes and two lists already give every aliasing. Two levels of
runs are needed for a failure to have a wrong run to land in, and the theorems
below lift the bound for that module; they also cover plugins that fail in
teardown, which the run leaves out because the mocks do not survive them. Two
expectations are needed for shadowing, two arguments for a call that fits in the
first only, three calls for a limit to be passed and for an order to have a gap. Eighteen bytes hold three nested frames or three
objects of different sizes, and run out. Five words hold a program name, a flag
with a value, and a flag on either side. Every flag of a reporter that outlives
an event is set or cleared within one test, and the second test sees what the
first left behind; three characters make an empty line, a line after it and one
that needs escaping. The inputs of `values` lie at the ends of the types, on both
sides of the powers of the bases 10 and 16 and of the sizes that comparison
tells apart. Eleven and twelve are the numbers that print alike with one digit.
Seventeen bytes are the largest request that the PIC allocator's check sees as too
large, eighteen the smallest that wraps. Eight bytes hold the four the gauge needs between stack and heap
and two on either side, and half of them may look free, which is one row of the
pattern.

Fairness. The framework is one thread that waits for nothing, so a loop that has
been entered keeps being executed: weak fairness of the loop of an append
(`PFList`), of freeing (`PFAlloc`), and of the next step (`PFRunner`, `PFCli`).
For the runner this also says that the user's functions return or fail.
What the *caller* chooses to do next is never assumed fair in `PFList` and `PFAlloc`.
`PFMockRuns` has the same fairness, except that calls of mocks are not counted as
progress: the user's functions make any number of them and return. The other
modules claim no liveness.

### Where documentation and code differ

- `mock_one_time`: `times` is decremented after the check of the answer's size
  (`src/mock/pfstest-mock.c:302`), and that check leaves by `longjmp`. An
  expectation limited to one match then matches again in the fixture's teardown;
  `include/pfstest-mock.h:71` says "only match once". What holds, and
  `AnswersWithinLimit` states, is that it never *answers* more often.
- `values_each_member`: the list of matchers, not the array, says how many
  members are tested (`src/matchers/pfstest-matchers.c:194`), so an array with
  more members than matchers passes; `include/pfstest-matchers.h:37` says "Test
  each member". The run boxes an array of two with `the_int_array` and passes it
  with one matcher. `AssertIsRight` states what holds: the members that have a
  matcher are tested.
- `verify` (no run; stated here): `include/pfstest-mock.h:117` says "Fail the
  current test if the expectation `e` never matches an invocation", which is at
  least one match; the code asks for exactly one (`src/mock/pfstest-mock.c:394`),
  so a second call fails a test that the header lets pass. The reference of
  `VerdictIsRight` and of the theorem about it is the code's reading; every other
  verifier is compared with what its header says.

Seen while modelling, and part of the models rather than of a property:

- `pfstest_close_to_float` never matches an infinity, not even to itself: the
  difference is NaN.
- The attributes of a second failure of a test are written as text into the XML
  element the first one opened; the document stays well formed.
- The PIC allocator hands out every object larger than the end address of its
  heap: `heap_end - (size - 1)` wraps around
  (`src/alloc/pfstest-alloc-pic.c:21`), and the check that should refuse it passes.
- `equal_to(the_double(1.0))` fails for `the_double(1.0000001)` and prints the same
  text twice, printer or not: `%g` has six digits. `FailureShowsDifference` leaves
  out floating point numbers that agree in the digits printed, and no others.
- Names of tests are written into the XML report unescaped
  (`src/reporters/pfstest-reporter-xml.c`), unlike those of files; the registration
  macros make them C identifiers, so the run tries plain ones only.
- The gauge reads a heap of one byte as none, since the loop does not look at
  the first byte.

## Proofs

What the runs check on small instances is proved here for every value of the
constants the assumptions allow: any number of lists, nodes, tests, plugins,
expectations, calls and words, any depth of nesting, any size of the heap.

**Induction** (`PFInduction`). The theorems of the library that state induction
take a predicate as a parameter, which the provers cannot instantiate. Stated
with a set they can be used: `SetInduction` says that a set with 0 that is
closed under successor holds every number, `IntervalInduction` the same up to a
bound; both follow from the existence of a least number, and that from the
well-foundedness of inclusion on finite sets. `IterationExists` gives a loop its
sequence of results, and is how recursive functions over the naturals are
unfolded. Linked structures need no numbers: `Loopless` says that no set of
nodes is closed under the links, and a set of nodes that violates a claim about
chains and is closed under the links is the whole induction. `ChainExists`,
`ChainUnique`, `WalkExists` and `WalkIsChain` tell what a recursive function
that follows links computes, `ChainKept` and `ChainExtended` what becomes of a
chain when links are written.

**Lists** (`PFListProofs`; assumption `ListAssumption`: `NULL` and `Junk` are
not nodes). `ListInv`, types together with `NoJunkRead`, is inductive as it
stands, because a link is written whenever its node is. `ListsHaveNoLoop` needs
one lemma, `LinkingAnEndMakesNoLoop`: if no set of nodes is closed under `next`,
none is after a node is linked and then made an end. Then `Iter` is well defined
in every state (`IterIsChain`), and two more invariants follow the loop:
`CursorInv` (the cursor is in the list appended to, the node not among those
passed) gives `ListsGrowAtEnd`, and with `ApartInv` (lists nobody shared a node
between have no node in common) it gives `ListsAreSequences`, the refinement of
`PFListSpec`. Sharing of nodes between lists is allowed throughout; only the
refinement ends where it begins. `AppendWalksOn` is the variant of the loop: each
round takes the cursor to the next node of a list that does not change.

**Runner** (`PFRunnerProofs`; `RunnerAssumption` types the constants and says
that a plugin is in a list once). Every theorem assumes `FailuresAreCaught`:
plugins do not fail in setup, and do not fail in teardown if some test is
ignored. These are the cases in which the C program jumps through an
uninitialised `jmp_buf`. The invariant comes in layers, each proved with the
ones before it.

1. `ControlInv`: for each place of the code, which levels are active
   (`LevelsInv`), what the two stacks hold (`EnvInv`), which test is in flight
   (`PosInv`) and where a failure would resume (`JmpInv`). None of the checked
   properties is inductive alone: that a failure finds the right context
   depends on the shape of the stacks of all levels. Gives `TypeCorrect` and
   `FailuresStayInTheirRun`.
2. `CountInv`: the reporter's flags agree with the history of the test in flight
   (`FlagsInv`), verdicts are given once (`VerdictInv`), and so the counters
   count them. Gives `SummaryIsRight`.
3. `RanInv`: the phases that ran, by place. Gives `EveryPhaseRan`, and the action
   property `NothingElseAfterFailure`.
4. `ActiveInv`: the plugins still set up are at most those the running loop has
   yet to visit. Gives `ContextsOutlived`.
5. `SetUpInv`: they are at least those. Gives the action property
   `CallbacksAlternate`. It also assumes `TeardownsSucceed`: after a failing
   teardown callback `run_test` starts the teardowns over, and the plugins
   before the one that failed are torn down twice.

`RunnerKeepsPromise` is the refinement of `PFRunSpec` by the outermost run, without
the fairness: initial states are mapped to initial states, and every step of any
level to a verdict, to the end of the run or to none. The abstract state holds
the set of positions that wait for a verdict, so that no step of the argument
needs an induction over the suite. Two facts join the invariants:
`SelectedInv` (a test in flight is one the filter selects) and `FlagsInv` (what
the reporter counts when a test completes is the verdict of the history).
Everything nested runs do, at any depth, is mapped to a stutter (`Quiet`).

`RunsGoOn` is the argument why a run ends. Under `FailuresAreCaught` and
`TeardownsSucceed` every step takes some level on (`Advances`): to a later test of
its suite, to a place of the code with less left to do, or to the next plugin of
a loop, none beyond its bound, while the levels around it stand still. These are
lexicographically decreasing numbers, first those of the outermost level.

**Mocks in nested tests** (in `PFRunnerProofs` too; every theorem assumes
`MocksAreSetUp`, which `MCPFRunner` states as an assumption of its values and which
implies `FailuresAreCaught`: only checks of plugins fail). Every step of the
composed system is one of the runner's or leaves it alone, so `ControlInv` carries
over. `MockEnvInv` says that the environments are, in the order of the stack,
those of the levels at which the mock plugin's setup has run and its teardown has
not (`IsUp`), and that each holds objects of its own level only.
`MocksAlwaysStay` follows: a failure that leaves a nested run by `longjmp` cannot
skip that run's teardown.

**Mocks** (`PFMockProofs`; `MockAssumption` types the constants).
`StubbingInv` relates each expectation to the history of its calls: what is left
of its limit is the limit less the calls it answered, what its handlers wrote is
the last call it recorded, which they accept (`Good`), and one that is shadowed took
none (`Shadow`, `Uncalled`). While the handlers of an expectation act, `Good` has
those before `i` at this call's arguments and the others at the last recorded
call's. That an expectation which was never limited has no limit is what makes it
inductive: otherwise an exhausted one could let a shadowed one answer. `CallGood`
says how far the loops of a running call have come: no expectation before `e` takes
it, the arguments before `i` are accepted by the handlers of `e`, and in
`args_matched` all of them are.
Without it neither the write of one handler nor the record that follows could be
shown to belong to the call. It gives `AnswersStayWithinLimit`, `TheFirstAnswers` and
`HandlersActRight`. `VerdictInv` adds the loop over the verifiers: which calls
those that ran have accounted for, and that none of them failed. `VerdictsAreRight`
rests on a lemma about each kind; what it proves of `verify` is the code's reading,
not the header's (see above). The hard one is `InOrderIsRight`: the greedy
scan of `do_in_order_verification` finds an order among the calls exactly when there is
any way to find it (`ScanFindsMost`, by induction on the calls).

**Command line** (`PFCliProofs`; `CliAssumption`: names and files are not
spelled like flags, and `NULL` is no word). `CliInv` says that the words read
are a set of flags with their values (`Parsed`), that `args` holds the last value
given for each (`Asked`), and that they cannot be read in another way
(`OnlyReading`). `MainDoesWhatArgvMeans` compares it with the reading of the
whole of `argv` that `AreFlagsOf` gives, `ParserStaysInArgv` says that no value
is read behind its end, and `ParserMovesOn` that no word is looked at twice.

**Malloc allocator** (`PFAllocProofs`; `AllocAssumption`: sizes are positive,
`NULL`, the static record and `Junk` are no addresses of the heap, requests are
any numbers). `AllocInv` says how the memory is divided (`Divided`: the blocks
do not overlap, each is as large as the record or the node with its object that
it holds, and belongs to one owner) and what the links are (`LinksInv`: without
loops, and those that are followed are not `Junk`). It is inductive because
`corrupt` writes inside one block (`WriteKeeps`), which is the claim that the
size given to `memset` is right, and because of the order in which the loop of
`pfstest_alloc_free_frame` reads, overwrites and frees. There is one lemma for
each function, which also says what becomes of the list of every frame; they
rest on the lemmas about chains in `PFInduction`. `BlocksHaveOneOwner` reads the
property off, `MallocImplementsAlloc` is the whole refinement of `PFAllocSpec`:
a frame has lost its objects when the loop begins, though it frees one at a time.
`FreeingGoesOn` is the variant of the loop: each round gives back a block that was
handed out.

**PIC allocator** (`PFAllocPicProofs`; `PicAssumption`: the heap and one byte
behind it lie in the address space, a request is a number of its width, `NULL` is
no address). None of the checked properties is inductive. `PicInv` adds that, until
a request wraps, there are numbers `b`, one for each frame, such that (`Layout`) the
record of frame `i` is at `b[i]`, its objects lie between it and the record of the
next, and each record points to the one below. The theorems say the same: they
hold of every request up to the end address of the heap (`FitsMeans`: the check
refuses exactly those that do not fit), and of a larger one that it is handed out.
`ObjectsNeverOverlap` and `FramesAlwaysNest` read this off, the second with an
induction along the recursive `Chain`. `PicImplementsAlloc` is the whole
refinement of `PFAllocSpec` up to then: initial states are mapped to initial states
and every step to one of its steps or to none.

**Memory gauge** (`PFAvrMemProofs`; `AvrMemAssumption` types the constants).
`GaugeInv` has two halves. `UntouchedInv` holds whatever happens: a byte that
neither stack nor heap has ever reached holds the pattern. `ExactInv` is for runs
in which no byte in use looks free: then the free bytes are exactly those between
heap and stack, and what a refill hides of the greatest depth has gone into
`max_stack_used`. The first gives `RefillSparesData` and the bounds a reading keeps
even when bytes look free, the second the exact readings (`ReadingsAreRight`)
and the maximum (`GreatestDepthIsKept`). The conditions are part of the properties:
readings and maximum are exact while no byte in use looks free, bounds hold while
stack and heap have always been apart, a one-byte heap reads as none, and nothing
is claimed after a refill that followed a collision. `find_stack_high_water_mark` is defined by
the rows of four free bytes; `ScanFindsMark` proves that the loop of the C code,
with its `sentinel_count` and `found` (`IsScan`, which `ScanExists` shows to have a
solution for every memory), breaks where and returns what that definition says.

Proving changed the models where they could not be reasoned about: a `CASE` with
overlapping arms has no value the provers know (`PFCli`, `PFFloat`, `PFValues`
have `IF` in the order of the C code now), `2^Width` became the constant
`AddressSpace`, the functions that follow links are total, `PFRunSpec` holds a set
of positions where it held a sequence of tests, and the scan of the gauge is a
set of rows where it was a recursive function.

Model-checked only:

- liveness (`AppendReturns`, `RunEnds`, `FreeingEnds`, `ParsingEnds`, and the fairness
  in `KeepsPromise`): the prover supports neither fairness nor `ENABLED`. What
  each rests on is proved as an action property, the variant (`AppendWalksOn`,
  `RunsGoOn`, `FreeingGoesOn`, `ParserMovesOn`); what is left to TLC is that a step
  is always possible, and the induction over the variant;
- `StandardReadsBack`, `XmlReadsBack`, `PrintedReadsBack`, `AssertIsRight` and
  `FailureShowsDifference`, with the types of `PFReport` and `PFValues`: they compare
  recursive functions over texts and nested data with each other, and each
  would need an induction over data whose predicate the library's theorems take
  as a parameter. The hazards in them are those of an encoding (a bound, an
  escape, an order), which small instances exhibit.

## Not modelled

- Undefined behaviour that named assumptions exclude. `FailuresAreCaught`: a
  plugin that fails where no `setjmp` of the run has been executed.
  `MocksAreSetUp`: a nested run without the mock plugin, whose objects go into
  the environment of the outer test although they die with the inner frame, and
  a plugin that fails in teardown, after which the mock plugin's teardown runs a
  second time and pops the environment of the outer test. `PFAllocPic` stops when
  an object that left the heap has been handed out. `WellUsed` in
  `PFValues`: a list of member matchers longer than the array, whose test reads
  past the boxed members. `PFAvrMem` stops after a refill that follows a
  collision: there is no mark then, and filling starts from a null pointer.
- `do_return` for a mock of a `void` function (a null pointer is dereferenced);
  verifiers registered in the fixture's teardown are registered in `PFMock` but
  what a test may expect of them is stated nowhere.
- The text of mock failures, of the usage message and of the registration commands.
- The rounding of floating point subtraction, and the layout of what `%g` prints
  (its digits are modelled). `the_u32` and `the_u64`, instances of the
  macro of `the_u8` and `the_u16` whose widths exceed TLC's integers.
- The C library and its wrappers in `src/platform`; main programs other than the
  memory statistics of `avr-main.c`; the mock generator, build files, examples.

## Plan

1. Done: list, runner with reporter bookkeeping, allocators, mocks of one test
   and of nested tests, command line, reporters, numbers, values, matchers and
   assertions, the memory gauge; the theorems above.
2. Done: the refinement of `PFRunSpec`, the gauge, and the variants behind the
   liveness properties.
3. Left: composition of the allocator's memory with the objects of the mocks;
   proofs about what is written and read back, one recursive definition at a
   time, as `ScanFindsMark` does it for the gauge.
