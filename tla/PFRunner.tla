------------------------------ MODULE PFRunner ------------------------------
(***************************************************************************)
(* pfstest_suite_run and run_test of src/core/pfstest-core.c: the tests of *)
(* a suite run one by one, each inside a dynamic context (an allocation    *)
(* frame and an entry of the dynamic_env stack), between the setup and     *)
(* teardown callbacks of the plugins; a failing check reports to the       *)
(* reporter of the innermost dynamic_env and leaves through the jmp_buf it *)
(* holds.  A test may itself run another suite (the framework tests itself *)
(* that way), so every local of pfstest_suite_run and run_test is indexed  *)
(* by the nesting level of the run.                                        *)
(***************************************************************************)
EXTENDS Integers, Sequences, FiniteSets

CONSTANTS
  MaxDepth,       \* levels of nested runs (bound)
  Test, Plugin,
  Suites,         \* Suites[d]: the suite run at level d, in list order
  Plugins,        \* Plugins[d]: its plugin list, << >> for a NULL list
  FileOf, NameOf, \* the descriptor of a test
  FilterFiles, FilterNames,  \* filter strings given to a run, NULL for none
  NULL,
  Ignored,        \* tests with _PFSTEST_FLAG_IGNORED
  SetupHook, TeardownHook,   \* tests whose fixture has that function
  FailingCallbacks           \* <<plugin, label>>: callbacks that may fail

Level == 1..MaxDepth

PluginLabels == {"plugin_setup", "plugin_checks", "plugin_teardown"}

Labels == PluginLabels \cup
  { "idle", "loop", "setup", "test", "nested", "resumed", "arm_teardown",
    "teardown", "complete", "pop_env", "pop_frame", "done", "undefined" }

ASSUME RunnerAssumption ==
  /\ MaxDepth \in Nat \ {0}
  /\ Suites \in [Level -> Seq(Test)]
  /\ Plugins \in [Level -> Seq(Plugin)]
  /\ \A d \in Level : \A i, j \in 1..Len(Plugins[d]) :
       Plugins[d][i] = Plugins[d][j] => i = j
  /\ Ignored \subseteq Test
  /\ SetupHook \subseteq Test
  /\ TeardownHook \subseteq Test
  /\ FailingCallbacks \subseteq Plugin \X PluginLabels

Filters == [file : FilterFiles \cup {NULL}, name : FilterNames \cup {NULL}]

VARIABLES
  depth,    \* level of the innermost run, 0 when none runs
  pc,       \* where the code of each level is
  pos,      \* index of the_test in its suite
  plug,     \* index of plugin in plugins_run_callback
  filter,   \* filter_file and filter_name of each level
  env,      \* dynamic_env, top last: the level and the frame it lives in
  frames,   \* number of allocation frames pushed
  jmp,      \* test_jmp_buf of each level's entry: where a failure resumes
  rep,      \* the reporter of each level
  active,   \* the plugins of a level set up and not yet torn down
  raised,   \* history: the current test of a level raised a failure
  ran,      \* history: the phases of the current test that began
  over      \* history: over[d][v], the positions of the tests with verdict v

ctrl == <<depth, pc, pos, plug>>
dyn  == <<env, frames, jmp>>
hist == <<raised, ran, over>>
vars == <<ctrl, filter, dyn, rep, active, hist>>

EnvEntry == [level : Level, frame : Nat]
Phases   == {"setup", "test", "checks", "teardown"}
Verdicts == {"passed", "failed", "ignored"}

-----------------------------------------------------------------------------
(***************************************************************************)
(* The bookkeeping of the standard and verbose reporters.                  *)
(***************************************************************************)
Results == [passed : Nat, failed : Nat, ignored : Nat,
            test_failed : BOOLEAN, test_ignored : BOOLEAN]

RunStarted == [passed |-> 0, failed |-> 0, ignored |-> 0,
               test_failed |-> FALSE, test_ignored |-> FALSE]

TestStarted(r) == [r EXCEPT !.test_failed = FALSE, !.test_ignored = FALSE]

TestIgnored(r) == [r EXCEPT !.test_ignored = TRUE, !.ignored = @ + 1]

\* Variant: counts every failure of a test.
TestFailedAgain(r) == [r EXCEPT !.failed = @ + 1, !.test_failed = TRUE]

TestFailed(r) ==
  IF r.test_failed THEN r
  ELSE [r EXCEPT !.failed = @ + 1, !.test_failed = TRUE]

TestComplete(r) ==
  IF ~r.test_ignored /\ ~r.test_failed THEN [r EXCEPT !.passed = @ + 1] ELSE r

\* Variant: success when something passed.
ReturnValueOptimist(r) == IF r.passed # 0 THEN "success" ELSE "failure"

ReturnValue(r) == IF r.failed = 0 THEN "success" ELSE "failure"

-----------------------------------------------------------------------------
Running(d, label) == depth = d /\ pc[d] = label

the_test(d) == Suites[d][pos[d]]

test_matches_filter(f, t) ==
  /\ f.file = NULL \/ f.file = FileOf[t]
  /\ f.name = NULL \/ f.name = NameOf[t]

PluginsLeft(d) == plug[d] <= Len(Plugins[d])
plugin(d)      == Plugins[d][plug[d]]

Goto(d, label) == pc' = [pc EXCEPT ![d] = label]

\* Go to the head of the loop in plugins_run_callback.
GotoPlugins(d, label) ==
  /\ Goto(d, label)
  /\ plug' = [plug EXCEPT ![d] = 1]

Begins(d, phase) == ran' = [ran EXCEPT ![d] = @ \cup {phase}]

NoVerdicts == [v \in Verdicts |-> {}]

Init ==
  /\ depth = 0
  /\ pc = [d \in Level |-> "idle"]
  /\ pos = [d \in Level |-> 1]
  /\ plug = [d \in Level |-> 1]
  /\ filter \in [Level -> Filters]
  /\ env = << >>
  /\ frames = 0
  /\ jmp = [d \in Level |-> "unset"]
  /\ rep = [d \in Level |-> RunStarted]
  /\ active = [d \in Level |-> {}]
  /\ raised = [d \in Level |-> FALSE]
  /\ ran = [d \in Level |-> {}]
  /\ over = [d \in Level |-> NoVerdicts]

-----------------------------------------------------------------------------
(* pfstest_suite_run *)

EnterRun(d) ==
  /\ pos' = [pos EXCEPT ![d] = 1]
  /\ rep' = [rep EXCEPT ![d] = RunStarted]
  /\ over' = [over EXCEPT ![d] = NoVerdicts]
  /\ depth' = d
  /\ UNCHANGED <<plug, filter, dyn, active, raised, ran>>

\* main calls pfstest_run_registered_tests.
MainRun ==
  /\ depth = 0
  /\ pc[1] = "idle"
  /\ EnterRun(1)
  /\ Goto(1, "loop")

\* A test function calls pfstest_suite_run.
NestedRun(d) ==
  /\ Running(d, "test")
  /\ d < MaxDepth
  /\ EnterRun(d + 1)
  /\ pc' = [pc EXCEPT ![d] = "nested", ![d + 1] = "loop"]

\* Variant: the loop does not advance past a test the filter rejects.
SkipTestForever(d) ==
  /\ Running(d, "loop")
  /\ pos[d] <= Len(Suites[d])
  /\ ~test_matches_filter(filter[d], the_test(d))
  /\ UNCHANGED vars

SkipTest(d) ==
  /\ Running(d, "loop")
  /\ pos[d] <= Len(Suites[d])
  /\ ~test_matches_filter(filter[d], the_test(d))
  /\ pos' = [pos EXCEPT ![d] = @ + 1]
  /\ UNCHANGED <<depth, pc, plug, filter, dyn, rep, active, hist>>

\* push_dynamic_context and the report of the start of the test
StartTest(d) ==
  /\ Running(d, "loop")
  /\ pos[d] <= Len(Suites[d])
  /\ test_matches_filter(filter[d], the_test(d))
  /\ frames' = frames + 1
  /\ env' = Append(env, [level |-> d, frame |-> frames + 1])
  /\ jmp' = [jmp EXCEPT ![d] = "unset"]
  /\ rep' = [rep EXCEPT ![d] = TestStarted(@)]
  /\ raised' = [raised EXCEPT ![d] = FALSE]
  /\ ran' = [ran EXCEPT ![d] = {}]
  /\ GotoPlugins(d, "plugin_setup")
  /\ UNCHANGED <<depth, pos, filter, active, over>>

RunComplete(d) ==
  /\ Running(d, "loop")
  /\ pos[d] > Len(Suites[d])
  /\ depth' = d - 1
  /\ IF d = 1 THEN Goto(1, "done")
     ELSE pc' = [pc EXCEPT ![d] = "done", ![d - 1] = "resumed"]
  /\ UNCHANGED <<pos, plug, filter, dyn, rep, active, hist>>

-----------------------------------------------------------------------------
(* run_test *)

\* One callback of plugins_run_callback returns.
CallPlugin(d, label) ==
  /\ Running(d, label)
  /\ PluginsLeft(d)
  /\ active' = [active EXCEPT ![d] =
       CASE label = "plugin_setup"    -> @ \cup {plugin(d)}
         [] label = "plugin_checks"   -> @
         [] label = "plugin_teardown" -> @ \ {plugin(d)}]
  /\ plug' = [plug EXCEPT ![d] = @ + 1]
  /\ UNCHANGED <<depth, pc, pos, filter, dyn, rep, hist>>

IgnoreTest(d) ==
  /\ Running(d, "plugin_setup")
  /\ ~PluginsLeft(d)
  /\ the_test(d) \in Ignored
  /\ rep' = [rep EXCEPT ![d] = TestIgnored(@)]
  /\ GotoPlugins(d, "plugin_teardown")
  /\ UNCHANGED <<depth, pos, filter, dyn, active, hist>>

\* Variants: no first setjmp; one that skips the fixture's teardown.
ArmBodyWith(d, target) ==
  /\ Running(d, "plugin_setup")
  /\ ~PluginsLeft(d)
  /\ the_test(d) \notin Ignored
  /\ jmp' = [jmp EXCEPT ![d] = target]
  /\ Begins(d, "setup")
  /\ Goto(d, "setup")
  /\ UNCHANGED <<depth, pos, plug, filter, env, frames, rep, active, raised, over>>

ArmBodyNot(d)  == ArmBodyWith(d, "unset")
ArmBodyOnce(d) == ArmBodyWith(d, "plugin_teardown")

\* The first setjmp: a failure skips to the second one.
ArmBody(d) ==
  /\ Running(d, "plugin_setup")
  /\ ~PluginsLeft(d)
  /\ the_test(d) \notin Ignored
  /\ jmp' = [jmp EXCEPT ![d] = "arm_teardown"]
  /\ Begins(d, "setup")
  /\ Goto(d, "setup")
  /\ UNCHANGED <<depth, pos, plug, filter, env, frames, rep, active, raised, over>>

FixtureSetup(d) ==
  /\ Running(d, "setup")
  /\ Begins(d, "test")
  /\ Goto(d, "test")
  /\ UNCHANGED <<depth, pos, plug, filter, dyn, rep, active, raised, over>>

\* Variant: the setup callbacks where the checks belong.
TestFunctionSetsUp(d) ==
  /\ Running(d, "test") \/ Running(d, "resumed")
  /\ Begins(d, "checks")
  /\ GotoPlugins(d, "plugin_setup")
  /\ UNCHANGED <<depth, pos, filter, dyn, rep, active, raised, over>>

TestFunction(d) ==
  /\ Running(d, "test") \/ Running(d, "resumed")
  /\ Begins(d, "checks")
  /\ GotoPlugins(d, "plugin_checks")
  /\ UNCHANGED <<depth, pos, filter, dyn, rep, active, raised, over>>

ChecksDone(d) ==
  /\ Running(d, "plugin_checks")
  /\ ~PluginsLeft(d)
  /\ Goto(d, "arm_teardown")
  /\ UNCHANGED <<depth, pos, plug, filter, dyn, rep, active, hist>>

\* The second setjmp: a failure skips the rest of the fixture's teardown.
ArmTeardown(d) ==
  /\ Running(d, "arm_teardown")
  /\ jmp' = [jmp EXCEPT ![d] = "plugin_teardown"]
  /\ Begins(d, "teardown")
  /\ Goto(d, "teardown")
  /\ UNCHANGED <<depth, pos, plug, filter, env, frames, rep, active, raised, over>>

FixtureTeardown(d) ==
  /\ Running(d, "teardown")
  /\ GotoPlugins(d, "plugin_teardown")
  /\ UNCHANGED <<depth, pos, filter, dyn, rep, active, hist>>

TeardownDone(d) ==
  /\ Running(d, "plugin_teardown")
  /\ ~PluginsLeft(d)
  /\ Goto(d, "complete")
  /\ UNCHANGED <<depth, pos, plug, filter, dyn, rep, active, hist>>

Verdict(d) ==
  IF raised[d] THEN "failed"
  ELSE IF the_test(d) \in Ignored THEN "ignored" ELSE "passed"

ReportComplete(d) ==
  /\ Running(d, "complete")
  /\ rep' = [rep EXCEPT ![d] = TestComplete(@)]
  /\ over' = [over EXCEPT ![d][Verdict(d)] = @ \cup {pos[d]}]
  /\ Goto(d, "pop_env")
  /\ UNCHANGED <<depth, pos, plug, filter, dyn, active, raised, ran>>

\* Variant: the memory goes first.
PopEnvLate(d) ==
  /\ Running(d, "pop_env")
  /\ frames' = frames - 1
  /\ Goto(d, "pop_frame")
  /\ UNCHANGED <<depth, pos, plug, filter, env, jmp, rep, active, hist>>

\* pop_dynamic_context: first the dynamic_env entry, then its memory.
PopEnv(d) ==
  /\ Running(d, "pop_env")
  /\ env' = SubSeq(env, 1, Len(env) - 1)
  /\ Goto(d, "pop_frame")
  /\ UNCHANGED <<depth, pos, plug, filter, frames, jmp, rep, active, hist>>

\* Variant: the frame is popped twice.
PopFrameTwice(d) ==
  /\ Running(d, "pop_frame")
  /\ frames' = frames - 2
  /\ pos' = [pos EXCEPT ![d] = @ + 1]
  /\ Goto(d, "loop")
  /\ UNCHANGED <<depth, plug, filter, env, jmp, rep, active, hist>>

PopFrame(d) ==
  /\ Running(d, "pop_frame")
  /\ frames' = frames - 1
  /\ pos' = [pos EXCEPT ![d] = @ + 1]
  /\ Goto(d, "loop")
  /\ UNCHANGED <<depth, plug, filter, env, jmp, rep, active, hist>>

-----------------------------------------------------------------------------
(* pfstest_fail_with_printer *)

\* The code running at level d is code of the user, or of a plugin that fails.
MayFail(d) ==
  \/ pc[d] = "setup" /\ the_test(d) \in SetupHook
  \/ pc[d] \in {"test", "resumed"}
  \/ pc[d] = "teardown" /\ the_test(d) \in TeardownHook
  \/ /\ pc[d] \in PluginLabels
     /\ PluginsLeft(d)
     /\ <<plugin(d), pc[d]>> \in FailingCallbacks

top == env[Len(env)].level

\* Variant: a failure in the fixture's setup goes on with the test.
LongJmpOn(d) ==
  /\ depth' = d
  /\ pc' = [k \in Level |-> IF k = d THEN IF pc[d] = "setup" THEN "test" ELSE jmp[d]
                            ELSE IF k > d THEN "idle" ELSE pc[k]]
  /\ plug' = [plug EXCEPT ![d] = 1]

\* longjmp to the jmp_buf of level d, abandoning the levels above it; a
\* jmp_buf that was never set has no defined target.
LongJmp(d) ==
  /\ depth' = d
  /\ pc' = [k \in Level |-> IF k = d THEN IF jmp[d] = "unset" THEN "undefined" ELSE jmp[d]
                            ELSE IF k > d THEN "idle" ELSE pc[k]]
  /\ plug' = [plug EXCEPT ![d] = 1]

Fail ==
  /\ depth # 0
  /\ MayFail(depth)
  /\ raised' = [raised EXCEPT ![depth] = TRUE]
  /\ rep' = [rep EXCEPT ![top] = TestFailed(@)]
  /\ LongJmp(top)
  /\ UNCHANGED <<pos, filter, dyn, active, ran, over>>

Terminated == depth = 0 /\ pc[1] = "done" /\ UNCHANGED vars

Next ==
  \/ MainRun
  \/ \E d \in Level :
       \/ NestedRun(d) \/ SkipTest(d) \/ StartTest(d) \/ RunComplete(d)
       \/ \E label \in PluginLabels : CallPlugin(d, label)
       \/ IgnoreTest(d) \/ ArmBody(d) \/ FixtureSetup(d) \/ TestFunction(d)
       \/ ChecksDone(d) \/ ArmTeardown(d) \/ FixtureTeardown(d)
       \/ TeardownDone(d) \/ ReportComplete(d) \/ PopEnv(d) \/ PopFrame(d)
  \/ Fail
  \/ Terminated

Spec == Init /\ [][Next]_vars

\* One thread executes the run, and every function of the user returns or fails.
FairSpec == Spec /\ WF_vars(Next)

-----------------------------------------------------------------------------
TypeOK ==
  /\ depth \in 0..MaxDepth
  /\ pc \in [Level -> Labels]
  /\ pos \in [Level -> Nat \ {0}]
  /\ plug \in [Level -> Nat \ {0}]
  /\ filter \in [Level -> Filters]
  /\ env \in Seq(EnvEntry)
  /\ frames \in Nat
  /\ jmp \in [Level -> {"unset", "arm_teardown", "plugin_teardown"}]
  /\ rep \in [Level -> Results]
  /\ active \in [Level -> SUBSET Plugin]
  /\ raised \in [Level -> BOOLEAN]
  /\ ran \in [Level -> SUBSET Phases]
  /\ over \in [Level -> [Verdicts -> SUBSET (Nat \ {0})]]

(***************************************************************************)
(* What the jmp_buf discipline needs of the plugins: nothing catches a     *)
(* failure in a plugin's setup callback, nor one in the teardown callback  *)
(* for an ignored test, since run_test has not called setjmp yet.          *)
(***************************************************************************)
FailuresAreCaught ==
  /\ \A p \in Plugin : <<p, "plugin_setup">> \notin FailingCallbacks
  /\ \/ \A p \in Plugin : <<p, "plugin_teardown">> \notin FailingCallbacks
     \/ \A d \in Level : \A i \in 1..Len(Suites[d]) : Suites[d][i] \notin Ignored

(***************************************************************************)
(* Wherever user code can fail, the innermost dynamic_env entry is the one *)
(* of the run that calls it and its jmp_buf was set: a failure in a nested *)
(* run never reaches the outer one, one after it never the dead inner one. *)
(***************************************************************************)
FailureStaysInRun ==
  depth # 0 /\ MayFail(depth) =>
    env # << >> /\ top = depth /\ jmp[depth] # "unset"

(***************************************************************************)
(* The memory of every dynamic_env entry is in an allocation frame that is *)
(* still pushed (pop_dynamic_context unlinks the entry before it frees the *)
(* frame), and no plugin of the test is left set up when the frame is      *)
(* freed.                                                                  *)
(***************************************************************************)
ContextsAlive ==
  /\ \A i \in 1..Len(env) : env[i].frame <= frames
  /\ \A d \in Level :
       pc[d] \in {"complete", "pop_env", "pop_frame", "loop", "done"}
         => active[d] = {}

InTestLabels ==
  PluginLabels \cup
  {"setup", "test", "nested", "resumed", "arm_teardown", "teardown", "complete"}

InTest(d) == pc[d] \in InTestLabels

WasIgnored(d) ==
  pc[d] \in {"plugin_teardown", "complete"} /\ the_test(d) \in Ignored

Count(d, v) == Cardinality(over[d][v])

One(b) == IF b THEN 1 ELSE 0

SummaryOf(d) ==
  /\ rep[d].passed = Count(d, "passed")
  /\ rep[d].failed = Count(d, "failed") + One(InTest(d) /\ raised[d])
  /\ rep[d].ignored = Count(d, "ignored") + One(WasIgnored(d))

(***************************************************************************)
(* The reporter's three counters are the numbers of tests that passed,     *)
(* failed and were ignored, however many failures a test raised, in        *)
(* whatever phases and nested runs: a failure counts once, from the moment *)
(* it is raised, for the run whose code raised it.                         *)
(***************************************************************************)
SummaryCounts == \A d \in Level : SummaryOf(d)

(***************************************************************************)
(* A test that is over went through the phases it must: an ignored test    *)
(* through none, any other through the setup and the teardown of its       *)
(* fixture, and through all of them unless something failed.               *)
(***************************************************************************)
PhasesRan ==
  \A d \in Level : pc[d] = "complete" =>
    IF the_test(d) \in Ignored THEN ran[d] = {}
    ELSE /\ {"setup", "teardown"} \subseteq ran[d]
         /\ raised[d] \/ ran[d] = Phases

(***************************************************************************)
(* Nothing of a test begins after a failure of it except the teardown of   *)
(* its fixture: a failed setup skips the test, a failed test the checks.   *)
(***************************************************************************)
SkipsToTeardown ==
  \A d \in Level : raised[d] /\ raised'[d] => ran'[d] \subseteq ran[d] \cup {"teardown"}

FailureSkipsToTeardown == [][SkipsToTeardown]_vars

(***************************************************************************)
(* A plugin's setup and teardown callbacks alternate, for plugins whose    *)
(* teardown does not fail (the mock plugin's does not).                    *)
(***************************************************************************)
CallsPaired ==
  \A d \in Level :
    /\ CallPlugin(d, "plugin_setup") => plugin(d) \notin active[d]
    /\ CallPlugin(d, "plugin_checks") => plugin(d) \in active[d]
    /\ CallPlugin(d, "plugin_teardown") => plugin(d) \in active[d]

PluginCallsPaired == [][CallsPaired]_vars

(***************************************************************************)
(* Every run comes to its end, whatever fails on the way, if plugins'      *)
(* teardown callbacks do not fail (a failing one is called again).         *)
(***************************************************************************)
RunEnds == <>(pc[1] = "done")

(***************************************************************************)
(* The outermost run implements PFRunSpec: its counters show the verdicts  *)
(* of the tests that are over once the one in flight is left out.          *)
(***************************************************************************)
TestsAfter(d) ==
  LET first == IF pc[d] \in {"pop_env", "pop_frame"} THEN pos[d] + 1 ELSE pos[d]
  IN  {i \in first..Len(Suites[d]) : test_matches_filter(filter[d], Suites[d][i])}

Promise == INSTANCE PFRunSpec WITH
  Suite   <- Suites[1],
  Selects <- test_matches_filter,
  filter  <- filter[1],
  pending <- TestsAfter(1),
  counts  <- [passed  |-> rep[1].passed,
              failed  |-> rep[1].failed - One(InTest(1) /\ rep[1].test_failed),
              ignored |-> rep[1].ignored - One(InTest(1) /\ rep[1].test_ignored)],
  result  <- IF pc[1] = "done" THEN ReturnValue(rep[1]) ELSE "running"

KeepsPromise == Promise!Spec
=============================================================================
