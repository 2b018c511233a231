--------------------------- MODULE PFRunnerProofs ---------------------------
(***************************************************************************)
(* Proofs about PFRunner for any suites, fixtures, filters, plugins and    *)
(* depth of nested runs, provided the plugins only fail where run_test can *)
(* catch it (FailuresAreCaught), and about PFMockRuns provided the mock    *)
(* plugin is in the list of every run that uses mocks (MocksAreSetUp).     *)
(*                                                                         *)
(* The runner's invariant is proved in layers.  ControlInv says which      *)
(* dynamic context the code at each place has, so that a failure jumps to  *)
(* a place of the run that raised it; CountInv says what the reporter and  *)
(* the verdicts are in each place; RanInv, ActiveInv and SetUpInv say what *)
(* has run.  MockInv puts the environments of the mocks in step with that. *)
(***************************************************************************)
EXTENDS PFMockRuns, TLAPS, FiniteSetTheorems, SequenceTheorems

BodyLabels == {"setup", "test", "nested", "resumed", "plugin_checks"}

\* A test of level d has its frame and its dynamic_env entry.
InContext(d) == InTest(d) \/ pc[d] = "pop_env"

LevelsInv ==
  \A d \in Level :
    /\ d < depth => pc[d] = "nested"
    /\ d = depth => pc[d] \notin {"nested", "idle", "done", "undefined"}
    /\ d > depth => pc[d] \in {"idle", "done"}

\* One entry for each level whose test is in its context, each in its frame.
EnvInv ==
  /\ Len(env) = IF depth # 0 /\ ~InContext(depth) THEN depth - 1 ELSE depth
  /\ frames = IF depth # 0 /\ pc[depth] = "loop" THEN depth - 1 ELSE depth
  /\ \A i \in 1..Len(env) : env[i] = [level |-> i, frame |-> i]

PosInv ==
  \A d \in Level :
    /\ InContext(d) \/ pc[d] = "pop_frame" => pos[d] <= Len(Suites[d])
    /\ pc[d] \in BodyLabels \cup {"arm_teardown", "teardown"}
         => the_test(d) \notin Ignored

JmpInv ==
  \A d \in Level :
    /\ pc[d] \in BodyLabels \cup {"arm_teardown"} => jmp[d] = "arm_teardown"
    /\ pc[d] = "teardown" => jmp[d] = "plugin_teardown"
    /\ pc[d] = "plugin_teardown" =>
         jmp[d] = "plugin_teardown" \/ the_test(d) \in Ignored

ControlInv == TypeOK /\ LevelsInv /\ EnvInv /\ PosInv /\ JmpInv

-----------------------------------------------------------------------------
\* The reporter's flags are those of the test in flight.
FlagsOf(d) ==
  InTest(d) =>
    /\ rep[d].test_failed = raised[d]
    /\ rep[d].test_ignored = WasIgnored(d)
    /\ raised[d] => the_test(d) \notin Ignored

FlagsInv == \A d \in Level : FlagsOf(d)

\* A test has no verdict before it is over.
VerdictInv ==
  \A d \in Level, v \in Verdicts :
    over[d][v] \subseteq
      1..(IF pc[d] \in {"pop_env", "pop_frame"} THEN pos[d] ELSE pos[d] - 1)

CountInv == FlagsInv /\ VerdictInv /\ SummaryCounts

-----------------------------------------------------------------------------
UpTo(d, phase) ==
  CASE phase = "setup"  -> {"setup"}
    [] phase = "test"   -> {"setup", "test"}
    [] phase = "checks" -> {"setup", "test", "checks"}

\* The phases that began are those the place of the code implies.
RanInv ==
  \A d \in Level :
    /\ pc[d] = "plugin_setup" => ran[d] = {} /\ ~raised[d]
    /\ pc[d] = "setup" => ran[d] = UpTo(d, "setup") /\ ~raised[d]
    /\ pc[d] \in {"test", "nested", "resumed"} => ran[d] = UpTo(d, "test") /\ ~raised[d]
    /\ pc[d] = "plugin_checks" => ran[d] = UpTo(d, "checks") /\ ~raised[d]
    /\ pc[d] = "arm_teardown" =>
         "setup" \in ran[d] /\ (raised[d] \/ ran[d] = UpTo(d, "checks"))
    /\ pc[d] = "teardown" =>
         {"setup", "teardown"} \subseteq ran[d] /\ (raised[d] \/ ran[d] = Phases)
    /\ pc[d] \in {"plugin_teardown", "complete"} =>
         IF the_test(d) \in Ignored THEN ran[d] = {}
         ELSE {"setup", "teardown"} \subseteq ran[d] /\ (raised[d] \/ ran[d] = Phases)

PluginsBetween(d, first, last) == {Plugins[d][i] : i \in first..last}

\* The plugins that are set up are among those the loops have yet to tear down.
ActiveOf(d) ==
  /\ pc[d] \in {"idle", "loop", "done", "complete", "pop_env", "pop_frame"}
       => active[d] = {}
  /\ pc[d] = "plugin_setup" =>
       /\ plug[d] <= Len(Plugins[d]) + 1
       /\ active[d] \subseteq PluginsBetween(d, 1, plug[d] - 1)
  /\ pc[d] \in BodyLabels \cup {"arm_teardown", "teardown"} =>
       active[d] \subseteq PluginsBetween(d, 1, Len(Plugins[d]))
  /\ pc[d] = "plugin_teardown" =>
       active[d] \subseteq PluginsBetween(d, plug[d], Len(Plugins[d]))

ActiveInv == \A d \in Level : ActiveOf(d)

\* The plugins the loops of a level have yet to tear down are set up.
SetUpOf(d) ==
  /\ pc[d] = "plugin_setup" => PluginsBetween(d, 1, plug[d] - 1) \subseteq active[d]
  /\ pc[d] \in BodyLabels \cup {"arm_teardown", "teardown"} =>
       PluginsBetween(d, 1, Len(Plugins[d])) \subseteq active[d]
  /\ pc[d] = "plugin_teardown" =>
       PluginsBetween(d, plug[d], Len(Plugins[d])) \subseteq active[d]

SetUpInv == \A d \in Level : SetUpOf(d)

\* A failing teardown callback would start the teardowns over.
TeardownsSucceed ==
  \A p \in Plugin : <<p, "plugin_teardown">> \notin FailingCallbacks
-----------------------------------------------------------------------------

\* The nesting levels are 1..MaxDepth, and there is one.
LEMMA LevelFacts ==
  /\ MaxDepth \in Nat \ {0}
  /\ 1 \in Level
  /\ Level \subseteq Nat
  /\ \A d \in Int : d \in Level <=> 1 <= d /\ d <= MaxDepth
BY RunnerAssumption DEF RunnerAssumption, Level

\* A run starts and ends one level away from where it is.
LEMMA DepthFacts ==
  ASSUME NEW d \in Level
  PROVE  /\ d \in 0..MaxDepth
         /\ d - 1 \in 0..MaxDepth
         /\ d # 1 => d - 1 \in Level
         /\ d < MaxDepth => d + 1 \in Level
BY LevelFacts

\* While a plugin loop has a node left, that node is a plugin.
LEMMA PluginTyped ==
  ASSUME TypeOK, NEW d \in Level, PluginsLeft(d)
  PROVE  plugin(d) \in Plugin
BY RunnerAssumption DEF RunnerAssumption, TypeOK, PluginsLeft, plugin

(***************************************************************************)
(* What the reporter's handlers do to its counters and flags.              *)
(***************************************************************************)
LEMMA ResultsTyped ==
  /\ RunStarted \in Results
  /\ \A r \in Results : /\ TestStarted(r) \in Results
                        /\ TestIgnored(r) \in Results
                        /\ TestFailed(r) \in Results
                        /\ TestComplete(r) \in Results
<1>1. RunStarted \in Results
  BY DEF Results, RunStarted
<1>2. ASSUME NEW r \in Results PROVE TestStarted(r) \in Results
  BY DEF Results, TestStarted
<1>3. ASSUME NEW r \in Results PROVE TestIgnored(r) \in Results
  <2>1. r.ignored + 1 \in Nat
    BY DEF Results
  <2> QED
    BY <2>1 DEF Results, TestIgnored
<1>4. ASSUME NEW r \in Results PROVE TestFailed(r) \in Results
  <2>1. r.failed + 1 \in Nat
    BY DEF Results
  <2> QED
    BY <2>1 DEF Results, TestFailed
<1>5. ASSUME NEW r \in Results PROVE TestComplete(r) \in Results
  BY DEF Results, TestComplete
<1> QED
  BY <1>1, <1>2, <1>3, <1>4, <1>5

\* Each handler changes the one counter or flag it is for.
LEMMA HandlerFacts ==
  ASSUME NEW r \in Results
  PROVE  /\ r.passed \in Nat /\ r.failed \in Nat /\ r.ignored \in Nat
         /\ TestStarted(r).passed = r.passed
         /\ TestStarted(r).failed = r.failed
         /\ TestStarted(r).ignored = r.ignored
         /\ ~TestStarted(r).test_failed
         /\ ~TestStarted(r).test_ignored
         /\ TestIgnored(r).passed = r.passed
         /\ TestIgnored(r).failed = r.failed
         /\ TestIgnored(r).ignored = r.ignored + 1
         /\ TestIgnored(r).test_failed = r.test_failed
         /\ TestIgnored(r).test_ignored
         /\ TestFailed(r).passed = r.passed
         /\ TestFailed(r).failed = r.failed + One(~r.test_failed)
         /\ TestFailed(r).ignored = r.ignored
         /\ TestFailed(r).test_failed
         /\ TestFailed(r).test_ignored = r.test_ignored
         /\ TestComplete(r).passed =
              r.passed + One(~r.test_ignored /\ ~r.test_failed)
         /\ TestComplete(r).failed = r.failed
         /\ TestComplete(r).ignored = r.ignored
<1>1. r.passed \in Nat /\ r.failed \in Nat /\ r.ignored \in Nat
  BY DEF Results
<1>2. /\ TestStarted(r).passed = r.passed
      /\ TestStarted(r).failed = r.failed
      /\ TestStarted(r).ignored = r.ignored
      /\ ~TestStarted(r).test_failed
      /\ ~TestStarted(r).test_ignored
  BY DEF Results, TestStarted
<1>3. /\ TestIgnored(r).passed = r.passed
      /\ TestIgnored(r).failed = r.failed
      /\ TestIgnored(r).ignored = r.ignored + 1
      /\ TestIgnored(r).test_failed = r.test_failed
      /\ TestIgnored(r).test_ignored
  BY DEF Results, TestIgnored
<1>4. CASE r.test_failed
  BY <1>1, <1>2, <1>3, <1>4 DEF Results, TestFailed, TestComplete, One
<1>5. CASE ~r.test_failed
  <2>1. /\ TestFailed(r).passed = r.passed
        /\ TestFailed(r).failed = r.failed + 1
        /\ TestFailed(r).ignored = r.ignored
        /\ TestFailed(r).test_failed
        /\ TestFailed(r).test_ignored = r.test_ignored
    BY <1>5 DEF Results, TestFailed
  <2>2. /\ TestComplete(r).passed = r.passed + One(~r.test_ignored)
        /\ TestComplete(r).failed = r.failed
        /\ TestComplete(r).ignored = r.ignored
    BY <1>5 DEF Results, TestComplete, One
  <2> QED
    BY <1>1, <1>2, <1>3, <1>5, <2>1, <2>2 DEF One
<1> QED
  BY <1>4, <1>5

(***************************************************************************)
(* The steps of the runner.                                                *)
(***************************************************************************)
LEMMA NextCases ==
  ASSUME [Next]_vars
  PROVE  \/ MainRun
         \/ \E d \in Level : NestedRun(d)
         \/ \E d \in Level : SkipTest(d)
         \/ \E d \in Level : StartTest(d)
         \/ \E d \in Level : RunComplete(d)
         \/ \E d \in Level : \E label \in PluginLabels : CallPlugin(d, label)
         \/ \E d \in Level : IgnoreTest(d)
         \/ \E d \in Level : ArmBody(d)
         \/ \E d \in Level : FixtureSetup(d)
         \/ \E d \in Level : TestFunction(d)
         \/ \E d \in Level : ChecksDone(d)
         \/ \E d \in Level : ArmTeardown(d)
         \/ \E d \in Level : FixtureTeardown(d)
         \/ \E d \in Level : TeardownDone(d)
         \/ \E d \in Level : ReportComplete(d)
         \/ \E d \in Level : PopEnv(d)
         \/ \E d \in Level : PopFrame(d)
         \/ Fail
         \/ UNCHANGED vars
BY DEF Next, Terminated

(***************************************************************************)
(* Where user code can fail, its own run's context is the innermost and    *)
(* its jmp_buf leads to the second setjmp or past it.                      *)
(***************************************************************************)
LEMMA FailFacts ==
  ASSUME ControlInv, FailuresAreCaught, depth # 0, MayFail(depth)
  PROVE  /\ depth \in Level
         /\ top = depth
         /\ env # << >>
         /\ \/ /\ pc[depth] \in {"setup", "test", "resumed", "plugin_checks"}
               /\ jmp[depth] = "arm_teardown"
            \/ /\ pc[depth] \in {"teardown", "plugin_teardown"}
               /\ jmp[depth] = "plugin_teardown"
               /\ the_test(depth) \notin Ignored
<1>1. depth \in Level
  BY LevelFacts DEF ControlInv, TypeOK
<1>2. pc[depth] \in {"setup", "test", "resumed", "plugin_checks", "teardown",
                     "plugin_teardown"}
  BY <1>1, PluginTyped
  DEF ControlInv, MayFail, PluginLabels, FailuresAreCaught
<1>3. InContext(depth)
  BY <1>2 DEF InContext, InTest, InTestLabels, PluginLabels
<1>4. Len(env) = depth /\ env[depth] = [level |-> depth, frame |-> depth]
  BY <1>1, <1>3, LevelFacts DEF ControlInv, EnvInv
<1>5. top = depth /\ env # << >>
  BY <1>1, <1>4, LevelFacts DEF top
<1>6. CASE pc[depth] \in {"setup", "test", "resumed", "plugin_checks"}
  BY <1>1, <1>5, <1>6 DEF ControlInv, JmpInv, BodyLabels
<1>7. CASE pc[depth] = "teardown"
  BY <1>1, <1>5, <1>7 DEF ControlInv, JmpInv, PosInv
<1>8. CASE pc[depth] = "plugin_teardown"
  <2>1. /\ <<plugin(depth), "plugin_teardown">> \in FailingCallbacks
        /\ PluginsLeft(depth)
    BY <1>8 DEF MayFail
  <2>2. plugin(depth) \in Plugin
    BY <1>1, <2>1, PluginTyped DEF ControlInv
  <2>3. pos[depth] \in 1..Len(Suites[depth])
    BY <1>1, <1>3, RunnerAssumption
    DEF RunnerAssumption, ControlInv, PosInv, TypeOK
  <2>4. the_test(depth) \notin Ignored
    BY <1>1, <2>1, <2>2, <2>3 DEF FailuresAreCaught, the_test
  <2> QED
    BY <1>1, <1>5, <1>8, <2>4 DEF ControlInv, JmpInv
<1> QED
  BY <1>2, <1>6, <1>7, <1>8

(***************************************************************************)
(* Every variable keeps its type; the stack discipline of ControlInv is    *)
(* what makes frames a natural number and top a level.                     *)
(***************************************************************************)
LEMMA TypeStep ==
  ASSUME ControlInv, FailuresAreCaught, [Next]_vars
  PROVE  TypeOK'
<1> USE DEF Running, Goto, GotoPlugins, Begins, dyn, hist, TypeOK, ControlInv
<1>1. ASSUME MainRun PROVE TypeOK'
  <2>0. 1 \in Level
    BY LevelFacts
  <2>1. UNCHANGED <<plug, filter, env, frames, jmp, active, raised, ran>>
    BY <1>1 DEF MainRun, EnterRun
  <2>2. (depth \in 0..MaxDepth)'
    BY <1>1, LevelFacts, DepthFacts DEF MainRun, EnterRun
  <2>3. (pc \in [Level -> Labels])'
    BY <1>1, <2>0 DEF MainRun, Labels
  <2>4. (pos \in [Level -> Nat \ {0}])'
    BY <1>1, <2>0 DEF MainRun, EnterRun
  <2>5. (rep \in [Level -> Results])'
    BY <1>1, ResultsTyped DEF MainRun, EnterRun
  <2>6. (over \in [Level -> [Verdicts -> SUBSET (Nat \ {0})]])'
    BY <1>1, <2>0 DEF MainRun, EnterRun, NoVerdicts
  <2> QED
    BY <2>1, <2>2, <2>3, <2>4, <2>5, <2>6
<1>2. ASSUME NEW d \in Level, NestedRun(d) PROVE TypeOK'
  <2>0. d + 1 \in Level
    BY <1>2, DepthFacts DEF NestedRun
  <2>1. UNCHANGED <<plug, filter, env, frames, jmp, active, raised, ran>>
    BY <1>2 DEF NestedRun, EnterRun
  <2>2. (depth \in 0..MaxDepth)'
    BY <1>2, <2>0, DepthFacts DEF NestedRun, EnterRun
  <2>3. (pc \in [Level -> Labels])'
    BY <1>2, <2>0 DEF NestedRun, Labels
  <2>4. (pos \in [Level -> Nat \ {0}])'
    BY <1>2, <2>0 DEF NestedRun, EnterRun
  <2>5. (rep \in [Level -> Results])'
    BY <1>2, <2>0, ResultsTyped DEF NestedRun, EnterRun
  <2>6. (over \in [Level -> [Verdicts -> SUBSET (Nat \ {0})]])'
    BY <1>2, <2>0 DEF NestedRun, EnterRun, NoVerdicts
  <2> QED
    BY <2>1, <2>2, <2>3, <2>4, <2>5, <2>6
<1>3. ASSUME NEW d \in Level, SkipTest(d) PROVE TypeOK'
  BY <1>3 DEF SkipTest
<1>4. ASSUME NEW d \in Level, StartTest(d) PROVE TypeOK'
  <2>1. UNCHANGED <<depth, pos, filter, active, over>>
    BY <1>4 DEF StartTest
  <2>2. (pc \in [Level -> Labels])' /\ (plug \in [Level -> Nat \ {0}])'
    BY <1>4 DEF StartTest, Labels, PluginLabels
  <2>3. (frames \in Nat)' /\ (env \in Seq(EnvEntry))'
    BY <1>4 DEF StartTest, EnvEntry
  <2>4. (rep \in [Level -> Results])'
    BY <1>4, ResultsTyped DEF StartTest
  <2>5. (jmp \in [Level -> {"unset", "arm_teardown", "plugin_teardown"}])'
    BY <1>4 DEF StartTest
  <2>6. (raised \in [Level -> BOOLEAN])' /\ (ran \in [Level -> SUBSET Phases])'
    BY <1>4 DEF StartTest
  <2> QED
    BY <2>1, <2>2, <2>3, <2>4, <2>5, <2>6
<1>5. ASSUME NEW d \in Level, RunComplete(d) PROVE TypeOK'
  <2>1. UNCHANGED <<pos, plug, filter, env, frames, jmp, rep, active, raised, ran, over>>
    BY <1>5 DEF RunComplete
  <2>2. (depth \in 0..MaxDepth)'
    BY <1>5, DepthFacts DEF RunComplete
  <2>3. (pc \in [Level -> Labels])'
    BY <1>5 DEF RunComplete, Labels
  <2> QED
    BY <2>1, <2>2, <2>3
<1>6. ASSUME NEW d \in Level, NEW label \in PluginLabels, CallPlugin(d, label)
      PROVE  TypeOK'
  <2>1. UNCHANGED <<depth, pc, pos, filter, env, frames, jmp, rep, raised, ran, over>>
    BY <1>6 DEF CallPlugin
  <2>2. (plug \in [Level -> Nat \ {0}])'
    BY <1>6 DEF CallPlugin
  <2>3. plugin(d) \in Plugin
    BY <1>6, PluginTyped DEF CallPlugin
  <2>4. (active \in [Level -> SUBSET Plugin])'
    BY <1>6, <2>3 DEF CallPlugin, PluginLabels
  <2> QED
    BY <2>1, <2>2, <2>4
<1>7. ASSUME NEW d \in Level, IgnoreTest(d) PROVE TypeOK'
  <2>1. UNCHANGED <<depth, pos, filter, env, frames, jmp, active, raised, ran, over>>
    BY <1>7 DEF IgnoreTest
  <2>2. (pc \in [Level -> Labels])' /\ (plug \in [Level -> Nat \ {0}])'
    BY <1>7 DEF IgnoreTest, Labels, PluginLabels
  <2>3. (rep \in [Level -> Results])'
    BY <1>7, ResultsTyped DEF IgnoreTest
  <2> QED
    BY <2>1, <2>2, <2>3
<1>8. ASSUME NEW d \in Level, ArmBody(d) PROVE TypeOK'
  BY <1>8 DEF ArmBody, Labels, Phases
<1>9. ASSUME NEW d \in Level, FixtureSetup(d) PROVE TypeOK'
  BY <1>9 DEF FixtureSetup, Labels, Phases
<1>10. ASSUME NEW d \in Level, TestFunction(d) PROVE TypeOK'
  BY <1>10 DEF TestFunction, Labels, PluginLabels, Phases
<1>11. ASSUME NEW d \in Level, ChecksDone(d) PROVE TypeOK'
  BY <1>11 DEF ChecksDone, Labels
<1>12. ASSUME NEW d \in Level, ArmTeardown(d) PROVE TypeOK'
  BY <1>12 DEF ArmTeardown, Labels, Phases
<1>13. ASSUME NEW d \in Level, FixtureTeardown(d) PROVE TypeOK'
  BY <1>13 DEF FixtureTeardown, Labels, PluginLabels
<1>14. ASSUME NEW d \in Level, TeardownDone(d) PROVE TypeOK'
  BY <1>14 DEF TeardownDone, Labels
<1>15. ASSUME NEW d \in Level, ReportComplete(d) PROVE TypeOK'
  <2>1. UNCHANGED <<depth, pos, plug, filter, env, frames, jmp, active, raised, ran>>
    BY <1>15 DEF ReportComplete
  <2>2. (pc \in [Level -> Labels])'
    BY <1>15 DEF ReportComplete, Labels
  <2>3. (rep \in [Level -> Results])'
    BY <1>15, ResultsTyped DEF ReportComplete
  <2>4. Verdict(d) \in Verdicts
    BY DEF Verdict, Verdicts
  <2>5. (over \in [Level -> [Verdicts -> SUBSET (Nat \ {0})]])'
    BY <1>15, <2>4 DEF ReportComplete
  <2> QED
    BY <2>1, <2>2, <2>3, <2>5
<1>16. ASSUME NEW d \in Level, PopEnv(d) PROVE TypeOK'
  <2>1. UNCHANGED <<depth, pos, plug, filter, frames, jmp, rep, active, raised, ran, over>>
    BY <1>16 DEF PopEnv
  <2>2. (pc \in [Level -> Labels])'
    BY <1>16 DEF PopEnv, Labels
  <2>3. (env \in Seq(EnvEntry))'
    BY <1>16 DEF PopEnv
  <2> QED
    BY <2>1, <2>2, <2>3
<1>17. ASSUME NEW d \in Level, PopFrame(d) PROVE TypeOK'
  <2>1. UNCHANGED <<depth, plug, filter, env, jmp, rep, active, raised, ran, over>>
    BY <1>17 DEF PopFrame
  <2>2. (pc \in [Level -> Labels])' /\ (pos \in [Level -> Nat \ {0}])'
    BY <1>17 DEF PopFrame, Labels
  <2>3. (frames \in Nat)'
    BY <1>17, LevelFacts DEF PopFrame, EnvInv
  <2> QED
    BY <2>1, <2>2, <2>3
<1>18. ASSUME Fail PROVE TypeOK'
  <2>1. UNCHANGED <<pos, filter, env, frames, jmp, active, ran, over>>
    BY <1>18 DEF Fail
  <2>2. depth \in Level /\ top = depth /\ jmp[depth] # "unset"
    BY <1>18, FailFacts DEF Fail
  <2>3. (depth \in 0..MaxDepth)'
    BY <1>18, <2>2, DepthFacts DEF Fail, LongJmp
  <2>4. (pc \in [Level -> Labels])' /\ (plug \in [Level -> Nat \ {0}])'
    BY <1>18, <2>2 DEF Fail, LongJmp, Labels, PluginLabels
  <2>5. (rep \in [Level -> Results])' /\ (raised \in [Level -> BOOLEAN])'
    BY <1>18, <2>2, ResultsTyped DEF Fail
  <2> QED
    BY <2>1, <2>3, <2>4, <2>5
<1>19. ASSUME UNCHANGED vars PROVE TypeOK'
  BY <1>19 DEF vars, ctrl
<1> QED
  BY <1>1, <1>2, <1>3, <1>4, <1>5, <1>6, <1>7, <1>8, <1>9, <1>10, <1>11, <1>12, <1>13, <1>14, <1>15, <1>16, <1>17, <1>18, <1>19, NextCases
 

(***************************************************************************)
(* The innermost run is the only one that executes; the levels below it    *)
(* wait in pfstest_suite_run, the levels above it are not running.         *)
(***************************************************************************)
LEMMA LevelsStep ==
  ASSUME ControlInv, FailuresAreCaught, [Next]_vars
  PROVE  LevelsInv'
<1> USE LevelFacts DEF ControlInv, TypeOK, Running, Goto,
        GotoPlugins, Begins, dyn, hist, InContext, InTest, InTestLabels,
        PluginLabels, BodyLabels, LevelsInv
<1>1. ASSUME MainRun PROVE LevelsInv'
  BY <1>1 DEF MainRun, EnterRun, LevelsInv
<1>2. ASSUME NEW d \in Level, NestedRun(d) PROVE LevelsInv'
  BY <1>2 DEF NestedRun, EnterRun, LevelsInv
<1>3. ASSUME NEW d \in Level, SkipTest(d) PROVE LevelsInv'
  BY <1>3 DEF SkipTest, LevelsInv
<1>4. ASSUME NEW d \in Level, StartTest(d) PROVE LevelsInv'
  BY <1>4 DEF StartTest, LevelsInv
<1>5. ASSUME NEW d \in Level, RunComplete(d) PROVE LevelsInv'
  BY <1>5 DEF RunComplete, LevelsInv
<1>6. ASSUME NEW d \in Level, NEW label \in PluginLabels, CallPlugin(d, label)
      PROVE  LevelsInv'
  BY <1>6 DEF CallPlugin, LevelsInv
<1>7. ASSUME NEW d \in Level, IgnoreTest(d) PROVE LevelsInv'
  BY <1>7 DEF IgnoreTest, LevelsInv
<1>8. ASSUME NEW d \in Level, ArmBody(d) PROVE LevelsInv'
  BY <1>8 DEF ArmBody, LevelsInv
<1>9. ASSUME NEW d \in Level, FixtureSetup(d) PROVE LevelsInv'
  BY <1>9 DEF FixtureSetup, LevelsInv
<1>10. ASSUME NEW d \in Level, TestFunction(d) PROVE LevelsInv'
  BY <1>10 DEF TestFunction, LevelsInv
<1>11. ASSUME NEW d \in Level, ChecksDone(d) PROVE LevelsInv'
  BY <1>11 DEF ChecksDone, LevelsInv
<1>12. ASSUME NEW d \in Level, ArmTeardown(d) PROVE LevelsInv'
  BY <1>12 DEF ArmTeardown, LevelsInv
<1>13. ASSUME NEW d \in Level, FixtureTeardown(d) PROVE LevelsInv'
  BY <1>13 DEF FixtureTeardown, LevelsInv
<1>14. ASSUME NEW d \in Level, TeardownDone(d) PROVE LevelsInv'
  BY <1>14 DEF TeardownDone, LevelsInv
<1>15. ASSUME NEW d \in Level, ReportComplete(d) PROVE LevelsInv'
  BY <1>15 DEF ReportComplete, LevelsInv
<1>16. ASSUME NEW d \in Level, PopEnv(d) PROVE LevelsInv'
  BY <1>16 DEF PopEnv, LevelsInv
<1>17. ASSUME NEW d \in Level, PopFrame(d) PROVE LevelsInv'
  BY <1>17 DEF PopFrame, LevelsInv
<1>18. ASSUME Fail PROVE LevelsInv'
  BY <1>18, FailFacts DEF Fail, LongJmp, LevelsInv
<1>19. ASSUME UNCHANGED vars PROVE LevelsInv'
  BY <1>19 DEF vars, ctrl, LevelsInv
<1> QED
  BY <1>1, <1>2, <1>3, <1>4, <1>5, <1>6, <1>7, <1>8, <1>9, <1>10, <1>11, <1>12, <1>13, <1>14, <1>15, <1>16, <1>17, <1>18, <1>19, NextCases
 

(***************************************************************************)
(* The contexts are those of the levels with a test in flight, innermost on *)
(* top, each entry in the frame pushed with it.                            *)
(***************************************************************************)
LEMMA EnvStep ==
  ASSUME ControlInv, FailuresAreCaught, [Next]_vars
  PROVE  EnvInv'
<1> USE LevelFacts DEF ControlInv, TypeOK, Running, Goto,
        GotoPlugins, Begins, dyn, hist, InContext, InTest, InTestLabels,
        PluginLabels, BodyLabels, LevelsInv
<1>1. ASSUME MainRun PROVE EnvInv'
  BY <1>1 DEF MainRun, EnterRun, EnvInv
<1>2. ASSUME NEW d \in Level, NestedRun(d) PROVE EnvInv'
  <2>1. depth = d /\ pc[d] = "test" /\ depth' = d + 1 /\ d + 1 \in Level
    BY <1>2, DepthFacts DEF NestedRun, EnterRun
  <2>2. pc'[d + 1] = "loop" /\ UNCHANGED <<env, frames>>
    BY <1>2, <2>1 DEF NestedRun, EnterRun
  <2>3. /\ Len(env) = d
        /\ frames = d
        /\ \A i \in 1..Len(env) : env[i] = [level |-> i, frame |-> i]
    BY <2>1 DEF EnvInv
  <2>4. ~InContext(depth)' /\ pc'[depth'] = "loop"
    BY <2>1, <2>2
  <2> QED
    BY <2>1, <2>2, <2>3, <2>4 DEF EnvInv
<1>3. ASSUME NEW d \in Level, SkipTest(d) PROVE EnvInv'
  BY <1>3 DEF SkipTest, EnvInv
<1>4. ASSUME NEW d \in Level, StartTest(d) PROVE EnvInv'
  BY <1>4 DEF StartTest, EnvInv
<1>5. ASSUME NEW d \in Level, RunComplete(d) PROVE EnvInv'
  BY <1>5 DEF RunComplete, EnvInv
<1>6. ASSUME NEW d \in Level, NEW label \in PluginLabels, CallPlugin(d, label)
      PROVE  EnvInv'
  BY <1>6 DEF CallPlugin, EnvInv
<1>7. ASSUME NEW d \in Level, IgnoreTest(d) PROVE EnvInv'
  BY <1>7 DEF IgnoreTest, EnvInv
<1>8. ASSUME NEW d \in Level, ArmBody(d) PROVE EnvInv'
  BY <1>8 DEF ArmBody, EnvInv
<1>9. ASSUME NEW d \in Level, FixtureSetup(d) PROVE EnvInv'
  BY <1>9 DEF FixtureSetup, EnvInv
<1>10. ASSUME NEW d \in Level, TestFunction(d) PROVE EnvInv'
  BY <1>10 DEF TestFunction, EnvInv
<1>11. ASSUME NEW d \in Level, ChecksDone(d) PROVE EnvInv'
  BY <1>11 DEF ChecksDone, EnvInv
<1>12. ASSUME NEW d \in Level, ArmTeardown(d) PROVE EnvInv'
  BY <1>12 DEF ArmTeardown, EnvInv
<1>13. ASSUME NEW d \in Level, FixtureTeardown(d) PROVE EnvInv'
  BY <1>13 DEF FixtureTeardown, EnvInv
<1>14. ASSUME NEW d \in Level, TeardownDone(d) PROVE EnvInv'
  BY <1>14 DEF TeardownDone, EnvInv
<1>15. ASSUME NEW d \in Level, ReportComplete(d) PROVE EnvInv'
  BY <1>15 DEF ReportComplete, EnvInv
<1>16. ASSUME NEW d \in Level, PopEnv(d) PROVE EnvInv'
  <2>1. Len(env) = d /\ depth' = d /\ frames' = d
    BY <1>16 DEF PopEnv, EnvInv
  <2>2. Len(env') = d - 1 /\ \A i \in 1..Len(env') : env'[i] = env[i]
    BY <1>16, <2>1 DEF PopEnv
  <2>3. pc'[d] = "pop_frame"
    BY <1>16 DEF PopEnv
  <2>4. \A i \in 1..Len(env') : env'[i] = [level |-> i, frame |-> i]
    <3>1. \A i \in 1..Len(env) : env[i] = [level |-> i, frame |-> i]
      BY DEF EnvInv
    <3>2. d \in Nat
      BY DepthFacts
    <3>3. 1..Len(env') \subseteq 1..Len(env)
      BY ONLY <2>1, <2>2, <3>2
    <3> QED
      BY ONLY <2>2, <3>1, <3>3
  <2>5. depth' # 0 /\ ~InContext(depth)' /\ pc'[depth'] # "loop"
    BY <2>1, <2>3
  <2> QED
    BY ONLY <2>1, <2>2, <2>4, <2>5 DEF EnvInv
<1>17. ASSUME NEW d \in Level, PopFrame(d) PROVE EnvInv'
  BY <1>17 DEF PopFrame, EnvInv
<1>18. ASSUME Fail PROVE EnvInv'
  BY <1>18, FailFacts DEF Fail, LongJmp, EnvInv
<1>19. ASSUME UNCHANGED vars PROVE EnvInv'
  BY <1>19 DEF vars, ctrl, EnvInv
<1> QED
  BY <1>1, <1>2, <1>3, <1>4, <1>5, <1>6, <1>7, <1>8, <1>9, <1>10, <1>11, <1>12, <1>13, <1>14, <1>15, <1>16, <1>17, <1>18, <1>19, NextCases
 

(***************************************************************************)
(* A test in flight is a test of its suite, and an ignored one never       *)
(* reaches its fixture.                                                    *)
(***************************************************************************)
LEMMA PosStep ==
  ASSUME ControlInv, FailuresAreCaught, [Next]_vars
  PROVE  PosInv'
<1> USE LevelFacts DEF ControlInv, TypeOK, Running, Goto,
        GotoPlugins, Begins, dyn, hist, InContext, InTest, InTestLabels,
        PluginLabels, BodyLabels, LevelsInv
<1>1. ASSUME MainRun PROVE PosInv'
  BY <1>1 DEF MainRun, EnterRun, PosInv, the_test
<1>2. ASSUME NEW d \in Level, NestedRun(d) PROVE PosInv'
  BY <1>2 DEF NestedRun, EnterRun, PosInv, the_test
<1>3. ASSUME NEW d \in Level, SkipTest(d) PROVE PosInv'
  BY <1>3 DEF SkipTest, PosInv, the_test
<1>4. ASSUME NEW d \in Level, StartTest(d) PROVE PosInv'
  BY <1>4 DEF StartTest, PosInv, the_test
<1>5. ASSUME NEW d \in Level, RunComplete(d) PROVE PosInv'
  BY <1>5 DEF RunComplete, PosInv, the_test
<1>6. ASSUME NEW d \in Level, NEW label \in PluginLabels, CallPlugin(d, label)
      PROVE  PosInv'
  BY <1>6 DEF CallPlugin, PosInv, the_test
<1>7. ASSUME NEW d \in Level, IgnoreTest(d) PROVE PosInv'
  BY <1>7 DEF IgnoreTest, PosInv, the_test
<1>8. ASSUME NEW d \in Level, ArmBody(d) PROVE PosInv'
  BY <1>8 DEF ArmBody, PosInv, the_test
<1>9. ASSUME NEW d \in Level, FixtureSetup(d) PROVE PosInv'
  BY <1>9 DEF FixtureSetup, PosInv, the_test
<1>10. ASSUME NEW d \in Level, TestFunction(d) PROVE PosInv'
  BY <1>10 DEF TestFunction, PosInv, the_test
<1>11. ASSUME NEW d \in Level, ChecksDone(d) PROVE PosInv'
  BY <1>11 DEF ChecksDone, PosInv, the_test
<1>12. ASSUME NEW d \in Level, ArmTeardown(d) PROVE PosInv'
  BY <1>12 DEF ArmTeardown, PosInv, the_test
<1>13. ASSUME NEW d \in Level, FixtureTeardown(d) PROVE PosInv'
  BY <1>13 DEF FixtureTeardown, PosInv, the_test
<1>14. ASSUME NEW d \in Level, TeardownDone(d) PROVE PosInv'
  BY <1>14 DEF TeardownDone, PosInv, the_test
<1>15. ASSUME NEW d \in Level, ReportComplete(d) PROVE PosInv'
  BY <1>15 DEF ReportComplete, PosInv, the_test
<1>16. ASSUME NEW d \in Level, PopEnv(d) PROVE PosInv'
  BY <1>16 DEF PopEnv, PosInv, the_test
<1>17. ASSUME NEW d \in Level, PopFrame(d) PROVE PosInv'
  BY <1>17 DEF PopFrame, PosInv, the_test
<1>18. ASSUME Fail PROVE PosInv'
  BY <1>18, FailFacts DEF Fail, LongJmp, PosInv, the_test
<1>19. ASSUME UNCHANGED vars PROVE PosInv'
  BY <1>19 DEF vars, ctrl, PosInv, the_test
<1> QED
  BY <1>1, <1>2, <1>3, <1>4, <1>5, <1>6, <1>7, <1>8, <1>9, <1>10, <1>11, <1>12, <1>13, <1>14, <1>15, <1>16, <1>17, <1>18, <1>19, NextCases
 

(***************************************************************************)
(* The jmp_buf of a test in flight was set by the setjmp its code last went *)
(* through.                                                                *)
(***************************************************************************)
LEMMA JmpStep ==
  ASSUME ControlInv, FailuresAreCaught, [Next]_vars
  PROVE  JmpInv'
<1> USE LevelFacts DEF ControlInv, TypeOK, Running, Goto,
        GotoPlugins, Begins, dyn, hist, InContext, InTest, InTestLabels,
        PluginLabels, BodyLabels, LevelsInv
<1>1. ASSUME MainRun PROVE JmpInv'
  BY <1>1 DEF MainRun, EnterRun, JmpInv, the_test, PosInv
<1>2. ASSUME NEW d \in Level, NestedRun(d) PROVE JmpInv'
  BY <1>2 DEF NestedRun, EnterRun, JmpInv, the_test, PosInv
<1>3. ASSUME NEW d \in Level, SkipTest(d) PROVE JmpInv'
  BY <1>3 DEF SkipTest, JmpInv, the_test, PosInv
<1>4. ASSUME NEW d \in Level, StartTest(d) PROVE JmpInv'
  BY <1>4 DEF StartTest, JmpInv, the_test, PosInv
<1>5. ASSUME NEW d \in Level, RunComplete(d) PROVE JmpInv'
  <2>1. UNCHANGED <<jmp, pos>>
    BY <1>5 DEF RunComplete
  <2>2. ASSUME NEW k \in Level, k # d, k # d - 1 PROVE pc'[k] = pc[k]
    BY <1>5, <2>2 DEF RunComplete
  <2>3. pc'[d] = "done"
    BY <1>5 DEF RunComplete
  <2>4. d - 1 \in Level => pc[d - 1] = "nested" /\ pc'[d - 1] = "resumed"
    BY <1>5 DEF RunComplete
  <2> QED
    BY <2>1, <2>2, <2>3, <2>4 DEF JmpInv, the_test
<1>6. ASSUME NEW d \in Level, NEW label \in PluginLabels, CallPlugin(d, label)
      PROVE  JmpInv'
  BY <1>6 DEF CallPlugin, JmpInv, the_test, PosInv
<1>7. ASSUME NEW d \in Level, IgnoreTest(d) PROVE JmpInv'
  BY <1>7 DEF IgnoreTest, JmpInv, the_test, PosInv
<1>8. ASSUME NEW d \in Level, ArmBody(d) PROVE JmpInv'
  BY <1>8 DEF ArmBody, JmpInv, the_test, PosInv
<1>9. ASSUME NEW d \in Level, FixtureSetup(d) PROVE JmpInv'
  BY <1>9 DEF FixtureSetup, JmpInv, the_test, PosInv
<1>10. ASSUME NEW d \in Level, TestFunction(d) PROVE JmpInv'
  BY <1>10 DEF TestFunction, JmpInv, the_test, PosInv
<1>11. ASSUME NEW d \in Level, ChecksDone(d) PROVE JmpInv'
  BY <1>11 DEF ChecksDone, JmpInv, the_test, PosInv
<1>12. ASSUME NEW d \in Level, ArmTeardown(d) PROVE JmpInv'
  BY <1>12 DEF ArmTeardown, JmpInv, the_test, PosInv
<1>13. ASSUME NEW d \in Level, FixtureTeardown(d) PROVE JmpInv'
  BY <1>13 DEF FixtureTeardown, JmpInv, the_test, PosInv
<1>14. ASSUME NEW d \in Level, TeardownDone(d) PROVE JmpInv'
  BY <1>14 DEF TeardownDone, JmpInv, the_test, PosInv
<1>15. ASSUME NEW d \in Level, ReportComplete(d) PROVE JmpInv'
  BY <1>15 DEF ReportComplete, JmpInv, the_test, PosInv
<1>16. ASSUME NEW d \in Level, PopEnv(d) PROVE JmpInv'
  BY <1>16 DEF PopEnv, JmpInv, the_test, PosInv
<1>17. ASSUME NEW d \in Level, PopFrame(d) PROVE JmpInv'
  BY <1>17 DEF PopFrame, JmpInv, the_test, PosInv
<1>18. ASSUME Fail PROVE JmpInv'
  BY <1>18, FailFacts DEF Fail, LongJmp, JmpInv, the_test, PosInv
<1>19. ASSUME UNCHANGED vars PROVE JmpInv'
  BY <1>19 DEF vars, ctrl, JmpInv, the_test, PosInv
<1> QED
  BY <1>1, <1>2, <1>3, <1>4, <1>5, <1>6, <1>7, <1>8, <1>9, <1>10, <1>11, <1>12, <1>13, <1>14, <1>15, <1>16, <1>17, <1>18, <1>19, NextCases
 

(***************************************************************************)
(* The control invariant of the runner.                                    *)
(***************************************************************************)
THEOREM ControlInvHolds ==
  ASSUME FailuresAreCaught
  PROVE  Spec => []ControlInv
<1>1. Init => ControlInv
  <2> SUFFICES ASSUME Init PROVE ControlInv
    OBVIOUS
  <2> USE DEF Init
  <2>1. TypeOK
    BY ResultsTyped, LevelFacts
    DEF TypeOK, Labels, NoVerdicts, Verdicts, Filters, EnvEntry
  <2>2. LevelsInv /\ EnvInv
    BY LevelFacts DEF LevelsInv, EnvInv
  <2>3. PosInv /\ JmpInv
    BY DEF PosInv, JmpInv, InContext, InTest, InTestLabels, PluginLabels,
           BodyLabels
  <2> QED
    BY <2>1, <2>2, <2>3 DEF ControlInv
<1>2. ControlInv /\ [Next]_vars => ControlInv'
  BY TypeStep, LevelsStep, EnvStep, PosStep, JmpStep DEF ControlInv
<1> QED
  BY <1>1, <1>2, PTL DEF Spec

(***************************************************************************)
(* Every variable keeps its type.                                          *)
(***************************************************************************)
THEOREM TypeCorrect ==
  ASSUME FailuresAreCaught
  PROVE  Spec => []TypeOK
<1>1. ControlInv => TypeOK
  BY DEF ControlInv
<1> QED
  BY <1>1, ControlInvHolds, PTL

(***************************************************************************)
(* A failure is always reported to the reporter of the run whose code      *)
(* raised it, and leaves through a jmp_buf that run has set: it never      *)
(* reaches another run or a function that has returned.                    *)
(***************************************************************************)
THEOREM FailuresStayInTheirRun ==
  ASSUME FailuresAreCaught
  PROVE  Spec => []FailureStaysInRun
<1>1. ControlInv => FailureStaysInRun
  BY FailFacts DEF FailureStaysInRun
<1> QED
  BY <1>1, ControlInvHolds, PTL

-----------------------------------------------------------------------------
\* Each verdict has finitely many positions: none is beyond the test in flight.
LEMMA CountNat ==
  ASSUME ControlInv, VerdictInv, NEW d \in Level, NEW v \in Verdicts
  PROVE  IsFiniteSet(over[d][v]) /\ Count(d, v) \in Nat
<1>1. over[d][v] \subseteq 1..pos[d] /\ pos[d] \in Nat
  BY DEF VerdictInv, ControlInv, TypeOK
<1>2. IsFiniteSet(1..pos[d])
  BY <1>1, FS_Interval
<1> QED
  BY <1>1, <1>2, FS_Subset, FS_CardinalityType DEF Count

(***************************************************************************)
(* A verdict is added for a position that has none yet.                    *)
(***************************************************************************)
LEMMA CountAdd ==
  ASSUME ControlInv, VerdictInv, NEW d \in Level, NEW v \in Verdicts,
         pc[d] = "complete"
  PROVE  Cardinality(over[d][v] \cup {pos[d]}) = Count(d, v) + 1
<1>1. over[d][v] \subseteq 1..(pos[d] - 1) /\ pos[d] \in Nat
  BY DEF VerdictInv, ControlInv, TypeOK
<1>2. pos[d] \notin over[d][v]
  BY <1>1
<1> QED
  BY <1>2, CountNat, FS_AddElement DEF Count

(***************************************************************************)
(* The summary and the flags of a level depend on nothing else.            *)
(***************************************************************************)
LEMMA SameSummary ==
  ASSUME NEW k \in Level, SummaryOf(k),
         rep'[k] = rep[k], over'[k] = over[k], raised'[k] = raised[k],
         InTest(k)' <=> InTest(k), WasIgnored(k)' <=> WasIgnored(k)
  PROVE  SummaryOf(k)'
BY DEF SummaryOf, Count, One

\* A step that touches neither keeps the reporter's flags right.
LEMMA SameFlags ==
  ASSUME NEW k \in Level, FlagsOf(k),
         rep'[k] = rep[k], raised'[k] = raised[k], pos'[k] = pos[k],
         InTest(k)' => InTest(k), WasIgnored(k)' = WasIgnored(k)
  PROVE  FlagsOf(k)'
BY DEF FlagsOf, the_test

(***************************************************************************)
(* The reporter's flags follow the history of the test in flight.          *)
(***************************************************************************)
LEMMA FlagsStep ==
  ASSUME ControlInv, CountInv, FailuresAreCaught, [Next]_vars
  PROVE  FlagsInv'
<1> USE LevelFacts DEF ControlInv, CountInv, TypeOK, Running, Goto,
        GotoPlugins, Begins, dyn, hist, InTest, InTestLabels, PluginLabels,
        LevelsInv
<1>1. ASSUME MainRun PROVE FlagsInv'
  BY <1>1
  DEF MainRun, EnterRun, FlagsInv, FlagsOf, WasIgnored, the_test, PosInv,
      BodyLabels
<1>2. ASSUME NEW d \in Level, NestedRun(d) PROVE FlagsInv'
  BY <1>2
  DEF NestedRun, EnterRun, FlagsInv, FlagsOf, WasIgnored, the_test, PosInv,
      BodyLabels
<1>3. ASSUME NEW d \in Level, SkipTest(d) PROVE FlagsInv'
  BY <1>3
  DEF SkipTest, FlagsInv, FlagsOf, WasIgnored, the_test, PosInv, BodyLabels
<1>4. ASSUME NEW d \in Level, StartTest(d) PROVE FlagsInv'
  <2>1. /\ rep'[d] = TestStarted(rep[d]) /\ rep[d] \in Results
        /\ pc'[d] = "plugin_setup" /\ raised'[d] = FALSE
    BY <1>4 DEF StartTest
  <2>0. /\ TestStarted(rep[d]).test_failed = FALSE
        /\ TestStarted(rep[d]).test_ignored = FALSE
    BY <2>1 DEF TestStarted, Results
  <2>2. FlagsOf(d)'
    BY <2>0, <2>1 DEF FlagsOf, WasIgnored
  <2>3. ASSUME NEW k \in Level, k # d PROVE FlagsOf(k)'
    BY <1>4, <2>3 DEF StartTest, FlagsInv, FlagsOf, WasIgnored, the_test
  <2> QED
    BY <2>2, <2>3 DEF FlagsInv
<1>5. ASSUME NEW d \in Level, RunComplete(d) PROVE FlagsInv'
  <2> SUFFICES ASSUME NEW k \in Level PROVE FlagsOf(k)'
    BY DEF FlagsInv
  <2>1. /\ rep'[k] = rep[k] /\ raised'[k] = raised[k] /\ pos'[k] = pos[k]
    BY <1>5 DEF RunComplete
  <2>2. \/ pc'[k] = pc[k]
        \/ pc[k] = "loop" /\ pc'[k] = "done"
        \/ pc[k] = "nested" /\ pc'[k] = "resumed"
    BY <1>5, LevelFacts DEF RunComplete
  <2> QED
    BY <2>1, <2>2 DEF FlagsInv, FlagsOf, WasIgnored, the_test
<1>6. ASSUME NEW d \in Level, NEW label \in PluginLabels, CallPlugin(d, label)
      PROVE  FlagsInv'
  BY <1>6
  DEF CallPlugin, FlagsInv, FlagsOf, WasIgnored, the_test, PosInv, BodyLabels
<1>7. ASSUME NEW d \in Level, IgnoreTest(d) PROVE FlagsInv'
  <2>1. /\ rep'[d] = TestIgnored(rep[d]) /\ rep[d] \in Results
        /\ pc'[d] = "plugin_teardown" /\ raised'[d] = raised[d]
        /\ pos'[d] = pos[d] /\ the_test(d) \in Ignored
    BY <1>7 DEF IgnoreTest
  <2>2. rep[d].test_failed = raised[d] /\ ~raised[d]
    BY <1>7 DEF IgnoreTest, FlagsInv, FlagsOf
  <2>3. WasIgnored(d)' = TRUE
    BY <2>1 DEF WasIgnored, the_test
  <2>4. /\ TestIgnored(rep[d]).test_failed = rep[d].test_failed
        /\ TestIgnored(rep[d]).test_ignored = TRUE
    BY <2>1 DEF TestIgnored, Results
  <2>5. FlagsOf(d)'
    BY <2>1, <2>2, <2>3, <2>4 DEF FlagsOf
  <2>6. ASSUME NEW k \in Level, k # d PROVE FlagsOf(k)'
    BY <1>7, <2>6 DEF IgnoreTest, FlagsInv, FlagsOf, WasIgnored, the_test
  <2> QED
    BY <2>5, <2>6 DEF FlagsInv
<1>8. ASSUME NEW d \in Level, ArmBody(d) PROVE FlagsInv'
  BY <1>8
  DEF ArmBody, FlagsInv, FlagsOf, WasIgnored, the_test, PosInv, BodyLabels
<1>9. ASSUME NEW d \in Level, FixtureSetup(d) PROVE FlagsInv'
  BY <1>9
  DEF FixtureSetup, FlagsInv, FlagsOf, WasIgnored, the_test, PosInv,
      BodyLabels
<1>10. ASSUME NEW d \in Level, TestFunction(d) PROVE FlagsInv'
  BY <1>10
  DEF TestFunction, FlagsInv, FlagsOf, WasIgnored, the_test, PosInv,
      BodyLabels
<1>11. ASSUME NEW d \in Level, ChecksDone(d) PROVE FlagsInv'
  BY <1>11
  DEF ChecksDone, FlagsInv, FlagsOf, WasIgnored, the_test, PosInv, BodyLabels
<1>12. ASSUME NEW d \in Level, ArmTeardown(d) PROVE FlagsInv'
  BY <1>12
  DEF ArmTeardown, FlagsInv, FlagsOf, WasIgnored, the_test, PosInv,
      BodyLabels
<1>13. ASSUME NEW d \in Level, FixtureTeardown(d) PROVE FlagsInv'
  BY <1>13
  DEF FixtureTeardown, FlagsInv, FlagsOf, WasIgnored, the_test, PosInv,
      BodyLabels
<1>14. ASSUME NEW d \in Level, TeardownDone(d) PROVE FlagsInv'
  BY <1>14
  DEF TeardownDone, FlagsInv, FlagsOf, WasIgnored, the_test, PosInv,
      BodyLabels
<1>15. ASSUME NEW d \in Level, ReportComplete(d) PROVE FlagsInv'
  BY <1>15
  DEF ReportComplete, FlagsInv, FlagsOf, WasIgnored, the_test, PosInv,
      BodyLabels
<1>16. ASSUME NEW d \in Level, PopEnv(d) PROVE FlagsInv'
  BY <1>16
  DEF PopEnv, FlagsInv, FlagsOf, WasIgnored, the_test, PosInv, BodyLabels
<1>17. ASSUME NEW d \in Level, PopFrame(d) PROVE FlagsInv'
  BY <1>17
  DEF PopFrame, FlagsInv, FlagsOf, WasIgnored, the_test, PosInv, BodyLabels
<1>18. ASSUME Fail PROVE FlagsInv'
  <2>1. PICK d \in Level : d = depth
    BY <1>18, FailFacts DEF Fail
  <2>2. /\ top = d /\ the_test(d) \notin Ignored /\ InTest(d)
        /\ jmp[d] \in {"arm_teardown", "plugin_teardown"}
    BY <1>18, <2>1, FailFacts DEF Fail, PosInv, BodyLabels
  <2>3. /\ rep[d] \in Results /\ rep'[d] = TestFailed(rep[d])
        /\ raised'[d] = TRUE /\ pos'[d] = pos[d]
    BY <1>18, <2>1, <2>2 DEF Fail
  <2>4. /\ TestFailed(rep[d]).test_failed = TRUE
        /\ TestFailed(rep[d]).test_ignored = rep[d].test_ignored
    BY <2>3 DEF TestFailed, Results
  <2>5. rep[d].test_ignored = FALSE
    BY <2>2 DEF FlagsInv, FlagsOf, WasIgnored
  <2>6. WasIgnored(d)' = FALSE
    BY <2>2, <2>3 DEF WasIgnored, the_test
  <2>7. FlagsOf(d)'
    BY <2>2, <2>3, <2>4, <2>5, <2>6 DEF FlagsOf, the_test
  <2>8. ASSUME NEW k \in Level, k # d PROVE FlagsOf(k)'
    <3>1. /\ rep'[k] = rep[k] /\ raised'[k] = raised[k] /\ pos'[k] = pos[k]
          /\ pc'[k] = pc[k] \/ pc'[k] = "idle"
      BY <1>18, <2>1, <2>2, <2>8 DEF Fail, LongJmp
    <3> QED
      BY <3>1 DEF FlagsInv, FlagsOf, WasIgnored, the_test
  <2> QED
    BY <2>7, <2>8 DEF FlagsInv
<1>19. ASSUME UNCHANGED vars PROVE FlagsInv'
  BY <1>19
  DEF vars, ctrl, FlagsInv, FlagsOf, WasIgnored, the_test, PosInv, BodyLabels
<1> QED
  BY <1>1, <1>2, <1>3, <1>4, <1>5, <1>6, <1>7, <1>8, <1>9, <1>10, <1>11, <1>12, <1>13, <1>14, <1>15, <1>16, <1>17, <1>18, <1>19, NextCases
 

(***************************************************************************)
(* A verdict is given to the test in flight and to no later one.           *)
(***************************************************************************)
LEMMA VerdictStep ==
  ASSUME ControlInv, CountInv, FailuresAreCaught, [Next]_vars
  PROVE  VerdictInv'
<1> USE LevelFacts DEF ControlInv, CountInv, TypeOK, Running, Goto,
        GotoPlugins, Begins, dyn, hist, InTest, InTestLabels, PluginLabels,
        LevelsInv
<1>1. ASSUME MainRun PROVE VerdictInv'
  BY <1>1 DEF MainRun, EnterRun, VerdictInv, Verdicts, Verdict, NoVerdicts
<1>2. ASSUME NEW d \in Level, NestedRun(d) PROVE VerdictInv'
  BY <1>2 DEF NestedRun, EnterRun, VerdictInv, Verdicts, Verdict, NoVerdicts
<1>3. ASSUME NEW d \in Level, SkipTest(d) PROVE VerdictInv'
  BY <1>3 DEF SkipTest, VerdictInv, Verdicts, Verdict, NoVerdicts
<1>4. ASSUME NEW d \in Level, StartTest(d) PROVE VerdictInv'
  BY <1>4 DEF StartTest, VerdictInv, Verdicts, Verdict, NoVerdicts
<1>5. ASSUME NEW d \in Level, RunComplete(d) PROVE VerdictInv'
  BY <1>5 DEF RunComplete, VerdictInv, Verdicts, Verdict, NoVerdicts
<1>6. ASSUME NEW d \in Level, NEW label \in PluginLabels, CallPlugin(d, label)
      PROVE  VerdictInv'
  BY <1>6 DEF CallPlugin, VerdictInv, Verdicts, Verdict, NoVerdicts
<1>7. ASSUME NEW d \in Level, IgnoreTest(d) PROVE VerdictInv'
  BY <1>7 DEF IgnoreTest, VerdictInv, Verdicts, Verdict, NoVerdicts
<1>8. ASSUME NEW d \in Level, ArmBody(d) PROVE VerdictInv'
  BY <1>8 DEF ArmBody, VerdictInv, Verdicts, Verdict, NoVerdicts
<1>9. ASSUME NEW d \in Level, FixtureSetup(d) PROVE VerdictInv'
  BY <1>9 DEF FixtureSetup, VerdictInv, Verdicts, Verdict, NoVerdicts
<1>10. ASSUME NEW d \in Level, TestFunction(d) PROVE VerdictInv'
  BY <1>10 DEF TestFunction, VerdictInv, Verdicts, Verdict, NoVerdicts
<1>11. ASSUME NEW d \in Level, ChecksDone(d) PROVE VerdictInv'
  BY <1>11 DEF ChecksDone, VerdictInv, Verdicts, Verdict, NoVerdicts
<1>12. ASSUME NEW d \in Level, ArmTeardown(d) PROVE VerdictInv'
  BY <1>12 DEF ArmTeardown, VerdictInv, Verdicts, Verdict, NoVerdicts
<1>13. ASSUME NEW d \in Level, FixtureTeardown(d) PROVE VerdictInv'
  BY <1>13 DEF FixtureTeardown, VerdictInv, Verdicts, Verdict, NoVerdicts
<1>14. ASSUME NEW d \in Level, TeardownDone(d) PROVE VerdictInv'
  BY <1>14 DEF TeardownDone, VerdictInv, Verdicts, Verdict, NoVerdicts
<1>15. ASSUME NEW d \in Level, ReportComplete(d) PROVE VerdictInv'
  BY <1>15 DEF ReportComplete, VerdictInv, Verdicts, Verdict, NoVerdicts
<1>16. ASSUME NEW d \in Level, PopEnv(d) PROVE VerdictInv'
  BY <1>16 DEF PopEnv, VerdictInv, Verdicts, Verdict, NoVerdicts
<1>17. ASSUME NEW d \in Level, PopFrame(d) PROVE VerdictInv'
  BY <1>17 DEF PopFrame, VerdictInv, Verdicts, Verdict, NoVerdicts
<1>18. ASSUME Fail PROVE VerdictInv'
  BY <1>18, FailFacts
  DEF Fail, LongJmp, VerdictInv, Verdicts, Verdict, NoVerdicts
<1>19. ASSUME UNCHANGED vars PROVE VerdictInv'
  BY <1>19 DEF vars, ctrl, VerdictInv, Verdicts, Verdict, NoVerdicts
<1> QED
  BY <1>1, <1>2, <1>3, <1>4, <1>5, <1>6, <1>7, <1>8, <1>9, <1>10, <1>11, <1>12, <1>13, <1>14, <1>15, <1>16, <1>17, <1>18, <1>19, NextCases
 

(***************************************************************************)
(* A counter changes with the verdict it counts.                           *)
(***************************************************************************)
LEMMA CountsStep ==
  ASSUME ControlInv, CountInv, FailuresAreCaught, [Next]_vars
  PROVE  SummaryCounts'
<1> USE LevelFacts DEF ControlInv, CountInv, TypeOK, Running, Goto,
        GotoPlugins, Begins, dyn, hist, InTest, InTestLabels, PluginLabels,
        LevelsInv
<1>1. ASSUME MainRun PROVE SummaryCounts'
  <2>1. 1 \in Level /\ depth = 0
    BY <1>1, LevelFacts DEF MainRun
  <2>2. /\ rep'[1] = RunStarted /\ over'[1] = NoVerdicts
        /\ pc'[1] = "loop"
    BY <1>1, <2>1 DEF MainRun, EnterRun
  <2>3. \A v \in Verdicts : Count(1, v)' = 0
    BY <2>2, FS_EmptySet DEF Count, NoVerdicts
  <2>4. SummaryOf(1)'
    BY <2>2, <2>3 DEF SummaryOf, RunStarted, WasIgnored, One, Verdicts
  <2>5. ASSUME NEW k \in Level, k # 1 PROVE SummaryOf(k)'
    <3>1. /\ rep'[k] = rep[k] /\ over'[k] = over[k]
          /\ raised'[k] = raised[k]
          /\ InTest(k)' <=> InTest(k)
          /\ WasIgnored(k)' <=> WasIgnored(k)
      BY <1>1, <2>1, <2>5 DEF MainRun, EnterRun, WasIgnored, the_test
    <3> QED
      BY <3>1, SameSummary DEF SummaryCounts
  <2> QED
    BY <2>4, <2>5 DEF SummaryCounts
<1>2. ASSUME NEW d \in Level, NestedRun(d) PROVE SummaryCounts'
  <2>1. depth = d /\ pc[d] = "test" /\ d + 1 \in Level
    BY <1>2, DepthFacts DEF NestedRun
  <2>2. /\ rep'[d + 1] = RunStarted /\ over'[d + 1] = NoVerdicts
        /\ pc'[d + 1] = "loop"
    BY <1>2, <2>1 DEF NestedRun, EnterRun
  <2>3. \A v \in Verdicts : Count(d + 1, v)' = 0
    BY <2>2, FS_EmptySet DEF Count, NoVerdicts
  <2>4. SummaryOf(d + 1)'
    BY <2>2, <2>3 DEF SummaryOf, RunStarted, WasIgnored, One, Verdicts
  <2>5. ASSUME NEW k \in Level, k # d + 1 PROVE SummaryOf(k)'
    <3>1. /\ rep'[k] = rep[k] /\ over'[k] = over[k]
          /\ raised'[k] = raised[k]
          /\ InTest(k)' <=> InTest(k)
          /\ WasIgnored(k)' <=> WasIgnored(k)
      BY <1>2, <2>1, <2>5 DEF NestedRun, EnterRun, WasIgnored, the_test
    <3> QED
      BY <3>1, SameSummary DEF SummaryCounts
  <2> QED
    BY <2>1, <2>4, <2>5 DEF SummaryCounts
<1>3. ASSUME NEW d \in Level, SkipTest(d) PROVE SummaryCounts'
  BY <1>3 DEF SkipTest, SummaryCounts, SummaryOf, WasIgnored, the_test, Count
<1>4. ASSUME NEW d \in Level, StartTest(d) PROVE SummaryCounts'
  <2>1. rep[d] \in Results /\ rep'[d] = TestStarted(rep[d]) /\ over' = over
    BY <1>4 DEF StartTest
  <2>2. /\ ~InTest(d) /\ ~WasIgnored(d)
        /\ raised'[d] = FALSE /\ ~WasIgnored(d)'
    BY <1>4 DEF StartTest, WasIgnored, the_test
  <2>3. /\ rep'[d].passed = rep[d].passed
        /\ rep'[d].failed = rep[d].failed
        /\ rep'[d].ignored = rep[d].ignored
        /\ rep[d].ignored \in Nat
    BY <2>1, HandlerFacts
  <2>4. SummaryOf(d)
    BY DEF SummaryCounts
  <2>5. \A v \in Verdicts : Count(d, v)' = Count(d, v) /\ Count(d, v) \in Nat
    BY <2>1, CountNat DEF Count
  <2>6. SummaryOf(d)'
    BY <2>2, <2>3, <2>4, <2>5 DEF SummaryOf, One, Verdicts
  <2>7. ASSUME NEW k \in Level, k # d PROVE SummaryOf(k)'
    <3>1. /\ rep'[k] = rep[k] /\ over'[k] = over[k]
          /\ raised'[k] = raised[k]
          /\ InTest(k)' <=> InTest(k)
          /\ WasIgnored(k)' <=> WasIgnored(k)
      BY <1>4, <2>7 DEF StartTest, WasIgnored, the_test
    <3> QED
      BY <3>1, SameSummary DEF SummaryCounts
  <2> QED
    BY <2>6, <2>7 DEF SummaryCounts
<1>5. ASSUME NEW d \in Level, RunComplete(d) PROVE SummaryCounts'
  <2>1. ASSUME NEW k \in Level
        PROVE  \/ pc'[k] = pc[k]
               \/ pc[k] = "loop" /\ pc'[k] = "done"
               \/ pc[k] = "nested" /\ pc'[k] = "resumed"
    BY <1>5, <2>1, LevelFacts DEF RunComplete
  <2>2. ASSUME NEW k \in Level PROVE SummaryOf(k)'
    <3>1. /\ rep'[k] = rep[k] /\ over'[k] = over[k]
          /\ raised'[k] = raised[k] /\ pos'[k] = pos[k]
      BY <1>5 DEF RunComplete
    <3>2. /\ InTest(k)' <=> InTest(k)
          /\ WasIgnored(k)' <=> WasIgnored(k)
      BY <2>1, <3>1 DEF WasIgnored, the_test
    <3> QED
      BY <3>1, <3>2, SameSummary DEF SummaryCounts
  <2> QED
    BY <2>2 DEF SummaryCounts
<1>6. ASSUME NEW d \in Level, NEW label \in PluginLabels, CallPlugin(d, label)
      PROVE  SummaryCounts'
  BY <1>6
  DEF CallPlugin, SummaryCounts, SummaryOf, WasIgnored, the_test, Count
<1>7. ASSUME NEW d \in Level, IgnoreTest(d) PROVE SummaryCounts'
  <2>1. rep[d] \in Results /\ rep'[d] = TestIgnored(rep[d]) /\ over' = over
    BY <1>7 DEF IgnoreTest
  <2>2. /\ InTest(d) /\ ~WasIgnored(d) /\ raised'[d] = raised[d]
        /\ InTest(d)' /\ WasIgnored(d)'
    BY <1>7 DEF IgnoreTest, WasIgnored, the_test
  <2>3. /\ rep'[d].passed = rep[d].passed
        /\ rep'[d].failed = rep[d].failed
        /\ rep'[d].ignored = rep[d].ignored + 1
        /\ rep[d].ignored \in Nat
    BY <2>1, HandlerFacts
  <2>4. SummaryOf(d)
    BY DEF SummaryCounts
  <2>5. \A v \in Verdicts : Count(d, v)' = Count(d, v) /\ Count(d, v) \in Nat
    BY <2>1, CountNat DEF Count
  <2>6. SummaryOf(d)'
    BY <2>2, <2>3, <2>4, <2>5 DEF SummaryOf, One, Verdicts
  <2>7. ASSUME NEW k \in Level, k # d PROVE SummaryOf(k)'
    <3>1. /\ rep'[k] = rep[k] /\ over'[k] = over[k]
          /\ raised'[k] = raised[k]
          /\ InTest(k)' <=> InTest(k)
          /\ WasIgnored(k)' <=> WasIgnored(k)
      BY <1>7, <2>7 DEF IgnoreTest, WasIgnored, the_test
    <3> QED
      BY <3>1, SameSummary DEF SummaryCounts
  <2> QED
    BY <2>6, <2>7 DEF SummaryCounts
<1>8. ASSUME NEW d \in Level, ArmBody(d) PROVE SummaryCounts'
  BY <1>8 DEF ArmBody, SummaryCounts, SummaryOf, WasIgnored, the_test, Count
<1>9. ASSUME NEW d \in Level, FixtureSetup(d) PROVE SummaryCounts'
  BY <1>9
  DEF FixtureSetup, SummaryCounts, SummaryOf, WasIgnored, the_test, Count
<1>10. ASSUME NEW d \in Level, TestFunction(d) PROVE SummaryCounts'
  BY <1>10
  DEF TestFunction, SummaryCounts, SummaryOf, WasIgnored, the_test, Count
<1>11. ASSUME NEW d \in Level, ChecksDone(d) PROVE SummaryCounts'
  BY <1>11
  DEF ChecksDone, SummaryCounts, SummaryOf, WasIgnored, the_test, Count
<1>12. ASSUME NEW d \in Level, ArmTeardown(d) PROVE SummaryCounts'
  BY <1>12
  DEF ArmTeardown, SummaryCounts, SummaryOf, WasIgnored, the_test, Count
<1>13. ASSUME NEW d \in Level, FixtureTeardown(d) PROVE SummaryCounts'
  <2>1. ASSUME NEW k \in Level PROVE SummaryOf(k)'
    <3>1. /\ rep'[k] = rep[k] /\ over'[k] = over[k]
          /\ raised'[k] = raised[k]
          /\ InTest(k)' <=> InTest(k)
          /\ WasIgnored(k)' <=> WasIgnored(k)
      BY <1>13, <2>1 DEF FixtureTeardown, PosInv, WasIgnored, the_test
    <3> QED
      BY <3>1, SameSummary DEF SummaryCounts
  <2> QED
    BY <2>1 DEF SummaryCounts
<1>14. ASSUME NEW d \in Level, TeardownDone(d) PROVE SummaryCounts'
  BY <1>14
  DEF TeardownDone, SummaryCounts, SummaryOf, WasIgnored, the_test, Count
<1>15. ASSUME NEW d \in Level, ReportComplete(d) PROVE SummaryCounts'
  <2>1. /\ rep[d] \in Results /\ rep'[d] = TestComplete(rep[d])
        /\ Verdict(d) \in Verdicts /\ pc[d] = "complete" /\ pc'[d] = "pop_env"
    BY <1>15 DEF ReportComplete, Verdict, Verdicts
  <2>2. /\ InTest(d) /\ ~InTest(d)' /\ ~WasIgnored(d)'
        /\ WasIgnored(d) <=> the_test(d) \in Ignored
    BY <2>1 DEF WasIgnored
  <2>3. /\ rep[d].test_failed = raised[d]
        /\ rep[d].test_ignored = WasIgnored(d)
        /\ raised[d] => the_test(d) \notin Ignored
    BY <2>2 DEF FlagsInv, FlagsOf
  <2>4. /\ rep'[d].passed = rep[d].passed + One(~WasIgnored(d) /\ ~raised[d])
        /\ rep'[d].failed = rep[d].failed
        /\ rep'[d].ignored = rep[d].ignored
    BY <2>1, <2>3, HandlerFacts DEF One
  <2>5. /\ over'[d][Verdict(d)] = over[d][Verdict(d)] \cup {pos[d]}
        /\ \A v \in Verdicts : v # Verdict(d) => over'[d][v] = over[d][v]
    BY <1>15, <2>1 DEF ReportComplete
  <2>6. ASSUME NEW v \in Verdicts
        PROVE  /\ Count(d, v)' = Count(d, v) + One(v = Verdict(d))
               /\ Count(d, v) \in Nat
    <3>1. CASE v = Verdict(d)
      <4>1. Count(d, v)' = Cardinality(over[d][v] \cup {pos[d]})
        BY <2>5, <3>1 DEF Count
      <4> QED
        <5>1. ControlInv /\ VerdictInv
          OBVIOUS
        <5>2. /\ Cardinality(over[d][v] \cup {pos[d]}) = Count(d, v) + 1
              /\ Count(d, v) \in Nat
          BY ONLY <5>1, <2>1, CountAdd, CountNat
        <5> QED
          BY ONLY <3>1, <4>1, <5>2 DEF One
    <3>2. CASE v # Verdict(d)
      <4>1. Count(d, v)' = Count(d, v)
        BY <2>5, <3>2 DEF Count
      <4> QED
        <5>1. ControlInv /\ VerdictInv
          OBVIOUS
        <5>2. Count(d, v) \in Nat
          BY ONLY <5>1, CountNat
        <5> QED
          BY ONLY <3>2, <4>1, <5>2 DEF One
    <3> QED
      BY <3>1, <3>2
  <2>7. SummaryOf(d)
    BY DEF SummaryCounts
  <2>8. SummaryOf(d)'
    <3>1. {"passed", "failed", "ignored"} \subseteq Verdicts
      BY DEF Verdicts
    <3>2. /\ rep[d].passed = Count(d, "passed")
          /\ rep[d].failed = Count(d, "failed") + One(raised[d])
          /\ rep[d].ignored = Count(d, "ignored") + One(WasIgnored(d))
      BY <2>2, <2>7 DEF SummaryOf, One
    <3>3. /\ One(~WasIgnored(d) /\ ~raised[d]) = One("passed" = Verdict(d))
          /\ One(raised[d]) = One("failed" = Verdict(d))
          /\ One(WasIgnored(d)) = One("ignored" = Verdict(d))
      BY <2>2, <2>3 DEF Verdict, One
    <3>4. /\ rep'[d].passed = Count(d, "passed")'
          /\ rep'[d].failed = Count(d, "failed")'
          /\ rep'[d].ignored = Count(d, "ignored")'
      BY ONLY <2>4, <2>6, <3>1, <3>2, <3>3
    <3>5. /\ \A n \in Nat : n + 0 = n
          /\ One(InTest(d) /\ raised[d])' = 0
          /\ One(WasIgnored(d))' = 0
      BY <2>2 DEF One
    <3>6. \A v \in Verdicts : Count(d, v)' \in Nat
      BY <2>6 DEF One
    <3> QED
      BY ONLY <3>1, <3>4, <3>5, <3>6 DEF SummaryOf
  <2>9. ASSUME NEW k \in Level, k # d PROVE SummaryOf(k)'
    <3>1. /\ rep'[k] = rep[k] /\ over'[k] = over[k]
          /\ raised'[k] = raised[k]
          /\ InTest(k)' <=> InTest(k)
          /\ WasIgnored(k)' <=> WasIgnored(k)
      BY <1>15, <2>9 DEF ReportComplete, WasIgnored, the_test
    <3> QED
      BY <3>1, SameSummary DEF SummaryCounts
  <2> QED
    BY <2>8, <2>9 DEF SummaryCounts
<1>16. ASSUME NEW d \in Level, PopEnv(d) PROVE SummaryCounts'
  BY <1>16 DEF PopEnv, SummaryCounts, SummaryOf, WasIgnored, the_test, Count
<1>17. ASSUME NEW d \in Level, PopFrame(d) PROVE SummaryCounts'
  BY <1>17 DEF PopFrame, SummaryCounts, SummaryOf, WasIgnored, the_test, Count
<1>18. ASSUME Fail PROVE SummaryCounts'
  <2>1. PICK d \in Level : d = depth
    BY <1>18, FailFacts DEF Fail
  <2>2. /\ top = d /\ the_test(d) \notin Ignored /\ InTest(d)
        /\ jmp[d] \in {"arm_teardown", "plugin_teardown"}
    BY <1>18, <2>1, FailFacts DEF Fail, PosInv, BodyLabels
  <2>3. /\ rep[d] \in Results /\ rep'[d] = TestFailed(rep[d])
        /\ raised'[d] = TRUE /\ over' = over
        /\ pos' = pos /\ pc'[d] = jmp[d]
    BY <1>18, <2>1, <2>2 DEF Fail, LongJmp
  <2>4. /\ InTest(d)' /\ ~WasIgnored(d) /\ ~WasIgnored(d)'
        /\ rep[d].test_failed = raised[d]
    BY <2>2, <2>3 DEF WasIgnored, the_test, FlagsInv, FlagsOf
  <2>5. /\ rep'[d].passed = rep[d].passed
        /\ rep'[d].failed = rep[d].failed + One(~rep[d].test_failed)
        /\ rep'[d].ignored = rep[d].ignored
    BY <2>3, HandlerFacts
  <2>6. \A v \in Verdicts : Count(d, v)' = Count(d, v) /\ Count(d, v) \in Nat
    BY <2>3, CountNat DEF Count
  <2>7. SummaryOf(d)
    BY DEF SummaryCounts
  <2>8. SummaryOf(d)'
    BY <2>2, <2>3, <2>4, <2>5, <2>6, <2>7 DEF SummaryOf, One, Verdicts
  <2>9. ASSUME NEW k \in Level, k # d PROVE SummaryOf(k)'
    <3>1. /\ rep'[k] = rep[k] /\ over'[k] = over[k]
          /\ raised'[k] = raised[k] /\ pos'[k] = pos[k]
      BY <1>18, <2>1, <2>2, <2>3, <2>9 DEF Fail
    <3>2. pc'[k] = pc[k] \/ (pc[k] \in {"idle", "done"} /\ pc'[k] = "idle")
      BY <1>18, <2>1, <2>2, <2>9 DEF Fail, LongJmp
    <3>3. /\ InTest(k)' <=> InTest(k)
          /\ WasIgnored(k)' <=> WasIgnored(k)
      BY <3>1, <3>2 DEF WasIgnored, the_test
    <3> QED
      BY <3>1, <3>3, SameSummary DEF SummaryCounts
  <2> QED
    BY <2>8, <2>9 DEF SummaryCounts
<1>19. ASSUME UNCHANGED vars PROVE SummaryCounts'
  BY <1>19
  DEF vars, ctrl, SummaryCounts, SummaryOf, WasIgnored, the_test, Count
<1> QED
  BY <1>1, <1>2, <1>3, <1>4, <1>5, <1>6, <1>7, <1>8, <1>9, <1>10, <1>11, <1>12, <1>13, <1>14, <1>15, <1>16, <1>17, <1>18, <1>19, NextCases
 

(***************************************************************************)
(* The counters are right in every reachable state.                        *)
(***************************************************************************)
THEOREM CountInvHolds ==
  ASSUME FailuresAreCaught
  PROVE  Spec => [](ControlInv /\ CountInv)
<1>1. Init => CountInv
  <2> SUFFICES ASSUME Init PROVE CountInv
    OBVIOUS
  <2> USE DEF Init
  <2>1. FlagsInv
    BY DEF FlagsInv, FlagsOf, InTest, InTestLabels, PluginLabels
  <2>2. VerdictInv
    BY DEF VerdictInv, NoVerdicts, Verdicts
  <2>3. SummaryCounts
    BY FS_EmptySet
    DEF SummaryCounts, SummaryOf, Count, NoVerdicts, Verdicts, RunStarted,
        One, InTest, InTestLabels, PluginLabels, WasIgnored
  <2> QED
    BY <2>1, <2>2, <2>3 DEF CountInv
<1>2. ControlInv /\ CountInv /\ [Next]_vars => CountInv'
  BY FlagsStep, VerdictStep, CountsStep DEF CountInv
<1> QED
  BY <1>1, <1>2, ControlInvHolds, PTL DEF Spec

(***************************************************************************)
(* The numbers of the summary line, and with them the exit status, are the *)
(* numbers of tests that passed, failed and were ignored, in the outermost *)
(* and in every nested run, for any suites, fixtures and plugins.          *)
(***************************************************************************)
THEOREM SummaryIsRight ==
  ASSUME FailuresAreCaught
  PROVE  Spec => []SummaryCounts
<1>1. CountInv => SummaryCounts
  BY DEF CountInv
<1> QED
  BY <1>1, CountInvHolds, PTL
-----------------------------------------------------------------------------

(***************************************************************************)
(* The phases that have run are those that lead to where the code is.      *)
(***************************************************************************)
LEMMA RanStep ==
  ASSUME ControlInv, CountInv, RanInv, FailuresAreCaught, [Next]_vars
  PROVE  RanInv'
<1> USE LevelFacts DEF ControlInv, TypeOK, Running, Goto,
        GotoPlugins, Begins, dyn, hist, PluginLabels, LevelsInv
<1>1. ASSUME MainRun PROVE RanInv'
  BY <1>1
  DEF MainRun, EnterRun, RanInv, the_test, Phases, UpTo, PosInv, BodyLabels
<1>2. ASSUME NEW d \in Level, NestedRun(d) PROVE RanInv'
  BY <1>2
  DEF NestedRun, EnterRun, RanInv, the_test, Phases, UpTo, PosInv, BodyLabels
<1>3. ASSUME NEW d \in Level, SkipTest(d) PROVE RanInv'
  BY <1>3 DEF SkipTest, RanInv, the_test, Phases, UpTo, PosInv, BodyLabels
<1>4. ASSUME NEW d \in Level, StartTest(d) PROVE RanInv'
  BY <1>4 DEF StartTest, RanInv, the_test, Phases, UpTo, PosInv, BodyLabels
<1>5. ASSUME NEW d \in Level, RunComplete(d) PROVE RanInv'
  BY <1>5 DEF RunComplete, RanInv, the_test, Phases, UpTo, PosInv, BodyLabels
<1>6. ASSUME NEW d \in Level, NEW label \in PluginLabels, CallPlugin(d, label)
      PROVE  RanInv'
  BY <1>6 DEF CallPlugin, RanInv, the_test, Phases, UpTo, PosInv, BodyLabels
<1>7. ASSUME NEW d \in Level, IgnoreTest(d) PROVE RanInv'
  BY <1>7 DEF IgnoreTest, RanInv, the_test, Phases, UpTo, PosInv, BodyLabels
<1>8. ASSUME NEW d \in Level, ArmBody(d) PROVE RanInv'
  BY <1>8 DEF ArmBody, RanInv, the_test, Phases, UpTo, PosInv, BodyLabels
<1>9. ASSUME NEW d \in Level, FixtureSetup(d) PROVE RanInv'
  BY <1>9 DEF FixtureSetup, RanInv, the_test, Phases, UpTo, PosInv, BodyLabels
<1>10. ASSUME NEW d \in Level, TestFunction(d) PROVE RanInv'
  BY <1>10
  DEF TestFunction, RanInv, the_test, Phases, UpTo, PosInv, BodyLabels
<1>11. ASSUME NEW d \in Level, ChecksDone(d) PROVE RanInv'
  BY <1>11 DEF ChecksDone, RanInv, the_test, Phases, UpTo, PosInv, BodyLabels
<1>12. ASSUME NEW d \in Level, ArmTeardown(d) PROVE RanInv'
  BY <1>12 DEF ArmTeardown, RanInv, the_test, Phases, UpTo, PosInv, BodyLabels
<1>13. ASSUME NEW d \in Level, FixtureTeardown(d) PROVE RanInv'
  BY <1>13
  DEF FixtureTeardown, RanInv, the_test, Phases, UpTo, PosInv, BodyLabels
<1>14. ASSUME NEW d \in Level, TeardownDone(d) PROVE RanInv'
  BY <1>14
  DEF TeardownDone, RanInv, the_test, Phases, UpTo, PosInv, BodyLabels
<1>15. ASSUME NEW d \in Level, ReportComplete(d) PROVE RanInv'
  BY <1>15
  DEF ReportComplete, RanInv, the_test, Phases, UpTo, PosInv, BodyLabels
<1>16. ASSUME NEW d \in Level, PopEnv(d) PROVE RanInv'
  BY <1>16 DEF PopEnv, RanInv, the_test, Phases, UpTo, PosInv, BodyLabels
<1>17. ASSUME NEW d \in Level, PopFrame(d) PROVE RanInv'
  BY <1>17 DEF PopFrame, RanInv, the_test, Phases, UpTo, PosInv, BodyLabels
<1>18. ASSUME Fail PROVE RanInv'
  BY <1>18, FailFacts
  DEF Fail, LongJmp, RanInv, the_test, Phases, UpTo, PosInv, BodyLabels
<1>19. ASSUME UNCHANGED vars PROVE RanInv'
  BY <1>19 DEF vars, ctrl, RanInv, the_test, Phases, UpTo, PosInv, BodyLabels
<1> QED
  BY <1>1, <1>2, <1>3, <1>4, <1>5, <1>6, <1>7, <1>8, <1>9, <1>10, <1>11, <1>12, <1>13, <1>14, <1>15, <1>16, <1>17, <1>18, <1>19, NextCases
 

(***************************************************************************)
(* A test that is over went through the phases it must.                    *)
(***************************************************************************)
THEOREM EveryPhaseRan ==
  ASSUME FailuresAreCaught
  PROVE  Spec => []PhasesRan
<1>1. Init => RanInv
  BY DEF Init, RanInv
<1>2. ControlInv /\ CountInv /\ RanInv /\ [Next]_vars => RanInv'
  BY RanStep
<1>3. RanInv => PhasesRan
  BY DEF RanInv, PhasesRan
<1> QED
  BY <1>1, <1>2, <1>3, CountInvHolds, PTL DEF Spec

(***************************************************************************)
(* The lengths and bounds of the plugin loops.                             *)
(***************************************************************************)
LEMMA PlugFacts ==
  ASSUME TypeOK, NEW d \in Level
  PROVE  /\ plug[d] \in Nat \ {0}
         /\ Len(Plugins[d]) \in Nat
BY RunnerAssumption DEF RunnerAssumption, TypeOK

(***************************************************************************)
(* The setup loop adds plugins in list order, the teardown loop removes    *)
(* them in list order, so no plugin is left when that loop is through, even *)
(* if it is started again.                                                 *)
(***************************************************************************)
LEMMA ActiveStep ==
  ASSUME ControlInv, ActiveInv, FailuresAreCaught, [Next]_vars
  PROVE  ActiveInv'
<1> USE LevelFacts DEF ControlInv, TypeOK, Running, Goto,
        GotoPlugins, Begins, dyn, hist, PluginLabels, LevelsInv
<1>1. ASSUME MainRun PROVE ActiveInv'
  BY <1>1
  DEF MainRun, EnterRun, ActiveInv, ActiveOf, PluginsBetween, PosInv,
      BodyLabels
<1>2. ASSUME NEW d \in Level, NestedRun(d) PROVE ActiveInv'
  <2>1. pc[d + 1] \in {"idle", "done"} /\ d + 1 \in Level /\ d = depth
    BY <1>2, DepthFacts DEF NestedRun
  <2>2. active[d + 1] = {}
    BY <2>1 DEF ActiveInv, ActiveOf
  <2>3. UNCHANGED <<active, plug>> /\ pc'[d] = "nested" /\ pc'[d + 1] = "loop"
    BY <1>2, <2>1 DEF NestedRun, EnterRun
  <2>4. ActiveOf(d + 1)'
    BY <2>1, <2>2, <2>3 DEF ActiveOf, BodyLabels
  <2>5. ActiveOf(d)'
    BY <1>2, <2>3 DEF NestedRun, ActiveInv, ActiveOf, BodyLabels, PluginsBetween
  <2>6. ASSUME NEW k \in Level, k # d, k # d + 1 PROVE ActiveOf(k)'
    BY <1>2, <2>1, <2>3, <2>6 DEF NestedRun, ActiveInv, ActiveOf, PluginsBetween
  <2> QED
    BY <2>4, <2>5, <2>6 DEF ActiveInv
<1>3. ASSUME NEW d \in Level, SkipTest(d) PROVE ActiveInv'
  BY <1>3
  DEF SkipTest, ActiveInv, ActiveOf, PluginsBetween, PosInv, BodyLabels
<1>4. ASSUME NEW d \in Level, StartTest(d) PROVE ActiveInv'
  <2>1. /\ active' = active /\ pc[d] = "loop"
        /\ pc'[d] = "plugin_setup" /\ plug'[d] = 1
    BY <1>4 DEF StartTest
  <2>2. active[d] = {}
    BY <2>1 DEF ActiveInv, ActiveOf
  <2>3. Len(Plugins[d]) \in Nat
    BY PlugFacts
  <2>4. ActiveOf(d)'
    BY ONLY <2>1, <2>2, <2>3 DEF ActiveOf, BodyLabels
  <2>5. ASSUME NEW k \in Level, k # d PROVE ActiveOf(k)'
    <3>1. pc'[k] = pc[k] /\ plug'[k] = plug[k] /\ active'[k] = active[k]
      BY <1>4, <2>5 DEF StartTest
    <3>2. ActiveOf(k)
      BY DEF ActiveInv
    <3> QED
      BY ONLY <3>1, <3>2 DEF ActiveOf, PluginsBetween
  <2> QED
    BY <2>4, <2>5 DEF ActiveInv
<1>5. ASSUME NEW d \in Level, RunComplete(d) PROVE ActiveInv'
  <2> SUFFICES ASSUME NEW k \in Level PROVE ActiveOf(k)'
    BY DEF ActiveInv
  <2>1. active'[k] = active[k] /\ plug'[k] = plug[k]
    BY <1>5 DEF RunComplete
  <2>2. \/ pc'[k] = pc[k]
        \/ pc[k] = "loop" /\ pc'[k] = "done"
        \/ pc[k] = "nested" /\ pc'[k] = "resumed"
    BY <1>5, LevelFacts DEF RunComplete
  <2> QED
    BY <2>1, <2>2 DEF ActiveInv, ActiveOf, BodyLabels, PluginsBetween
<1>6. ASSUME NEW d \in Level, NEW label \in PluginLabels, CallPlugin(d, label)
      PROVE  ActiveInv'
  <2>1. /\ plug[d] \in Nat \ {0} /\ Len(Plugins[d]) \in Nat
        /\ plug[d] <= Len(Plugins[d]) /\ plug'[d] = plug[d] + 1
        /\ pc' = pc /\ pc[d] = label
    BY <1>6, PlugFacts DEF CallPlugin, PluginsLeft
  <2>2. ActiveOf(d)
    BY DEF ActiveInv
  <2>3. ASSUME label = "plugin_setup" PROVE ActiveOf(d)'
    <3>1. active'[d] = active[d] \cup {Plugins[d][plug[d]]}
      BY <1>6, <2>3 DEF CallPlugin, plugin
    <3>2. active'[d] \subseteq PluginsBetween(d, 1, plug'[d] - 1)
      BY <2>1, <2>2, <2>3, <3>1 DEF ActiveOf, PluginsBetween
    <3>3. pc'[d] = "plugin_setup" /\ plug'[d] <= Len(Plugins[d]) + 1
      BY <2>1, <2>3
    <3> QED
      BY <3>2, <3>3 DEF ActiveOf, BodyLabels, PluginsBetween
  <2>4. ASSUME label = "plugin_checks" PROVE ActiveOf(d)'
    <3>1. active'[d] = active[d]
      BY <1>6, <2>4 DEF CallPlugin
    <3>2. pc[d] = "plugin_checks" /\ pc'[d] = "plugin_checks"
      BY <2>1, <2>4
    <3> QED
      BY <2>2, <3>1, <3>2 DEF ActiveOf, BodyLabels, PluginsBetween
  <2>5. ASSUME label = "plugin_teardown" PROVE ActiveOf(d)'
    <3>1. active'[d] = active[d] \ {Plugins[d][plug[d]]}
      BY <1>6, <2>5 DEF CallPlugin, plugin
    <3>2. active'[d] \subseteq PluginsBetween(d, plug'[d], Len(Plugins[d]))
      BY <2>1, <2>2, <2>5, <3>1 DEF ActiveOf, PluginsBetween
    <3>3. pc'[d] = "plugin_teardown"
      BY <2>1, <2>5
    <3> QED
      BY <3>2, <3>3 DEF ActiveOf, BodyLabels, PluginsBetween
  <2>6. ASSUME NEW k \in Level, k # d PROVE ActiveOf(k)'
    BY <1>6, <2>6 DEF CallPlugin, ActiveInv, ActiveOf, PluginsBetween
  <2> QED
    BY <2>3, <2>4, <2>5, <2>6 DEF ActiveInv
<1>7. ASSUME NEW d \in Level, IgnoreTest(d) PROVE ActiveInv'
  <2>1. /\ plug[d] \in Nat \ {0} /\ Len(Plugins[d]) \in Nat
        /\ plug[d] > Len(Plugins[d]) /\ pc[d] = "plugin_setup"
        /\ pc'[d] = "plugin_teardown" /\ plug'[d] = 1 /\ active' = active
    <3>1. plug[d] \in Nat \ {0} /\ Len(Plugins[d]) \in Nat
      BY PlugFacts
    <3> QED
      BY <1>7, <3>1 DEF IgnoreTest, PluginsLeft
  <2>2. ActiveOf(d)
    BY DEF ActiveInv
  <2>3. active[d] \subseteq PluginsBetween(d, 1, Len(Plugins[d]))
    <3>1. plug[d] - 1 = Len(Plugins[d])
      BY <2>1, <2>2 DEF ActiveOf
    <3> QED
      BY <2>1, <2>2, <3>1 DEF ActiveOf
  <2>4. ActiveOf(d)'
    BY <2>1, <2>3 DEF ActiveOf, BodyLabels
  <2>5. ASSUME NEW k \in Level, k # d PROVE ActiveOf(k)'
    BY <1>7, <2>5 DEF IgnoreTest, ActiveInv, ActiveOf, PluginsBetween
  <2> QED
    BY <2>4, <2>5 DEF ActiveInv
<1>8. ASSUME NEW d \in Level, ArmBody(d) PROVE ActiveInv'
  <2>1. /\ plug[d] \in Nat \ {0} /\ Len(Plugins[d]) \in Nat
        /\ plug[d] > Len(Plugins[d]) /\ pc[d] = "plugin_setup"
        /\ pc'[d] = "setup" /\ active' = active
    <3>1. plug[d] \in Nat \ {0} /\ Len(Plugins[d]) \in Nat
      BY PlugFacts
    <3> QED
      BY <1>8, <3>1 DEF ArmBody, PluginsLeft
  <2>2. ActiveOf(d)
    BY DEF ActiveInv
  <2>3. active[d] \subseteq PluginsBetween(d, 1, Len(Plugins[d]))
    <3>1. plug[d] - 1 = Len(Plugins[d])
      BY <2>1, <2>2 DEF ActiveOf
    <3> QED
      BY <2>1, <2>2, <3>1 DEF ActiveOf
  <2>4. ActiveOf(d)'
    BY <2>1, <2>3 DEF ActiveOf, PluginsBetween
  <2>5. ASSUME NEW k \in Level, k # d PROVE ActiveOf(k)'
    BY <1>8, <2>5 DEF ArmBody, ActiveInv, ActiveOf, PluginsBetween
  <2> QED
    BY <2>4, <2>5 DEF ActiveInv
<1>9. ASSUME NEW d \in Level, FixtureSetup(d) PROVE ActiveInv'
  BY <1>9
  DEF FixtureSetup, ActiveInv, ActiveOf, PluginsBetween, PosInv, BodyLabels
<1>10. ASSUME NEW d \in Level, TestFunction(d) PROVE ActiveInv'
  BY <1>10
  DEF TestFunction, ActiveInv, ActiveOf, PluginsBetween, PosInv, BodyLabels
<1>11. ASSUME NEW d \in Level, ChecksDone(d) PROVE ActiveInv'
  BY <1>11
  DEF ChecksDone, ActiveInv, ActiveOf, PluginsBetween, PosInv, BodyLabels
<1>12. ASSUME NEW d \in Level, ArmTeardown(d) PROVE ActiveInv'
  BY <1>12
  DEF ArmTeardown, ActiveInv, ActiveOf, PluginsBetween, PosInv, BodyLabels
<1>13. ASSUME NEW d \in Level, FixtureTeardown(d) PROVE ActiveInv'
  BY <1>13
  DEF FixtureTeardown, ActiveInv, ActiveOf, PluginsBetween, PosInv,
      BodyLabels
<1>14. ASSUME NEW d \in Level, TeardownDone(d) PROVE ActiveInv'
  <2>1. /\ plug[d] \in Nat \ {0} /\ Len(Plugins[d]) \in Nat
        /\ plug[d] > Len(Plugins[d]) /\ pc[d] = "plugin_teardown"
        /\ pc'[d] = "complete" /\ active' = active
    BY <1>14, PlugFacts DEF TeardownDone, PluginsLeft
  <2>2. ActiveOf(d)
    BY DEF ActiveInv
  <2>3. active[d] = {}
    BY <2>1, <2>2 DEF ActiveOf, PluginsBetween
  <2>4. ActiveOf(d)'
    BY <2>1, <2>3 DEF ActiveOf, BodyLabels
  <2>5. ASSUME NEW k \in Level, k # d PROVE ActiveOf(k)'
    BY <1>14, <2>5 DEF TeardownDone, ActiveInv, ActiveOf, PluginsBetween
  <2> QED
    BY <2>4, <2>5 DEF ActiveInv
<1>15. ASSUME NEW d \in Level, ReportComplete(d) PROVE ActiveInv'
  BY <1>15
  DEF ReportComplete, ActiveInv, ActiveOf, PluginsBetween, PosInv, BodyLabels
<1>16. ASSUME NEW d \in Level, PopEnv(d) PROVE ActiveInv'
  BY <1>16 DEF PopEnv, ActiveInv, ActiveOf, PluginsBetween, PosInv, BodyLabels
<1>17. ASSUME NEW d \in Level, PopFrame(d) PROVE ActiveInv'
  BY <1>17
  DEF PopFrame, ActiveInv, ActiveOf, PluginsBetween, PosInv, BodyLabels
<1>18. ASSUME Fail PROVE ActiveInv'
  <2>1. PICK d \in Level : d = depth
    BY <1>18, FailFacts DEF Fail
  <2>2. /\ top = d
        /\ \/ /\ pc[d] \in {"setup", "test", "resumed", "plugin_checks"}
              /\ pc'[d] = "arm_teardown"
           \/ /\ pc[d] \in {"teardown", "plugin_teardown"}
              /\ pc'[d] = "plugin_teardown"
        /\ plug'[d] = 1 /\ active' = active
    BY <1>18, <2>1, FailFacts DEF Fail, LongJmp
  <2>3. plug[d] \in Nat \ {0} /\ Len(Plugins[d]) \in Nat
    BY PlugFacts
  <2>4. ActiveOf(d)
    BY DEF ActiveInv
  <2>5. active[d] \subseteq PluginsBetween(d, 1, Len(Plugins[d]))
    BY <2>2, <2>3, <2>4 DEF ActiveOf, BodyLabels, PluginsBetween
  <2>6. ActiveOf(d)'
    BY <2>2, <2>5 DEF ActiveOf, BodyLabels, PluginsBetween
  <2>7. ASSUME NEW k \in Level, k # d PROVE ActiveOf(k)'
    <3>1. /\ active'[k] = active[k] /\ plug'[k] = plug[k]
          /\ pc'[k] = pc[k] \/ (pc[k] \in {"idle", "done"} /\ pc'[k] = "idle")
      BY <1>18, <2>1, <2>2, <2>7 DEF Fail, LongJmp
    <3> QED
      BY <3>1 DEF ActiveInv, ActiveOf, BodyLabels, PluginsBetween
  <2> QED
    BY <2>6, <2>7 DEF ActiveInv
<1>19. ASSUME UNCHANGED vars PROVE ActiveInv'
  BY <1>19
  DEF vars, ctrl, ActiveInv, ActiveOf, PluginsBetween, PosInv, BodyLabels
<1> QED
  BY <1>1, <1>2, <1>3, <1>4, <1>5, <1>6, <1>7, <1>8, <1>9, <1>10, <1>11, <1>12, <1>13, <1>14, <1>15, <1>16, <1>17, <1>18, <1>19, NextCases
 

(***************************************************************************)
(* No dynamic_env entry is in a freed frame, and every plugin is torn down *)
(* before the frame its data lives in is freed.                            *)
(***************************************************************************)
THEOREM ContextsOutlived ==
  ASSUME FailuresAreCaught
  PROVE  Spec => []ContextsAlive
<1>1. Init => ActiveInv
  BY DEF Init, ActiveInv, ActiveOf, BodyLabels
<1>2. ControlInv /\ ActiveInv /\ [Next]_vars => ActiveInv'
  BY ActiveStep
<1>3. ControlInv /\ ActiveInv => ContextsAlive
  <2> SUFFICES ASSUME ControlInv, ActiveInv PROVE ContextsAlive
    OBVIOUS
  <2>1. \A i \in 1..Len(env) : env[i].frame <= frames
    <3>1. CASE depth = 0
      BY <3>1 DEF ControlInv, TypeOK, EnvInv
    <3>2. CASE depth # 0
      <4>1. depth \in Level
        BY <3>2, LevelFacts DEF ControlInv, TypeOK
      <4>2. Len(env) <= frames
        BY <3>2, <4>1, LevelFacts
        DEF ControlInv, EnvInv, InContext, InTest, InTestLabels, PluginLabels
      <4>3. ASSUME NEW i \in 1..Len(env) PROVE env[i].frame = i
        <5>1. env[i] = [level |-> i, frame |-> i]
          BY DEF ControlInv, EnvInv
        <5> QED
          BY <5>1
      <4>4. Len(env) \in Nat /\ frames \in Nat
        BY DEF ControlInv, TypeOK
      <4> QED
        BY <4>2, <4>3, <4>4
    <3> QED
      BY <3>1, <3>2
  <2> QED
    BY <2>1 DEF ContextsAlive, ActiveInv, ActiveOf
<1> QED
  BY <1>1, <1>2, <1>3, ControlInvHolds, PTL DEF Spec

(***************************************************************************)
(* A phase begins after a failure only if it is the fixture's teardown.    *)
(***************************************************************************)
LEMMA SkipStep ==
  ASSUME ControlInv, RanInv, FailuresAreCaught, [Next]_vars
  PROVE  SkipsToTeardown
<1> USE DEF ControlInv, TypeOK, Running, Begins, hist
<1>0. ASSUME ran' = ran PROVE SkipsToTeardown
  BY <1>0 DEF SkipsToTeardown
<1>1. ASSUME MainRun PROVE SkipsToTeardown
  BY <1>0, <1>1 DEF MainRun, EnterRun
<1>2. ASSUME NEW d \in Level, NestedRun(d) PROVE SkipsToTeardown
  BY <1>0, <1>2 DEF NestedRun, EnterRun
<1>3. ASSUME NEW d \in Level, SkipTest(d) PROVE SkipsToTeardown
  BY <1>0, <1>3 DEF SkipTest
<1>4. ASSUME NEW d \in Level, StartTest(d) PROVE SkipsToTeardown
  BY <1>4 DEF StartTest, SkipsToTeardown
<1>5. ASSUME NEW d \in Level, RunComplete(d) PROVE SkipsToTeardown
  BY <1>0, <1>5 DEF RunComplete
<1>6. ASSUME NEW d \in Level, NEW label \in PluginLabels, CallPlugin(d, label) PROVE SkipsToTeardown
  BY <1>0, <1>6 DEF CallPlugin
<1>7. ASSUME NEW d \in Level, IgnoreTest(d) PROVE SkipsToTeardown
  BY <1>0, <1>7 DEF IgnoreTest
<1>8. ASSUME NEW d \in Level, ArmBody(d) PROVE SkipsToTeardown
  BY <1>8 DEF ArmBody, RanInv, SkipsToTeardown
<1>9. ASSUME NEW d \in Level, FixtureSetup(d) PROVE SkipsToTeardown
  BY <1>9 DEF FixtureSetup, RanInv, SkipsToTeardown
<1>10. ASSUME NEW d \in Level, TestFunction(d) PROVE SkipsToTeardown
  BY <1>10 DEF TestFunction, RanInv, SkipsToTeardown
<1>11. ASSUME NEW d \in Level, ChecksDone(d) PROVE SkipsToTeardown
  BY <1>0, <1>11 DEF ChecksDone
<1>12. ASSUME NEW d \in Level, ArmTeardown(d) PROVE SkipsToTeardown
  BY <1>12 DEF ArmTeardown, SkipsToTeardown
<1>13. ASSUME NEW d \in Level, FixtureTeardown(d) PROVE SkipsToTeardown
  BY <1>0, <1>13 DEF FixtureTeardown
<1>14. ASSUME NEW d \in Level, TeardownDone(d) PROVE SkipsToTeardown
  BY <1>0, <1>14 DEF TeardownDone
<1>15. ASSUME NEW d \in Level, ReportComplete(d) PROVE SkipsToTeardown
  BY <1>0, <1>15 DEF ReportComplete
<1>16. ASSUME NEW d \in Level, PopEnv(d) PROVE SkipsToTeardown
  BY <1>0, <1>16 DEF PopEnv
<1>17. ASSUME NEW d \in Level, PopFrame(d) PROVE SkipsToTeardown
  BY <1>0, <1>17 DEF PopFrame
<1>18. ASSUME Fail PROVE SkipsToTeardown
  BY <1>0, <1>18 DEF Fail
<1>19. ASSUME UNCHANGED vars PROVE SkipsToTeardown
  BY <1>0, <1>19 DEF vars
<1> QED
  BY <1>1, <1>2, <1>3, <1>4, <1>5, <1>6, <1>7, <1>8, <1>9, <1>10, <1>11, <1>12, <1>13,
     <1>14, <1>15, <1>16, <1>17, <1>18, <1>19, NextCases, Zenon

(***************************************************************************)
(* FailureSkipsToTeardown: nothing of a test but the teardown of its       *)
(* fixture begins after a failure of it.                                   *)
(***************************************************************************)
THEOREM NothingElseAfterFailure ==
  ASSUME FailuresAreCaught
  PROVE  Spec => FailureSkipsToTeardown
<1>1. Init => RanInv
  BY DEF Init, RanInv
<1>2. ControlInv /\ CountInv /\ RanInv /\ [Next]_vars => RanInv'
  BY RanStep
<1>3. ControlInv /\ RanInv /\ [Next]_vars => [SkipsToTeardown]_vars
  BY SkipStep
<1> QED
  BY <1>1, <1>2, <1>3, CountInvHolds, PTL DEF Spec, FailureSkipsToTeardown

(***************************************************************************)
(* What SetUpOf depends on.                                                *)
(***************************************************************************)
LEMMA SameSetUp ==
  ASSUME NEW k \in Level, SetUpOf(k), active'[k] = active[k],
         \/ pc'[k] = pc[k] /\ plug'[k] = plug[k]
         \/ pc[k] \in BodyLabels /\ pc'[k] \in BodyLabels \cup {"arm_teardown"}
         \/ pc'[k] \in {"idle", "loop", "done", "complete", "pop_env", "pop_frame"}
  PROVE  SetUpOf(k)'
BY DEF SetUpOf, BodyLabels, PluginsBetween

(***************************************************************************)
(* If no plugin fails in its teardown, no loop over the callbacks is       *)
(* started twice, and the plugins it has to visit are all set up.          *)
(***************************************************************************)
LEMMA SetUpStep ==
  ASSUME ControlInv, ActiveInv, SetUpInv, FailuresAreCaught, TeardownsSucceed, [Next]_vars
  PROVE  SetUpInv'
<1> USE LevelFacts DEF ControlInv, TypeOK, Running, Goto, GotoPlugins, dyn, hist
<1> DEFINE After == {"idle", "loop", "done", "complete", "pop_env", "pop_frame"}
           Kept == \A k \in Level :
             /\ active'[k] = active[k]
             /\ \/ pc'[k] = pc[k] /\ plug'[k] = plug[k]
                \/ pc[k] \in BodyLabels /\ pc'[k] \in BodyLabels \cup {"arm_teardown"}
                \/ pc'[k] \in After
<1>0. ASSUME Kept PROVE SetUpInv'
  BY <1>0, SameSetUp DEF SetUpInv
<1>1. ASSUME MainRun PROVE SetUpInv'
  BY <1>0, <1>1 DEF MainRun, EnterRun
<1>2. ASSUME NEW d \in Level, NestedRun(d) PROVE SetUpInv'
  <2>1. d + 1 \in Level
    BY <1>2, DepthFacts DEF NestedRun
  <2>2. Kept
    BY <1>2, <2>1 DEF NestedRun, EnterRun, BodyLabels
  <2> QED
    BY <1>0, <2>2
<1>3. ASSUME NEW d \in Level, SkipTest(d) PROVE SetUpInv'
  BY <1>0, <1>3 DEF SkipTest
<1>4. ASSUME NEW d \in Level, StartTest(d) PROVE SetUpInv'
  <2>1. pc'[d] = "plugin_setup" /\ plug'[d] = 1 /\ active' = active
        /\ \A k \in Level : k # d => pc'[k] = pc[k] /\ plug'[k] = plug[k]
    BY <1>4 DEF StartTest
  <2>2. SetUpOf(d)'
    BY <2>1 DEF SetUpOf, BodyLabels, PluginsBetween
  <2> QED
    BY <2>1, <2>2, SameSetUp DEF SetUpInv
<1>5. ASSUME NEW d \in Level, RunComplete(d) PROVE SetUpInv'
  <2>1. \A k \in Level : \/ pc'[k] = pc[k]
                         \/ pc'[k] = "done"
                         \/ pc[k] = "nested" /\ pc'[k] = "resumed"
    BY <1>5 DEF RunComplete, LevelsInv
  <2>2. active' = active /\ plug' = plug
    BY <1>5 DEF RunComplete
  <2>3. Kept
    BY <2>1, <2>2 DEF BodyLabels
  <2> QED
    BY <1>0, <2>3
<1>6. ASSUME NEW d \in Level, NEW label \in PluginLabels, CallPlugin(d, label)
      PROVE  SetUpInv'
  <2>1. /\ plug[d] \in Nat \ {0} /\ Len(Plugins[d]) \in Nat
        /\ plug[d] <= Len(Plugins[d]) /\ plug'[d] = plug[d] + 1
        /\ pc' = pc /\ pc[d] = label
    BY <1>6, PlugFacts DEF CallPlugin, PluginsLeft
  <2>2. SetUpOf(d)
    BY DEF SetUpInv
  <2>3. ASSUME label = "plugin_setup" PROVE SetUpOf(d)'
    <3>1. active'[d] = active[d] \cup {Plugins[d][plug[d]]}
      BY <1>6, <2>3 DEF CallPlugin, plugin
    <3>2. PluginsBetween(d, 1, plug[d]) \subseteq active'[d]
      BY <2>1, <2>2, <2>3, <3>1 DEF SetUpOf, PluginsBetween
    <3>3. pc'[d] = "plugin_setup" /\ plug'[d] - 1 = plug[d]
      BY <2>1, <2>3
    <3> QED
      BY <3>2, <3>3 DEF SetUpOf, BodyLabels, PluginsBetween
  <2>4. ASSUME label = "plugin_checks" PROVE SetUpOf(d)'
    <3>1. active'[d] = active[d]
      BY <1>6, <2>4 DEF CallPlugin
    <3>2. pc[d] = "plugin_checks" /\ pc'[d] = "plugin_checks"
      BY <2>1, <2>4
    <3> QED
      BY <2>2, <3>1, <3>2 DEF SetUpOf, BodyLabels, PluginsBetween
  <2>5. ASSUME label = "plugin_teardown" PROVE SetUpOf(d)'
    <3>1. active'[d] = active[d] \ {Plugins[d][plug[d]]}
      BY <1>6, <2>5 DEF CallPlugin, plugin
    <3>2. ASSUME NEW i \in (plug[d] + 1)..Len(Plugins[d])
          PROVE  Plugins[d][i] \in active'[d]
      <4>1. i \in 1..Len(Plugins[d]) /\ plug[d] \in 1..Len(Plugins[d]) /\ i # plug[d]
            /\ i \in plug[d]..Len(Plugins[d])
        BY <2>1
      <4>2. Plugins[d][i] \in active[d]
        BY <2>1, <2>2, <2>5, <4>1 DEF SetUpOf, PluginsBetween
      <4>3. Plugins[d][i] # Plugins[d][plug[d]]
        BY <4>1, RunnerAssumption DEF RunnerAssumption
      <4> QED
        BY <3>1, <4>2, <4>3
    <3>3. pc'[d] = "plugin_teardown"
      BY <2>1, <2>5
    <3> QED
      BY <2>1, <3>2, <3>3 DEF SetUpOf, BodyLabels, PluginsBetween
  <2>6. ASSUME NEW k \in Level, k # d PROVE SetUpOf(k)'
    BY <1>6, <2>6, SameSetUp DEF CallPlugin, SetUpInv
  <2> QED
    BY <2>3, <2>4, <2>5, <2>6 DEF SetUpInv, PluginLabels
<1>7. ASSUME NEW d \in Level, NEW label \in {"setup", "plugin_teardown"},
             pc[d] = "plugin_setup", ~PluginsLeft(d), active' = active,
             pc'[d] = label, label = "plugin_teardown" => plug'[d] = 1,
             \A k \in Level : k # d => pc'[k] = pc[k] /\ plug'[k] = plug[k]
      PROVE  SetUpInv'
  <2>1. plug[d] \in Nat \ {0} /\ Len(Plugins[d]) \in Nat
    BY PlugFacts
  <2>2. plug[d] - 1 = Len(Plugins[d])
    <3>1. plug[d] <= Len(Plugins[d]) + 1
      BY <1>7 DEF ActiveInv, ActiveOf
    <3>2. plug[d] > Len(Plugins[d])
      BY <1>7, <2>1 DEF PluginsLeft
    <3> QED
      BY <2>1, <3>1, <3>2
  <2>3. PluginsBetween(d, 1, Len(Plugins[d])) \subseteq active[d]
    <3>1. PluginsBetween(d, 1, plug[d] - 1) \subseteq active[d]
      BY <1>7 DEF SetUpInv, SetUpOf
    <3> QED
      BY <2>2, <3>1
  <2>4. SetUpOf(d)'
    BY <1>7, <2>3 DEF SetUpOf, BodyLabels, PluginsBetween
  <2> QED
    BY <1>7, <2>4, SameSetUp DEF SetUpInv
<1>8. ASSUME NEW d \in Level, IgnoreTest(d) PROVE SetUpInv'
  BY <1>7, <1>8 DEF IgnoreTest
<1>9. ASSUME NEW d \in Level, ArmBody(d) PROVE SetUpInv'
  BY <1>7, <1>9 DEF ArmBody
<1>10. ASSUME NEW d \in Level, FixtureSetup(d) PROVE SetUpInv'
  BY <1>0, <1>10 DEF FixtureSetup, BodyLabels
<1>11. ASSUME NEW d \in Level, TestFunction(d) PROVE SetUpInv'
  BY <1>0, <1>11 DEF TestFunction, BodyLabels
<1>12. ASSUME NEW d \in Level, ChecksDone(d) PROVE SetUpInv'
  BY <1>0, <1>12 DEF ChecksDone, BodyLabels
<1>13. ASSUME NEW d \in Level, NEW label \in {"teardown", "plugin_teardown"},
              pc[d] \in BodyLabels \cup {"arm_teardown", "teardown"}, active' = active,
              pc'[d] = label, label = "plugin_teardown" => plug'[d] = 1,
              \A k \in Level : k # d =>
                pc'[k] \in After \/ (pc'[k] = pc[k] /\ plug'[k] = plug[k])
       PROVE  SetUpInv'
  <2>1. PluginsBetween(d, 1, Len(Plugins[d])) \subseteq active[d]
    BY <1>13 DEF SetUpInv, SetUpOf
  <2>2. SetUpOf(d)'
    BY <1>13, <2>1 DEF SetUpOf, BodyLabels, PluginsBetween
  <2> QED
    BY <1>13, <2>2, SameSetUp DEF SetUpInv
<1>14. ASSUME NEW d \in Level, ArmTeardown(d) PROVE SetUpInv'
  BY <1>13, <1>14 DEF ArmTeardown
<1>15. ASSUME NEW d \in Level, FixtureTeardown(d) PROVE SetUpInv'
  BY <1>13, <1>15 DEF FixtureTeardown
<1>16. ASSUME NEW d \in Level, TeardownDone(d) PROVE SetUpInv'
  BY <1>0, <1>16 DEF TeardownDone
<1>17. ASSUME NEW d \in Level, ReportComplete(d) PROVE SetUpInv'
  BY <1>0, <1>17 DEF ReportComplete
<1>18. ASSUME NEW d \in Level, PopEnv(d) PROVE SetUpInv'
  BY <1>0, <1>18 DEF PopEnv
<1>19. ASSUME NEW d \in Level, PopFrame(d) PROVE SetUpInv'
  BY <1>0, <1>19 DEF PopFrame
<1>20. ASSUME Fail PROVE SetUpInv'
  <2>1. PICK d \in Level : d = depth
    BY <1>20, FailFacts DEF Fail
  <2>2. /\ top = d
        /\ \/ /\ pc[d] \in {"setup", "test", "resumed", "plugin_checks"}
              /\ pc'[d] = "arm_teardown"
           \/ /\ pc[d] \in {"teardown", "plugin_teardown"}
              /\ pc'[d] = "plugin_teardown"
        /\ plug'[d] = 1 /\ active' = active
    BY <1>20, <2>1, FailFacts DEF Fail, LongJmp
  <2>3. pc[d] # "plugin_teardown"
    BY <1>20, <2>1, PluginTyped DEF Fail, MayFail, TeardownsSucceed
  <2>4. ASSUME NEW k \in Level, k # d
        PROVE  pc'[k] \in After \/ (pc'[k] = pc[k] /\ plug'[k] = plug[k])
    BY <1>20, <2>1, <2>2, <2>4 DEF Fail, LongJmp
  <2>5. CASE pc[d] = "teardown"
    BY <1>13, <2>2, <2>4, <2>5
  <2>6. CASE pc[d] # "teardown"
    <3>1. pc[d] \in BodyLabels /\ pc'[d] = "arm_teardown"
      BY <2>2, <2>3, <2>6 DEF BodyLabels
    <3>2. Kept
      BY <2>2, <2>4, <3>1
    <3> QED
      BY <1>0, <3>2
  <2> QED
    BY <2>5, <2>6
<1>21. ASSUME UNCHANGED vars PROVE SetUpInv'
  BY <1>0, <1>21 DEF vars, ctrl
<1> QED
  BY <1>1, <1>2, <1>3, <1>4, <1>5, <1>6, <1>8, <1>9, <1>10, <1>11, <1>12, <1>14, <1>15,
     <1>16, <1>17, <1>18, <1>19, <1>20, <1>21, NextCases, Zenon

\* A callback is due only for a plugin that is set up, or not yet.
LEMMA PairedStep ==
  ASSUME ControlInv, ActiveInv, SetUpInv
  PROVE  CallsPaired
<1> USE LevelFacts DEF ControlInv, TypeOK, Running
<1> SUFFICES ASSUME NEW d \in Level, NEW label \in PluginLabels, CallPlugin(d, label)
             PROVE  plugin(d) \in active[d] <=> label # "plugin_setup"
  BY DEF CallsPaired, PluginLabels
<1>1. /\ plug[d] \in Nat \ {0} /\ Len(Plugins[d]) \in Nat
      /\ plug[d] <= Len(Plugins[d]) /\ pc[d] = label
  BY PlugFacts DEF CallPlugin, PluginsLeft
<1>2. SetUpOf(d) /\ ActiveOf(d) /\ plugin(d) = Plugins[d][plug[d]]
  BY DEF SetUpInv, ActiveInv, plugin
<1>3. CASE label = "plugin_setup"
  <2>1. active[d] \subseteq PluginsBetween(d, 1, plug[d] - 1)
    BY <1>1, <1>2, <1>3 DEF ActiveOf
  <2>2. ASSUME NEW i \in 1..(plug[d] - 1) PROVE Plugins[d][i] # Plugins[d][plug[d]]
    <3>1. i \in 1..Len(Plugins[d]) /\ plug[d] \in 1..Len(Plugins[d]) /\ i # plug[d]
      BY <1>1
    <3> QED
      BY <3>1, RunnerAssumption DEF RunnerAssumption
  <2>3. Plugins[d][plug[d]] \notin PluginsBetween(d, 1, plug[d] - 1)
    BY ONLY <2>2 DEF PluginsBetween
  <2>4. plugin(d) \notin active[d]
    BY ONLY <1>2, <2>1, <2>3
  <2> QED
    BY <1>3, <2>4
<1>4. CASE label = "plugin_checks"
  BY <1>1, <1>2, <1>4 DEF SetUpOf, BodyLabels, PluginsBetween
<1>5. CASE label = "plugin_teardown"
  BY <1>1, <1>2, <1>5 DEF SetUpOf, PluginsBetween
<1> QED
  BY <1>3, <1>4, <1>5 DEF PluginLabels

(***************************************************************************)
(* PluginCallsPaired: the setup callback of a plugin is called when it is  *)
(* not set up, its checks and its teardown when it is.                     *)
(***************************************************************************)
THEOREM CallbacksAlternate ==
  ASSUME FailuresAreCaught, TeardownsSucceed
  PROVE  Spec => PluginCallsPaired
<1>1. Init => ActiveInv
  BY DEF Init, ActiveInv, ActiveOf, BodyLabels
<1>2. ControlInv /\ ActiveInv /\ [Next]_vars => ActiveInv'
  BY ActiveStep
<1>3. Init => SetUpInv
  BY DEF Init, SetUpInv, SetUpOf, BodyLabels
<1>4. ControlInv /\ ActiveInv /\ SetUpInv /\ [Next]_vars => SetUpInv'
  BY SetUpStep
<1>5. ControlInv /\ ActiveInv /\ SetUpInv => CallsPaired
  BY PairedStep
<1> QED
  BY <1>1, <1>2, <1>3, <1>4, <1>5, ControlInvHolds, PTL DEF Spec, PluginCallsPaired

-----------------------------------------------------------------------------
(* Why a run ends *)

\* How much of a level's test, and of its suite's loop, each place leaves.
left ==
  [l \in Labels |->
     CASE l = "loop" -> 14              [] l = "plugin_setup" -> 13
       [] l = "setup" -> 12             [] l = "test" -> 11
       [] l = "nested" -> 10            [] l = "resumed" -> 9
       [] l = "plugin_checks" -> 8      [] l = "arm_teardown" -> 7
       [] l = "teardown" -> 6           [] l = "plugin_teardown" -> 5
       [] l = "complete" -> 4           [] l = "pop_env" -> 3
       [] l = "pop_frame" -> 2          [] l = "done" -> 1
       [] OTHER -> 0]

(***************************************************************************)
(* Level d starts its run, goes on to the next test, goes on within the    *)
(* test, or goes on to the next plugin of a loop of plugins_run_callback;  *)
(* and no level that it runs in does anything.                             *)
(***************************************************************************)
Advances(d) ==
  /\ \A k \in Level : k < d => pc'[k] = pc[k] /\ pos'[k] = pos[k] /\ plug'[k] = plug[k]
  /\ pc'[d] # "idle"
  /\ \/ pc[d] = "idle"
     \/ /\ pos'[d] = pos[d] + 1
        /\ pos'[d] <= Len(Suites[d]) + 1
     \/ /\ pos'[d] = pos[d]
        /\ left[pc'[d]] < left[pc[d]]
     \/ /\ pos'[d] = pos[d]
        /\ pc'[d] = pc[d]
        /\ plug'[d] = plug[d] + 1
        /\ plug'[d] <= Len(Plugins[d]) + 1

GoesOn == \E d \in Level : Advances(d)

AlwaysGoesOn == [][GoesOn]_vars

\* The numbers of left, and the labels they are for.
LEMMA LeftFacts ==
  /\ left["loop"] = 14 /\ left["plugin_setup"] = 13 /\ left["setup"] = 12
  /\ left["test"] = 11 /\ left["nested"] = 10 /\ left["resumed"] = 9
  /\ left["plugin_checks"] = 8 /\ left["arm_teardown"] = 7
  /\ left["teardown"] = 6 /\ left["plugin_teardown"] = 5 /\ left["complete"] = 4
  /\ left["pop_env"] = 3 /\ left["pop_frame"] = 2 /\ left["done"] = 1
  BY DEF left, Labels, PluginLabels

\* A step from one place of a level to a later one, if no level below moves.
LEMMA GoesLower ==
  ASSUME NEW d \in Level, NEW old, NEW new, pc[d] = old, pc'[d] = new,
         left[new] < left[old], new # "idle", pos'[d] = pos[d],
         \A k \in Level : k < d => pc'[k] = pc[k] /\ pos'[k] = pos[k] /\ plug'[k] = plug[k]
  PROVE  GoesOn
<1>1. Advances(d)
  BY DEF Advances
<1> QED
  BY <1>1 DEF GoesOn

\* Every step goes on, if no plugin's teardown callback fails.
LEMMA GoesOnStep ==
  ASSUME ControlInv, FailuresAreCaught, TeardownsSucceed, Next
  PROVE  GoesOn \/ UNCHANGED vars
<1> USE LevelFacts DEF ControlInv, TypeOK, Running, Goto, GotoPlugins
<1>1. ASSUME MainRun PROVE GoesOn
  <2>1. pc[1] = "idle" /\ pc'[1] = "loop" /\ \A k \in Level : ~(k < 1)
    BY <1>1 DEF MainRun
  <2>2. Advances(1)
    BY <2>1 DEF Advances
  <2> QED
    BY <2>2 DEF GoesOn
<1>2. ASSUME NEW d \in Level, NestedRun(d) PROVE GoesOn
  <2>1. d + 1 \in Level
    BY <1>2, DepthFacts DEF NestedRun
  <2>2. pc[d] = "test" /\ pc'[d] = "nested" /\ pos'[d] = pos[d]
    BY <1>2, <2>1 DEF NestedRun, EnterRun
  <2>3. \A k \in Level : k < d => pc'[k] = pc[k] /\ pos'[k] = pos[k] /\ plug'[k] = plug[k]
    BY <1>2, <2>1 DEF NestedRun, EnterRun
  <2> QED
    BY ONLY <2>2, <2>3, LeftFacts, GoesLower
<1>3. ASSUME NEW d \in Level, SkipTest(d) PROVE GoesOn
  <2>1. /\ pc' = pc /\ plug' = plug /\ pos'[d] = pos[d] + 1 /\ pc[d] = "loop"
        /\ \A k \in Level : k < d => pos'[k] = pos[k]
    BY <1>3 DEF SkipTest
  <2>2. pos[d] <= Len(Suites[d]) /\ pos[d] \in Nat /\ Len(Suites[d]) \in Nat
    BY <1>3, RunnerAssumption DEF SkipTest, RunnerAssumption
  <2>3. Advances(d)
    BY <2>1, <2>2 DEF Advances
  <2> QED
    BY <2>3 DEF GoesOn
<1>4. ASSUME NEW d \in Level, StartTest(d) PROVE GoesOn
  <2>1. pc[d] = "loop" /\ pc'[d] = "plugin_setup" /\ pos'[d] = pos[d]
    BY <1>4 DEF StartTest
  <2>2. \A k \in Level : k < d => pc'[k] = pc[k] /\ pos'[k] = pos[k] /\ plug'[k] = plug[k]
    BY <1>4 DEF StartTest
  <2> QED
    BY ONLY <2>1, <2>2, LeftFacts, GoesLower
<1>5. ASSUME NEW d \in Level, RunComplete(d) PROVE GoesOn
  <2>1. CASE d = 1
    <3>1. pc[d] = "loop" /\ pc'[d] = "done" /\ pos'[d] = pos[d] /\ \A k \in Level : ~(k < d)
      BY <1>5, <2>1 DEF RunComplete
    <3> QED
      BY ONLY <3>1, LeftFacts, GoesLower
  <2>2. CASE d # 1
    <3>1. d - 1 \in Level /\ d - 1 < depth
      BY <1>5, <2>2, DepthFacts DEF RunComplete
    <3>2. pc[d - 1] = "nested"
      BY <3>1 DEF LevelsInv
    <3>3. pc'[d - 1] = "resumed" /\ pos'[d - 1] = pos[d - 1]
      BY <1>5, <2>2, <3>1 DEF RunComplete
    <3>4. \A k \in Level : k < d - 1 =>
            pc'[k] = pc[k] /\ pos'[k] = pos[k] /\ plug'[k] = plug[k]
      BY <1>5, <2>2, <3>1 DEF RunComplete
    <3> QED
      BY ONLY <3>1, <3>2, <3>3, <3>4, LeftFacts, GoesLower
  <2> QED
    BY <2>1, <2>2
<1>6. ASSUME NEW d \in Level, NEW label \in PluginLabels, CallPlugin(d, label)
      PROVE  GoesOn
  <2>1. /\ pc' = pc /\ pos' = pos /\ plug'[d] = plug[d] + 1 /\ pc[d] = label
        /\ \A k \in Level : k < d => plug'[k] = plug[k]
    BY <1>6 DEF CallPlugin
  <2>2. plug[d] <= Len(Plugins[d]) /\ plug[d] \in Nat /\ Len(Plugins[d]) \in Nat
    BY <1>6, PlugFacts DEF CallPlugin, PluginsLeft
  <2>3. Advances(d)
    BY <2>1, <2>2 DEF Advances, PluginLabels
  <2> QED
    BY <2>3 DEF GoesOn
<1>7. ASSUME NEW d \in Level, IgnoreTest(d) PROVE GoesOn
  <2>1. pc[d] = "plugin_setup" /\ pc'[d] = "plugin_teardown" /\ pos'[d] = pos[d]
    BY <1>7 DEF IgnoreTest
  <2>2. \A k \in Level : k < d => pc'[k] = pc[k] /\ pos'[k] = pos[k] /\ plug'[k] = plug[k]
    BY <1>7 DEF IgnoreTest
  <2> QED
    BY ONLY <2>1, <2>2, LeftFacts, GoesLower
<1>8. ASSUME NEW d \in Level, ArmBody(d) PROVE GoesOn
  <2>1. pc[d] = "plugin_setup" /\ pc'[d] = "setup" /\ pos'[d] = pos[d]
    BY <1>8 DEF ArmBody
  <2>2. \A k \in Level : k < d => pc'[k] = pc[k] /\ pos'[k] = pos[k] /\ plug'[k] = plug[k]
    BY <1>8 DEF ArmBody
  <2> QED
    BY ONLY <2>1, <2>2, LeftFacts, GoesLower
<1>9. ASSUME NEW d \in Level, FixtureSetup(d) PROVE GoesOn
  <2>1. pc[d] = "setup" /\ pc'[d] = "test" /\ pos'[d] = pos[d]
    BY <1>9 DEF FixtureSetup
  <2>2. \A k \in Level : k < d => pc'[k] = pc[k] /\ pos'[k] = pos[k] /\ plug'[k] = plug[k]
    BY <1>9 DEF FixtureSetup
  <2> QED
    BY ONLY <2>1, <2>2, LeftFacts, GoesLower
<1>10. ASSUME NEW d \in Level, TestFunction(d) PROVE GoesOn
  <2>1. pc[d] \in {"test", "resumed"} /\ pc'[d] = "plugin_checks" /\ pos'[d] = pos[d]
    BY <1>10 DEF TestFunction
  <2>2. \A k \in Level : k < d => pc'[k] = pc[k] /\ pos'[k] = pos[k] /\ plug'[k] = plug[k]
    BY <1>10 DEF TestFunction
  <2> QED
    BY ONLY <2>1, <2>2, LeftFacts, GoesLower
<1>11. ASSUME NEW d \in Level, ChecksDone(d) PROVE GoesOn
  <2>1. pc[d] = "plugin_checks" /\ pc'[d] = "arm_teardown" /\ pos'[d] = pos[d]
    BY <1>11 DEF ChecksDone
  <2>2. \A k \in Level : k < d => pc'[k] = pc[k] /\ pos'[k] = pos[k] /\ plug'[k] = plug[k]
    BY <1>11 DEF ChecksDone
  <2> QED
    BY ONLY <2>1, <2>2, LeftFacts, GoesLower
<1>12. ASSUME NEW d \in Level, ArmTeardown(d) PROVE GoesOn
  <2>1. pc[d] = "arm_teardown" /\ pc'[d] = "teardown" /\ pos'[d] = pos[d]
    BY <1>12 DEF ArmTeardown
  <2>2. \A k \in Level : k < d => pc'[k] = pc[k] /\ pos'[k] = pos[k] /\ plug'[k] = plug[k]
    BY <1>12 DEF ArmTeardown
  <2> QED
    BY ONLY <2>1, <2>2, LeftFacts, GoesLower
<1>13. ASSUME NEW d \in Level, FixtureTeardown(d) PROVE GoesOn
  <2>1. pc[d] = "teardown" /\ pc'[d] = "plugin_teardown" /\ pos'[d] = pos[d]
    BY <1>13 DEF FixtureTeardown
  <2>2. \A k \in Level : k < d => pc'[k] = pc[k] /\ pos'[k] = pos[k] /\ plug'[k] = plug[k]
    BY <1>13 DEF FixtureTeardown
  <2> QED
    BY ONLY <2>1, <2>2, LeftFacts, GoesLower
<1>14. ASSUME NEW d \in Level, TeardownDone(d) PROVE GoesOn
  <2>1. pc[d] = "plugin_teardown" /\ pc'[d] = "complete" /\ pos'[d] = pos[d]
    BY <1>14 DEF TeardownDone
  <2>2. \A k \in Level : k < d => pc'[k] = pc[k] /\ pos'[k] = pos[k] /\ plug'[k] = plug[k]
    BY <1>14 DEF TeardownDone
  <2> QED
    BY ONLY <2>1, <2>2, LeftFacts, GoesLower
<1>15. ASSUME NEW d \in Level, ReportComplete(d) PROVE GoesOn
  <2>1. pc[d] = "complete" /\ pc'[d] = "pop_env" /\ pos'[d] = pos[d]
    BY <1>15 DEF ReportComplete
  <2>2. \A k \in Level : k < d => pc'[k] = pc[k] /\ pos'[k] = pos[k] /\ plug'[k] = plug[k]
    BY <1>15 DEF ReportComplete
  <2> QED
    BY ONLY <2>1, <2>2, LeftFacts, GoesLower
<1>16. ASSUME NEW d \in Level, PopEnv(d) PROVE GoesOn
  <2>1. pc[d] = "pop_env" /\ pc'[d] = "pop_frame" /\ pos'[d] = pos[d]
    BY <1>16 DEF PopEnv
  <2>2. \A k \in Level : k < d => pc'[k] = pc[k] /\ pos'[k] = pos[k] /\ plug'[k] = plug[k]
    BY <1>16 DEF PopEnv
  <2> QED
    BY ONLY <2>1, <2>2, LeftFacts, GoesLower
<1>17. ASSUME NEW d \in Level, PopFrame(d) PROVE GoesOn
  <2>1. /\ pc'[d] = "loop" /\ pos'[d] = pos[d] + 1 /\ pc[d] = "pop_frame"
        /\ \A k \in Level : k < d => pc'[k] = pc[k] /\ pos'[k] = pos[k] /\ plug'[k] = plug[k]
    BY <1>17 DEF PopFrame
  <2>2. pos[d] <= Len(Suites[d]) /\ pos[d] \in Nat /\ Len(Suites[d]) \in Nat
    BY <2>1, RunnerAssumption DEF PosInv, RunnerAssumption
  <2>3. Advances(d)
    BY <2>1, <2>2 DEF Advances
  <2> QED
    BY <2>3 DEF GoesOn
<1>18. ASSUME Fail PROVE GoesOn
  <2>1. depth # 0 /\ MayFail(depth) /\ LongJmp(top) /\ pos' = pos
    BY <1>18 DEF Fail
  <2>2. /\ depth \in Level
        /\ top = depth
        /\ \/ /\ pc[depth] \in {"setup", "test", "resumed", "plugin_checks"}
              /\ jmp[depth] = "arm_teardown"
           \/ /\ pc[depth] \in {"teardown", "plugin_teardown"}
              /\ jmp[depth] = "plugin_teardown"
    BY <2>1, FailFacts
  <2>3. pc[depth] # "plugin_teardown"
    <3> SUFFICES ASSUME pc[depth] = "plugin_teardown" PROVE FALSE
      OBVIOUS
    <3>1. PluginsLeft(depth) /\ <<plugin(depth), "plugin_teardown">> \in FailingCallbacks
      BY <2>1 DEF MayFail
    <3> QED
      BY <2>2, <3>1, PluginTyped DEF TeardownsSucceed
  <2>4. pc'[depth] = jmp[depth]
    BY <2>1, <2>2 DEF LongJmp
  <2>5. \A k \in Level : k < depth =>
          pc'[k] = pc[k] /\ pos'[k] = pos[k] /\ plug'[k] = plug[k]
    BY <2>1, <2>2 DEF LongJmp
  <2>6. pos'[depth] = pos[depth]
    BY <2>1
  <2> QED
    BY ONLY <2>2, <2>3, <2>4, <2>5, <2>6, LeftFacts, GoesLower
<1> QED
  BY <1>1, <1>2, <1>3, <1>4, <1>5, <1>6, <1>7, <1>8, <1>9, <1>10, <1>11, <1>12, <1>13, <1>14, <1>15, <1>16, <1>17, <1>18, NextCases

(***************************************************************************)
(* RunEnds rests on this: whatever fails on the way, every step of a run   *)
(* takes a level on to a later test, place or plugin, within bounds, while *)
(* the runs it is nested in stand still.  A failure never takes a test     *)
(* back to where it was, and a test runs its nested suite no second time,  *)
(* so a run has no way to go on for ever.                                  *)
(***************************************************************************)
THEOREM RunsGoOn ==
  ASSUME FailuresAreCaught, TeardownsSucceed
  PROVE  Spec => AlwaysGoesOn
<1>1. ControlInv /\ [Next]_vars => [GoesOn]_vars
  BY GoesOnStep
<1> QED
  BY <1>1, ControlInvHolds, PTL DEF Spec, AlwaysGoesOn

-----------------------------------------------------------------------------
(* The outermost run implements PFRunSpec *)

\* Inside its test, or unchanged, the outermost run goes on.
Quiet ==
  /\ pos'[1] = pos[1] /\ rep'[1] = rep[1]
  /\ \/ pc'[1] = pc[1]
     \/ pc[1] \in InTestLabels /\ pc'[1] \in InTestLabels

Begins1 ==
  /\ pc[1] = "idle" /\ pc'[1] = "loop"
  /\ pos'[1] = 1 /\ rep'[1] = RunStarted

Skips1 ==
  /\ pc[1] = "loop" /\ pc'[1] = "loop"
  /\ pos[1] <= Len(Suites[1]) /\ ~test_matches_filter(filter[1], the_test(1))
  /\ pos'[1] = pos[1] + 1 /\ rep'[1] = rep[1]

Starts1 ==
  /\ pc[1] = "loop" /\ pc'[1] \in InTestLabels
  /\ pos[1] <= Len(Suites[1]) /\ test_matches_filter(filter[1], the_test(1))
  /\ pos'[1] = pos[1] /\ rep'[1] = TestStarted(rep[1])

Ends1 ==
  /\ pc[1] = "loop" /\ pc'[1] = "done" /\ pos[1] > Len(Suites[1])
  /\ pos'[1] = pos[1] /\ rep'[1] = rep[1]

Ignores1 ==
  /\ pc[1] = "plugin_setup" /\ pc'[1] \in InTestLabels
  /\ pos'[1] = pos[1] /\ rep'[1] = TestIgnored(rep[1])

Fails1 ==
  /\ pc[1] \in InTestLabels /\ pc'[1] \in InTestLabels
  /\ pos'[1] = pos[1] /\ rep'[1] = TestFailed(rep[1])

Reports1 ==
  /\ pc[1] = "complete" /\ pc'[1] = "pop_env"
  /\ pos'[1] = pos[1] /\ rep'[1] = TestComplete(rep[1])

Pops1 ==
  /\ rep'[1] = rep[1]
  /\ \/ pc[1] = "pop_env" /\ pc'[1] = "pop_frame" /\ pos'[1] = pos[1]
     \/ pc[1] = "pop_frame" /\ pc'[1] = "loop" /\ pos'[1] = pos[1] + 1

OutermostStep ==
  \/ Quiet \/ Begins1 \/ Skips1 \/ Starts1 \/ Ends1 \/ Ignores1 \/ Fails1
  \/ Reports1 \/ Pops1

\* What a step of any level is to the outermost run.
LEMMA OutermostSteps ==
  ASSUME ControlInv, FailuresAreCaught, [Next]_vars
  PROVE  OutermostStep /\ filter' = filter
<1> USE DEF Running, Goto, GotoPlugins, hist, dyn
<1>0. /\ 1 \in Level
      /\ pc \in [Level -> Labels] /\ pos \in [Level -> Nat \ {0}]
      /\ rep \in [Level -> Results] /\ depth \in 0..MaxDepth
      /\ Level \subseteq Nat
  BY LevelFacts DEF ControlInv, TypeOK
<1>1. ASSUME MainRun PROVE OutermostStep /\ filter' = filter
  BY <1>0, <1>1 DEF MainRun, EnterRun, OutermostStep, Begins1
<1>2. ASSUME NEW d \in Level, NestedRun(d) PROVE OutermostStep /\ filter' = filter
  <2>1. d + 1 # 1 /\ d \in Nat /\ d + 1 # d
    BY <1>0, LevelFacts
  <2>2. /\ pos' = [pos EXCEPT ![d + 1] = 1] /\ rep' = [rep EXCEPT ![d + 1] = RunStarted]
        /\ pc' = [pc EXCEPT ![d] = "nested", ![d + 1] = "loop"]
        /\ pc[d] = "test" /\ filter' = filter
    BY <1>2 DEF NestedRun, EnterRun
  <2>3. pos'[1] = pos[1] /\ rep'[1] = rep[1]
    BY <1>0, <2>1, <2>2
  <2>4. IF d = 1 THEN pc'[1] = "nested" ELSE pc'[1] = pc[1]
    BY <1>0, <2>1, <2>2
  <2> QED
    BY <2>2, <2>3, <2>4 DEF OutermostStep, Quiet, InTestLabels
<1>3. ASSUME NEW d \in Level, SkipTest(d) PROVE OutermostStep /\ filter' = filter
  BY <1>0, <1>3 DEF SkipTest, OutermostStep, Quiet, Skips1
<1>4. ASSUME NEW d \in Level, StartTest(d) PROVE OutermostStep /\ filter' = filter
  BY <1>0, <1>4 DEF StartTest, OutermostStep, Quiet, Starts1, InTestLabels, PluginLabels
<1>5. ASSUME NEW d \in Level, RunComplete(d) PROVE OutermostStep /\ filter' = filter
  <2>1. d # 1 => d - 1 \in Level /\ pc[d - 1] = "nested"
    BY <1>0, <1>5, DepthFacts DEF RunComplete, ControlInv, LevelsInv
  <2> QED
    BY <1>0, <1>5, <2>1 DEF RunComplete, OutermostStep, Quiet, Ends1, InTestLabels
<1>6. ASSUME NEW d \in Level, NEW label \in PluginLabels, CallPlugin(d, label)
      PROVE  OutermostStep /\ filter' = filter
  BY <1>0, <1>6 DEF CallPlugin, OutermostStep, Quiet
<1>7. ASSUME NEW d \in Level, IgnoreTest(d) PROVE OutermostStep /\ filter' = filter
  BY <1>0, <1>7 DEF IgnoreTest, OutermostStep, Quiet, Ignores1, InTestLabels, PluginLabels
<1>8. ASSUME NEW d \in Level, ArmBody(d) PROVE OutermostStep /\ filter' = filter
  BY <1>0, <1>8 DEF ArmBody, OutermostStep, Quiet, InTestLabels, PluginLabels
<1>9. ASSUME NEW d \in Level, FixtureSetup(d) PROVE OutermostStep /\ filter' = filter
  BY <1>0, <1>9 DEF FixtureSetup, OutermostStep, Quiet, InTestLabels
<1>10. ASSUME NEW d \in Level, TestFunction(d) PROVE OutermostStep /\ filter' = filter
  BY <1>0, <1>10 DEF TestFunction, OutermostStep, Quiet, InTestLabels, PluginLabels
<1>11. ASSUME NEW d \in Level, ChecksDone(d) PROVE OutermostStep /\ filter' = filter
  BY <1>0, <1>11 DEF ChecksDone, OutermostStep, Quiet, InTestLabels, PluginLabels
<1>12. ASSUME NEW d \in Level, ArmTeardown(d) PROVE OutermostStep /\ filter' = filter
  BY <1>0, <1>12 DEF ArmTeardown, OutermostStep, Quiet, InTestLabels
<1>13. ASSUME NEW d \in Level, FixtureTeardown(d) PROVE OutermostStep /\ filter' = filter
  BY <1>0, <1>13 DEF FixtureTeardown, OutermostStep, Quiet, InTestLabels, PluginLabels
<1>14. ASSUME NEW d \in Level, TeardownDone(d) PROVE OutermostStep /\ filter' = filter
  BY <1>0, <1>14 DEF TeardownDone, OutermostStep, Quiet, InTestLabels, PluginLabels
<1>15. ASSUME NEW d \in Level, ReportComplete(d) PROVE OutermostStep /\ filter' = filter
  BY <1>0, <1>15 DEF ReportComplete, OutermostStep, Quiet, Reports1
<1>16. ASSUME NEW d \in Level, PopEnv(d) PROVE OutermostStep /\ filter' = filter
  BY <1>0, <1>16 DEF PopEnv, OutermostStep, Quiet, Pops1
<1>17. ASSUME NEW d \in Level, PopFrame(d) PROVE OutermostStep /\ filter' = filter
  BY <1>0, <1>17 DEF PopFrame, OutermostStep, Quiet, Pops1
<1>18. ASSUME Fail PROVE OutermostStep /\ filter' = filter
  <2>1. PICK d \in Level : d = depth
    BY <1>18, FailFacts DEF Fail
  <2>2. /\ top = d /\ pc[d] \in InTestLabels /\ jmp[d] \in InTestLabels
        /\ jmp[d] # "unset"
    BY <1>18, <2>1, FailFacts DEF Fail, InTestLabels, PluginLabels
  <2>3. /\ rep'[d] = TestFailed(rep[d]) /\ pos' = pos /\ filter' = filter
        /\ pc'[d] = jmp[d]
        /\ d # 1 => rep'[1] = rep[1] /\ pc'[1] = pc[1]
    BY <1>0, <1>18, <2>1, <2>2 DEF Fail, LongJmp
  <2> QED
    BY <2>2, <2>3 DEF OutermostStep, Quiet, Fails1
<1>19. ASSUME UNCHANGED vars PROVE OutermostStep /\ filter' = filter
  BY <1>19 DEF vars, ctrl, OutermostStep, Quiet
<1> QED
  BY <1>1, <1>2, <1>3, <1>4, <1>5, <1>6, <1>7, <1>8, <1>9, <1>10, <1>11, <1>12,
     <1>13, <1>14, <1>15, <1>16, <1>17, <1>18, <1>19, NextCases

(***************************************************************************)
(* The outermost run starts from the first test, and a test whose verdict  *)
(* is pending is one the filter selects.                                   *)
(***************************************************************************)
SelectedInv ==
  /\ pc[1] = "idle" => pos[1] = 1 /\ rep[1] = RunStarted
  /\ pc[1] \in InTestLabels \cup {"pop_env", "pop_frame"} =>
       test_matches_filter(filter[1], the_test(1))

\* Only the filter's tests are started.
LEMMA SelectedStep ==
  ASSUME SelectedInv, OutermostStep, filter' = filter
  PROVE  SelectedInv'
<1> USE DEF SelectedInv
<1> HIDE DEF test_matches_filter
<1>0. ASSUME pos'[1] = pos[1]
      PROVE  test_matches_filter(filter[1], the_test(1))' <=> test_matches_filter(filter[1], the_test(1))
  BY <1>0 DEF test_matches_filter, the_test
<1>1. CASE Quiet
  BY <1>0, <1>1 DEF Quiet, InTestLabels, PluginLabels
<1>2. CASE Begins1
  BY <1>2 DEF Begins1, InTestLabels, PluginLabels
<1>3. CASE Skips1
  BY <1>3 DEF Skips1, InTestLabels, PluginLabels
<1>4. CASE Starts1
  BY <1>0, <1>4 DEF Starts1, InTestLabels, PluginLabels
<1>5. CASE Ends1
  BY <1>5 DEF Ends1, InTestLabels, PluginLabels
<1>6. CASE Ignores1
  BY <1>0, <1>6 DEF Ignores1, InTestLabels, PluginLabels
<1>7. CASE Fails1
  BY <1>0, <1>7 DEF Fails1, InTestLabels, PluginLabels
<1>8. CASE Reports1
  BY <1>0, <1>8 DEF Reports1, InTestLabels, PluginLabels
<1>9. CASE Pops1
  BY <1>0, <1>9 DEF Pops1, InTestLabels, PluginLabels
<1> QED
  BY <1>1, <1>2, <1>3, <1>4, <1>5, <1>6, <1>7, <1>8, <1>9 DEF OutermostStep

\* The counters without the test in flight, and the result.
ShownCounts ==
  [passed  |-> rep[1].passed,
   failed  |-> rep[1].failed - One(InTest(1) /\ rep[1].test_failed),
   ignored |-> rep[1].ignored - One(InTest(1) /\ rep[1].test_ignored)]

ShownResult == IF pc[1] = "done" THEN ReturnValue(rep[1]) ELSE "running"

\* What is shown when nothing of it changes.
LEMMA Stutters ==
  ASSUME filter' = filter, TestsAfter(1)' = TestsAfter(1),
         ShownCounts' = ShownCounts, ShownResult' = ShownResult
  PROVE  UNCHANGED Promise!vars
BY DEF Promise!vars, ShownCounts, ShownResult

\* The position from which tests are pending.
FirstLeft == IF pc[1] \in {"pop_env", "pop_frame"} THEN pos[1] + 1 ELSE pos[1]

\* What is pending depends on that position alone.
LEMMA SamePending ==
  ASSUME filter' = filter, FirstLeft' = FirstLeft
  PROVE  TestsAfter(1)' = TestsAfter(1)
<1>1. TestsAfter(1) = {i \in FirstLeft..Len(Suites[1]) : test_matches_filter(filter[1], Suites[1][i])}
  BY Zenon DEF TestsAfter, FirstLeft
<1>2. TestsAfter(1)' = {i \in FirstLeft'..Len(Suites[1]) : test_matches_filter(filter'[1], Suites[1][i])}
  BY Zenon DEF TestsAfter, FirstLeft, test_matches_filter
<1> QED
  BY <1>1, <1>2, Zenon

\* What the reporter's handlers do to the counters and flags.
LEMMA CounterFacts ==
  ASSUME NEW r \in Results
  PROVE  /\ TestStarted(r).passed = r.passed /\ TestStarted(r).failed = r.failed
         /\ TestStarted(r).ignored = r.ignored
         /\ ~TestStarted(r).test_failed /\ ~TestStarted(r).test_ignored
         /\ TestIgnored(r).passed = r.passed /\ TestIgnored(r).failed = r.failed
         /\ TestIgnored(r).ignored = r.ignored + 1
         /\ TestIgnored(r).test_failed = r.test_failed /\ TestIgnored(r).test_ignored
         /\ TestFailed(r).passed = r.passed /\ TestFailed(r).ignored = r.ignored
         /\ TestFailed(r).failed = IF r.test_failed THEN r.failed ELSE r.failed + 1
         /\ TestFailed(r).test_failed /\ TestFailed(r).test_ignored = r.test_ignored
         /\ TestComplete(r).passed = IF r.test_failed \/ r.test_ignored THEN r.passed
                                     ELSE r.passed + 1
         /\ TestComplete(r).failed = r.failed /\ TestComplete(r).ignored = r.ignored
BY DEF Results, TestStarted, TestIgnored, TestFailed, TestComplete

\* What the simulation needs of the invariants at the outermost level.
OuterFacts ==
  /\ rep[1] \in Results /\ pos[1] \in Nat /\ FlagsOf(1) /\ SelectedInv
  /\ InTest(1) => pos[1] <= Len(Suites[1])

\* Every step of the outermost run but a verdict and its end shows nothing.
LEMMA HiddenSteps ==
  ASSUME OuterFacts, filter' = filter,
         Quiet \/ Begins1 \/ Skips1 \/ Starts1 \/ Ignores1 \/ Fails1 \/ Pops1
  PROVE  UNCHANGED Promise!vars
<1> DEFINE Hidden == /\ TestsAfter(1)' = TestsAfter(1)
                     /\ ShownCounts' = ShownCounts
                     /\ ShownResult' = ShownResult
<1> USE DEF InTest, InTestLabels, PluginLabels, One
<1>0. PICK r \in Results : r = rep[1]
  BY DEF OuterFacts
<1>r. /\ r.passed \in Nat /\ r.failed \in Nat /\ r.ignored \in Nat
      /\ r.test_failed \in BOOLEAN /\ r.test_ignored \in BOOLEAN
  BY DEF Results
<1>1. CASE Quiet
  <2>1. FirstLeft' = FirstLeft
    BY <1>1 DEF Quiet, FirstLeft
  <2>2. TestsAfter(1)' = TestsAfter(1)
    BY <2>1, SamePending
  <2>3. InTest(1)' <=> InTest(1)
    BY <1>1 DEF Quiet
  <2>4. ShownCounts' = ShownCounts
    BY <1>1, <2>3 DEF Quiet, ShownCounts
  <2>5. ShownResult' = ShownResult
    BY <1>1 DEF Quiet, ShownResult
  <2> QED
    BY <2>2, <2>4, <2>5, Stutters
<1>2. CASE Begins1
  <2>1. pos[1] = 1 /\ rep[1] = RunStarted
    BY <1>2 DEF Begins1, OuterFacts, SelectedInv
  <2>2. FirstLeft' = FirstLeft
    BY <1>2, <2>1 DEF Begins1, FirstLeft
  <2>3. TestsAfter(1)' = TestsAfter(1)
    BY <2>2, SamePending
  <2>4. ShownCounts' = ShownCounts
    BY <1>2, <2>1 DEF Begins1, ShownCounts
  <2>5. ShownResult' = ShownResult
    BY <1>2 DEF Begins1, ShownResult
  <2> QED
    BY <2>3, <2>4, <2>5, Stutters
<1>3. CASE Skips1
  <2>1. TestsAfter(1)' = TestsAfter(1)
    <3> DEFINE M(i) == test_matches_filter(filter[1], Suites[1][i])
    <3>1. /\ TestsAfter(1) = {i \in pos[1]..Len(Suites[1]) : M(i)}
          /\ TestsAfter(1)' = {i \in pos[1] + 1..Len(Suites[1]) : M(i)}
          /\ ~M(pos[1]) /\ pos[1] \in Nat
      BY <1>3 DEF Skips1, TestsAfter, test_matches_filter, the_test, OuterFacts
    <3> HIDE DEF M
    <3>2. PICK p \in Nat : p = pos[1]
      BY <3>1
    <3>3. \A i \in p..Len(Suites[1]) : i = p \/ i \in p + 1..Len(Suites[1])
      BY LevelFacts, RunnerAssumption DEF RunnerAssumption
    <3>4. \A i \in p + 1..Len(Suites[1]) : i \in p..Len(Suites[1])
      BY LevelFacts, RunnerAssumption DEF RunnerAssumption
    <3>5. {i \in p + 1..Len(Suites[1]) : M(i)} = {i \in p..Len(Suites[1]) : M(i)}
      BY <3>1, <3>2, <3>3, <3>4
    <3> QED
      BY <3>1, <3>2, <3>5
  <2>2. ShownCounts' = ShownCounts
    BY <1>3 DEF Skips1, ShownCounts
  <2>3. ShownResult' = ShownResult
    BY <1>3 DEF Skips1, ShownResult
  <2> QED
    BY <2>1, <2>2, <2>3, Stutters
<1>4. CASE Starts1
  <2>1. FirstLeft' = FirstLeft
    BY <1>4 DEF Starts1, FirstLeft
  <2>2. TestsAfter(1)' = TestsAfter(1)
    BY <2>1, SamePending
  <2>3. ShownCounts' = ShownCounts
    BY <1>0, <1>r, <1>4, CounterFacts DEF Starts1, ShownCounts
  <2>4. ShownResult' = ShownResult
    BY <1>4 DEF Starts1, ShownResult
  <2> QED
    BY <2>2, <2>3, <2>4, Stutters
<1>5. CASE Ignores1
  <2>1. FirstLeft' = FirstLeft
    BY <1>5 DEF Ignores1, FirstLeft
  <2>2. TestsAfter(1)' = TestsAfter(1)
    BY <2>1, SamePending
  <2>3. ~rep[1].test_ignored
    BY <1>5 DEF Ignores1, OuterFacts, FlagsOf, WasIgnored
  <2>4. ShownCounts' = ShownCounts
    <3>1. rep'[1] = TestIgnored(r) /\ InTest(1) /\ InTest(1)' /\ ~r.test_ignored
      BY <1>0, <1>5, <2>3 DEF Ignores1
    <3> QED
      BY <1>0, <1>r, <3>1, CounterFacts DEF ShownCounts
  <2>5. ShownResult' = ShownResult
    BY <1>5 DEF Ignores1, ShownResult
  <2> QED
    BY <2>2, <2>4, <2>5, Stutters
<1>6. CASE Fails1
  <2>1. FirstLeft' = FirstLeft
    BY <1>6 DEF Fails1, FirstLeft
  <2>2. TestsAfter(1)' = TestsAfter(1)
    BY <2>1, SamePending
  <2>3. ShownCounts' = ShownCounts
    <3>1. rep'[1] = TestFailed(r) /\ InTest(1) /\ InTest(1)'
      BY <1>0, <1>6 DEF Fails1
    <3> QED
      BY <1>0, <1>r, <3>1, CounterFacts DEF ShownCounts
  <2>4. ShownResult' = ShownResult
    BY <1>6 DEF Fails1, ShownResult
  <2> QED
    BY <2>2, <2>3, <2>4, Stutters
<1>7. CASE Pops1
  <2>1. FirstLeft' = FirstLeft
    BY <1>7 DEF Pops1, FirstLeft
  <2>2. TestsAfter(1)' = TestsAfter(1)
    BY <2>1, SamePending
  <2>3. ShownCounts' = ShownCounts
    BY <1>7 DEF Pops1, ShownCounts
  <2>4. ShownResult' = ShownResult
    BY <1>7 DEF Pops1, ShownResult
  <2> QED
    BY <2>2, <2>3, <2>4, Stutters
<1> QED
  BY <1>1, <1>2, <1>3, <1>4, <1>5, <1>6, <1>7

\* The end of the loop is the end of the run.
LEMMA EndIsReturn ==
  ASSUME OuterFacts, filter' = filter, Ends1
  PROVE  Promise!Return
<1>1. Len(Suites[1]) \in Nat /\ pos[1] \in Nat /\ pos[1] > Len(Suites[1])
  BY LevelFacts, RunnerAssumption DEF RunnerAssumption, OuterFacts, Ends1
<1>2. FirstLeft = pos[1] /\ FirstLeft' = FirstLeft
  BY DEF Ends1, FirstLeft
<1>3. TestsAfter(1) = {} /\ TestsAfter(1)' = TestsAfter(1)
  <2>1. TestsAfter(1)' = TestsAfter(1)
    BY <1>2, SamePending
  <2>2. pos[1]..Len(Suites[1]) = {}
    BY <1>1
  <2> QED
    BY <2>1, <2>2 DEF TestsAfter, Ends1
<1>4. ~InTest(1) /\ ~InTest(1)'
  BY DEF Ends1, InTest, InTestLabels, PluginLabels
<1>5. ShownCounts' = ShownCounts
  BY <1>4 DEF ShownCounts, Ends1
<1>6. rep[1].failed - One(InTest(1) /\ rep[1].test_failed) = rep[1].failed
  BY <1>4 DEF OuterFacts, Results, One
<1>7. ShownCounts.failed = rep[1].failed
  BY <1>6 DEF ShownCounts
<1>8. ShownResult = "running"
      /\ ShownResult' = IF rep[1].failed = 0 THEN "success" ELSE "failure"
  BY DEF ShownResult, Ends1, ReturnValue
<1> QED
  BY <1>3, <1>5, <1>7, <1>8 DEF Promise!Return, ShownCounts, ShownResult

\* The report of the end of a test is its verdict.
LEMMA ReportIsFinish ==
  ASSUME OuterFacts, filter' = filter, Reports1
  PROVE  Promise!Finish
<1> DEFINE M(i) == test_matches_filter(filter[1], Suites[1][i])
           n == Len(Suites[1])
<1>0. n \in Nat
  BY LevelFacts, RunnerAssumption DEF RunnerAssumption
<1>1. PICK p \in Nat : p = pos[1]
  BY DEF OuterFacts
<1>2. InTest(1) /\ ~InTest(1)'
  BY DEF Reports1, InTest, InTestLabels, PluginLabels
<1>3. p <= n /\ M(p)
  BY <1>1, <1>2 DEF OuterFacts, SelectedInv, InTest, the_test
<1>4. TestsAfter(1) = {i \in p..n : M(i)} /\ TestsAfter(1)' = {i \in p + 1..n : M(i)}
  BY <1>1 DEF TestsAfter, Reports1, test_matches_filter
<1> HIDE DEF M, n
<1>5. /\ p \in TestsAfter(1)
      /\ \A j \in TestsAfter(1) : p <= j
      /\ TestsAfter(1)' = TestsAfter(1) \ {p}
  <2>1. p \in TestsAfter(1) /\ \A j \in TestsAfter(1) : p <= j
    BY <1>0, <1>3, <1>4
  <2>2. \A i : i \in p + 1..n <=> i \in p..n /\ i # p
    BY <1>0
  <2> QED
    BY <1>4, <2>1, <2>2
<1>6. PICK r \in Results : r = rep[1]
  BY DEF OuterFacts
<1>7. /\ r.passed \in Nat /\ r.failed \in Nat /\ r.ignored \in Nat
      /\ r.test_failed \in BOOLEAN /\ r.test_ignored \in BOOLEAN
  BY DEF Results
<1>8. /\ r.test_ignored <=> the_test(1) \in Ignored
      /\ ~(r.test_failed /\ r.test_ignored)
  BY <1>2, <1>6, <1>7 DEF OuterFacts, FlagsOf, WasIgnored, Reports1
<1>9. /\ rep'[1].passed = IF r.test_failed \/ r.test_ignored THEN r.passed ELSE r.passed + 1
      /\ rep'[1].failed = r.failed /\ rep'[1].ignored = r.ignored
  BY <1>6, CounterFacts DEF Reports1
<1>10. /\ ShownCounts = [passed |-> r.passed, failed |-> r.failed - One(r.test_failed),
                         ignored |-> r.ignored - One(r.test_ignored)]
       /\ ShownCounts' = [passed |-> IF r.test_failed \/ r.test_ignored THEN r.passed
                                     ELSE r.passed + 1,
                          failed |-> r.failed, ignored |-> r.ignored]
  BY <1>2, <1>6, <1>7, <1>9 DEF ShownCounts, One
<1>11. \E v \in Promise!Verdicts(Suites[1][p]) :
         ShownCounts' = [ShownCounts EXCEPT ![v] = ShownCounts[v] + 1]
  <2>0. the_test(1) = Suites[1][p]
    BY <1>1 DEF the_test
  <2>1. CASE r.test_ignored
    <3>1. "ignored" \in Promise!Verdicts(Suites[1][p]) /\ ~r.test_failed
      BY <1>8, <2>0, <2>1 DEF Promise!Verdicts
    <3>2. ShownCounts' = [ShownCounts EXCEPT !["ignored"] = ShownCounts["ignored"] + 1]
      BY <1>7, <1>10, <2>1, <3>1 DEF One
    <3> QED
      BY <3>1, <3>2, Zenon
  <2>2. CASE r.test_failed
    <3>1. "failed" \in Promise!Verdicts(Suites[1][p]) /\ ~r.test_ignored
      BY <1>8, <2>0, <2>2 DEF Promise!Verdicts
    <3>2. ShownCounts' = [ShownCounts EXCEPT !["failed"] = ShownCounts["failed"] + 1]
      BY <1>7, <1>10, <2>2, <3>1 DEF One
    <3> QED
      BY <3>1, <3>2, Zenon
  <2>3. CASE ~r.test_ignored /\ ~r.test_failed
    <3>1. "passed" \in Promise!Verdicts(Suites[1][p])
      BY <1>8, <2>0, <2>3 DEF Promise!Verdicts
    <3>2. ShownCounts' = [ShownCounts EXCEPT !["passed"] = ShownCounts["passed"] + 1]
      BY <1>7, <1>10, <2>3 DEF One
    <3> QED
      BY <3>1, <3>2, Zenon
  <2> QED
    BY <2>1, <2>2, <2>3
<1>12. ShownResult' = ShownResult
  BY DEF ShownResult, Reports1
<1> QED
  BY <1>5, <1>11, <1>12, Zenon DEF Promise!Finish, ShownCounts, ShownResult

\* A step of the runner is a step of the promise, or shows nothing.
LEMMA SimulationStep ==
  ASSUME FailuresAreCaught
  PROVE  ControlInv /\ CountInv /\ SelectedInv /\ [Next]_vars
           => [Promise!Next]_(Promise!vars)
<1> SUFFICES ASSUME ControlInv, CountInv, SelectedInv, [Next]_vars
             PROVE  [Promise!Next]_(Promise!vars)
  OBVIOUS
<1>1. OutermostStep /\ filter' = filter
  BY OutermostSteps
<1>2. OuterFacts
  <2>1. 1 \in Level
    BY LevelFacts
  <2>2. rep[1] \in Results /\ pos[1] \in Nat
    BY <2>1 DEF ControlInv, TypeOK
  <2>3. FlagsOf(1)
    BY <2>1 DEF CountInv, FlagsInv
  <2>4. InTest(1) => pos[1] <= Len(Suites[1])
    BY <2>1 DEF ControlInv, PosInv, InContext
  <2> QED
    BY <2>2, <2>3, <2>4 DEF OuterFacts
<1>3. CASE Ends1
  BY <1>1, <1>2, <1>3, EndIsReturn DEF Promise!Next
<1>4. CASE Reports1
  BY <1>1, <1>2, <1>4, ReportIsFinish DEF Promise!Next
<1>5. CASE ~Ends1 /\ ~Reports1
  <2>1. Quiet \/ Begins1 \/ Skips1 \/ Starts1 \/ Ignores1 \/ Fails1 \/ Pops1
    BY <1>1, <1>5 DEF OutermostStep
  <2> QED
    BY <1>1, <1>2, <2>1, HiddenSteps
<1> QED
  BY <1>3, <1>4, <1>5

\* Before main calls, every selected test is pending.
LEMMA SimulationInit == Init => Promise!Init /\ SelectedInv
<1> SUFFICES ASSUME Init PROVE Promise!Init /\ SelectedInv
  OBVIOUS
<1>1. /\ 1 \in Level /\ pc[1] = "idle" /\ pos[1] = 1 /\ rep[1] = RunStarted
      /\ filter[1] \in Filters
  BY LevelFacts DEF Init
<1>2. TestsAfter(1) = {i \in 1..Len(Suites[1]) : test_matches_filter(filter[1], Suites[1][i])}
  BY <1>1 DEF TestsAfter
<1>3. ShownCounts = [passed |-> 0, failed |-> 0, ignored |-> 0]
  BY <1>1 DEF ShownCounts, RunStarted, One, InTest, InTestLabels, PluginLabels
<1>4. ShownResult = "running"
  BY <1>1 DEF ShownResult
<1>5. SelectedInv
  BY <1>1 DEF SelectedInv, InTestLabels, PluginLabels
<1> QED
  BY <1>1, <1>2, <1>3, <1>4, <1>5 DEF Promise!Init, ShownCounts, ShownResult

(***************************************************************************)
(* The outermost run does what PFRunSpec says, in every step, whatever     *)
(* fails and whatever runs inside its tests: the safety part of            *)
(* KeepsPromise, for any suites, fixtures, filters and plugins.            *)
(***************************************************************************)
THEOREM RunnerKeepsPromise ==
  ASSUME FailuresAreCaught
  PROVE  Spec => Promise!Safe
<1>1. ControlInv /\ SelectedInv /\ [Next]_vars => SelectedInv'
  BY OutermostSteps, SelectedStep
<1> QED
  BY <1>1, SimulationInit, SimulationStep, CountInvHolds, PTL DEF Spec, Promise!Safe

-----------------------------------------------------------------------------
(* The mocks in nested tests *)

MockAt(d, first, last) == \E i \in first..last : Plugins[d][i] = MockPlugin

\* The setup callback of the mocks has run at level d, their teardown has not.
IsUp(d) ==
  \/ pc[d] = "plugin_setup" /\ MockAt(d, 1, plug[d] - 1)
  \/ pc[d] \in BodyLabels \cup {"arm_teardown", "teardown"}
       /\ MockAt(d, 1, Len(Plugins[d]))
  \/ pc[d] = "plugin_teardown" /\ MockAt(d, plug[d], Len(Plugins[d]))

\* Before the callbacks are through, the loop is inside the list or at its end.
PlugInv == \A d \in Level : pc[d] = "plugin_setup" => plug[d] <= Len(Plugins[d]) + 1

(***************************************************************************)
(* The levels whose mocks are set up are those of the environments, in the *)
(* order of the stack.                                                     *)
(***************************************************************************)
MockEnvInv ==
  /\ mock_env \in Seq([frame : Nat, objects : SUBSET Nat])
  /\ \A i \in 1..Len(mock_env) :
       /\ mock_env[i].frame \in Level
       /\ IsUp(mock_env[i].frame)
       /\ mock_env[i].objects \subseteq {mock_env[i].frame}
  /\ \A i, j \in 1..Len(mock_env) : i < j => mock_env[i].frame < mock_env[j].frame
  /\ \A d \in Level : IsUp(d) => \E i \in 1..Len(mock_env) : mock_env[i].frame = d

MockInv == PlugInv /\ MockEnvInv

-----------------------------------------------------------------------------
\* Only checks fail beside code of the user, so that every failure is caught.
LEMMA MockFailuresAreCaught == MocksAreSetUp => FailuresAreCaught
BY DEF MocksAreSetUp, FailuresAreCaught

\* The steps of the composed system are steps of the runner or none.
LEMMA MockStepsRun == [MockNext]_mockVars => [Next]_vars
<1> SUFFICES ASSUME [MockNext]_mockVars PROVE [Next]_vars
  OBVIOUS
<1>1. ASSUME NEW d \in Level, mock_setup(d) PROVE Next
  BY <1>1, Zenon DEF mock_setup, Next, PluginLabels
<1>2. ASSUME NEW d \in Level, mock_teardown(d) PROVE Next
  BY <1>2, Zenon DEF mock_teardown, Next, PluginLabels
<1>3. ASSUME NEW d \in Level, use_mocks(d) PROVE UNCHANGED vars
  BY <1>3 DEF use_mocks
<1>4. CASE OtherStep
  BY <1>4 DEF OtherStep
<1>5. CASE UNCHANGED mockVars
  BY <1>5, Zenon DEF mockVars
<1> QED
  BY <1>1, <1>2, <1>3, <1>4, <1>5, Zenon DEF MockNext

\* The composed system keeps the runner's invariant.
LEMMA MockControl ==
  ASSUME MocksAreSetUp
  PROVE  MockSpec => []ControlInv
<1>1. MockInit => Init
  BY DEF MockInit
<1>2. MockSpec => Spec
  BY <1>1, MockStepsRun, PTL DEF MockSpec, Spec
<1> QED
  BY <1>2, MockFailuresAreCaught, ControlInvHolds, PTL

-----------------------------------------------------------------------------
\* No level outside the running ones has mocks set up.
LEMMA UpLevelsRun ==
  ASSUME ControlInv, NEW d \in Level, IsUp(d)
  PROVE  /\ d <= depth /\ depth \in Level
         /\ InContext(d) /\ pc[d] # "loop"
         /\ d = depth => frames = d /\ Len(env) = d /\ env[d] = [level |-> d, frame |-> d]
<1>1. pc[d] \in PluginLabels \cup BodyLabels \cup {"arm_teardown", "teardown"}
  BY DEF IsUp, PluginLabels
<1>2. InContext(d) /\ pc[d] \notin {"idle", "done", "loop"}
  BY <1>1 DEF InContext, InTest, InTestLabels, BodyLabels, PluginLabels
<1>3. depth \in 0..MaxDepth /\ d \in Nat \ {0}
  BY LevelFacts DEF ControlInv, TypeOK, Level
<1>4. d <= depth
  BY <1>2, <1>3 DEF ControlInv, LevelsInv
<1>5. depth \in Level
  BY <1>3, <1>4, LevelFacts
<1>6. d = depth => frames = d /\ Len(env) = d
  BY <1>2, <1>3 DEF ControlInv, EnvInv
<1> QED
  BY <1>2, <1>3, <1>4, <1>5, <1>6 DEF ControlInv, EnvInv

-----------------------------------------------------------------------------
\* A plugin is in its list once.
LEMMA MockOnce ==
  ASSUME NEW d \in Level, NEW i \in 1..Len(Plugins[d]), NEW j \in 1..Len(Plugins[d]),
         Plugins[d][i] = MockPlugin, Plugins[d][j] = MockPlugin
  PROVE  i = j
BY RunnerAssumption DEF RunnerAssumption

\* What IsUp depends on.
LEMMA SameUp ==
  ASSUME NEW k \in Level, pc'[k] = pc[k], plug'[k] = plug[k]
  PROVE  IsUp(k)' <=> IsUp(k)
BY DEF IsUp, MockAt

\* Moving on in the body of a test sets up no mocks and tears none down.
LEMMA SameUpNested ==
  ASSUME NEW k \in Level, pc[k] \in BodyLabels, pc'[k] \in BodyLabels \cup {"arm_teardown"}
  PROVE  IsUp(k)' <=> IsUp(k)
BY DEF IsUp, MockAt, BodyLabels

\* Labels at which no mocks are set up.
Outside == {"idle", "loop", "done", "complete", "pop_env", "pop_frame"}

\* Nor does a step outside of the tests.
LEMMA SameUpOutside ==
  ASSUME NEW k \in Level, pc[k] \in Outside, pc'[k] \in Outside
  PROVE  IsUp(k)' <=> IsUp(k)
BY DEF IsUp, BodyLabels, Outside

\* A callback of another plugin, and the end of a loop over the plugins.
LEMMA CallKeepsUp ==
  ASSUME ControlInv, PlugInv, NEW d \in Level, NEW label \in PluginLabels,
         CallPlugin(d, label), label = "plugin_checks" \/ plugin(d) # MockPlugin
  PROVE  \A k \in Level : IsUp(k)' <=> IsUp(k)
<1>1. pc' = pc /\ plug' = [plug EXCEPT ![d] = plug[d] + 1] /\ pc[d] = label
  BY DEF CallPlugin, Running
<1>2. plug \in [Level -> Nat \ {0}] /\ plug[d] \in Nat /\ plug[d] >= 1
      /\ plug[d] <= Len(Plugins[d]) /\ Len(Plugins[d]) \in Nat
  BY PlugFacts DEF ControlInv, TypeOK, CallPlugin, PluginsLeft
<1>3. ASSUME NEW k \in Level PROVE IsUp(k)' <=> IsUp(k)
  <2>1. CASE k # d
    BY <1>1, <1>2, <2>1, SameUp
  <2>2. CASE k = d
    <3>1. plug'[d] = plug[d] + 1 /\ pc'[d] = label
      BY <1>1, <1>2
    <3>2. CASE label = "plugin_checks"
      BY <1>1, <2>2, <3>1, <3>2 DEF IsUp, BodyLabels, MockAt
    <3>3. CASE label = "plugin_setup" /\ Plugins[d][plug[d]] # MockPlugin
      <4>1. MockAt(d, 1, plug[d]) <=> MockAt(d, 1, plug[d] - 1)
        BY <1>2, <3>3 DEF MockAt
      <4>2. (plug[d] + 1) - 1 = plug[d]
        BY <1>2
      <4>3. IsUp(d) <=> MockAt(d, 1, plug[d] - 1)
        BY <1>1, <3>3 DEF IsUp, BodyLabels
      <4>4. IsUp(d)' <=> MockAt(d, 1, plug[d])
        BY <3>1, <3>3, <4>2 DEF IsUp, BodyLabels, MockAt
      <4> QED
        BY <2>2, <4>1, <4>3, <4>4
    <3>4. CASE label = "plugin_teardown" /\ Plugins[d][plug[d]] # MockPlugin
      <4>1. MockAt(d, plug[d] + 1, Len(Plugins[d])) <=> MockAt(d, plug[d], Len(Plugins[d]))
        BY <1>2, <3>4 DEF MockAt
      <4>2. IsUp(d) <=> MockAt(d, plug[d], Len(Plugins[d]))
        BY <1>1, <3>4 DEF IsUp, BodyLabels
      <4>3. IsUp(d)' <=> MockAt(d, plug[d] + 1, Len(Plugins[d]))
        BY <3>1, <3>4 DEF IsUp, BodyLabels, MockAt
      <4> QED
        BY <2>2, <4>1, <4>2, <4>3
    <3> QED
      BY <3>2, <3>3, <3>4 DEF plugin, PluginLabels
  <2> QED
    BY <2>1, <2>2
<1> QED
  BY <1>3

\* Every other step of the runner leaves the mocks as they are at each level.
LEMMA OthersKeepUp ==
  ASSUME MocksAreSetUp, ControlInv, PlugInv, OtherStep
  PROVE  \A k \in Level : IsUp(k)' <=> IsUp(k)
<1> USE LevelFacts DEF ControlInv, TypeOK, Running, Goto, GotoPlugins
<1> DEFINE Goal == \A k \in Level : IsUp(k)' <=> IsUp(k)
<1>1. CASE MainRun
  BY <1>1, SameUp, SameUpOutside DEF MainRun, EnterRun, Outside
<1>2. ASSUME NEW d \in Level, NestedRun(d) PROVE Goal
  <2>1. d + 1 \in Level /\ d + 1 # d /\ pc[d] = "test"
        /\ pc' = [pc EXCEPT ![d] = "nested", ![d + 1] = "loop"]
        /\ plug' = plug /\ pc[d + 1] \in {"idle", "done"}
    BY <1>2 DEF NestedRun, EnterRun, LevelsInv
  <2>2. IsUp(d)' <=> IsUp(d)
    BY <2>1, SameUpNested DEF BodyLabels
  <2>3. IsUp(d + 1)' <=> IsUp(d + 1)
    BY <2>1, SameUpOutside DEF Outside
  <2>4. \A k \in Level : k # d /\ k # d + 1 => (IsUp(k)' <=> IsUp(k))
    BY <2>1, SameUp
  <2> QED
    BY <2>2, <2>3, <2>4
<1>3. ASSUME NEW d \in Level, SkipTest(d) PROVE Goal
  BY <1>3, SameUp DEF SkipTest
<1>4. ASSUME NEW d \in Level, StartTest(d) PROVE Goal
  <2>1. ~IsUp(d)
    BY <1>4 DEF StartTest, IsUp, BodyLabels
  <2>2. pc'[d] = "plugin_setup" /\ plug'[d] = 1
    BY <1>4 DEF StartTest
  <2>3. ~IsUp(d)'
    BY <2>2 DEF IsUp, MockAt, BodyLabels
  <2>4. \A k \in Level : k # d => (IsUp(k)' <=> IsUp(k))
    BY <1>4, SameUp DEF StartTest
  <2> QED
    BY <2>1, <2>3, <2>4
<1>5. ASSUME NEW d \in Level, RunComplete(d) PROVE Goal
  <2>1. pc[d] = "loop" /\ pc'[d] = "done" /\ plug' = plug
    BY <1>5 DEF RunComplete
  <2>2. IsUp(d)' <=> IsUp(d)
    BY <2>1, SameUpOutside DEF Outside
  <2>3. CASE d = 1
    BY <1>5, <2>1, <2>2, <2>3, SameUp DEF RunComplete
  <2>4. CASE d # 1
    <3>1. d - 1 \in Level /\ d - 1 # d /\ pc[d - 1] = "nested" /\ pc'[d - 1] = "resumed"
      BY <1>5, <2>4 DEF RunComplete, LevelsInv
    <3>2. IsUp(d - 1)' <=> IsUp(d - 1)
      BY <3>1, SameUpNested DEF BodyLabels
    <3>3. \A k \in Level : k # d /\ k # d - 1 => (IsUp(k)' <=> IsUp(k))
      BY <1>5, <2>1, <2>4, <3>1, SameUp DEF RunComplete
    <3> QED
      BY <2>2, <3>2, <3>3
  <2> QED
    BY <2>3, <2>4
<1>6. ASSUME NEW d \in Level, NEW label \in PluginLabels, CallPlugin(d, label) PROVE Goal
  <2>1. label = "plugin_checks" \/ plugin(d) # MockPlugin
    BY <1>6 DEF CallPlugin, OtherStep, PluginLabels
  <2> QED
    BY <1>6, <2>1, CallKeepsUp
<1>7. ASSUME NEW d \in Level, IgnoreTest(d) PROVE Goal
  <2>0. /\ pc[d] = "plugin_setup" /\ pc'[d] = "plugin_teardown" /\ plug'[d] = 1
        /\ ~(plug[d] <= Len(Plugins[d]))
    BY <1>7 DEF IgnoreTest, PluginsLeft
  <2>1. plug[d] = Len(Plugins[d]) + 1 /\ Len(Plugins[d]) \in Nat
    <3>1. plug[d] \in Nat /\ Len(Plugins[d]) \in Nat
      BY PlugFacts
    <3>2. plug[d] <= Len(Plugins[d]) + 1
      BY <2>0 DEF PlugInv
    <3> QED
      BY <2>0, <3>1, <3>2
  <2>2. IsUp(d)' <=> IsUp(d)
    BY <2>0, <2>1 DEF IsUp, MockAt, BodyLabels
  <2>3. \A k \in Level : k # d => (IsUp(k)' <=> IsUp(k))
    BY <1>7, SameUp DEF IgnoreTest
  <2> QED
    BY <2>2, <2>3
<1>8. ASSUME NEW d \in Level, ArmBody(d) PROVE Goal
  <2>0. pc[d] = "plugin_setup" /\ pc'[d] = "setup" /\ ~(plug[d] <= Len(Plugins[d]))
    BY <1>8 DEF ArmBody, PluginsLeft
  <2>1. plug[d] = Len(Plugins[d]) + 1 /\ Len(Plugins[d]) \in Nat
    <3>1. plug[d] \in Nat /\ Len(Plugins[d]) \in Nat
      BY PlugFacts
    <3>2. plug[d] <= Len(Plugins[d]) + 1
      BY <2>0 DEF PlugInv
    <3> QED
      BY <2>0, <3>1, <3>2
  <2>2. IsUp(d)' <=> IsUp(d)
    BY <2>0, <2>1 DEF IsUp, MockAt, BodyLabels
  <2>3. \A k \in Level : k # d => (IsUp(k)' <=> IsUp(k))
    BY <1>8, SameUp DEF ArmBody
  <2> QED
    BY <2>2, <2>3
<1>9. ASSUME NEW d \in Level, FixtureSetup(d) PROVE Goal
  BY <1>9, SameUp, SameUpNested DEF FixtureSetup, BodyLabels
<1>10. ASSUME NEW d \in Level, TestFunction(d) PROVE Goal
  <2>1. pc[d] \in {"test", "resumed"} /\ pc'[d] = "plugin_checks"
        /\ \A k \in Level : k # d => pc'[k] = pc[k] /\ plug'[k] = plug[k]
    BY <1>10 DEF TestFunction
  <2>2. IsUp(d)' <=> IsUp(d)
    BY <2>1, SameUpNested DEF BodyLabels
  <2> QED
    BY <2>1, <2>2, SameUp
<1>11. ASSUME NEW d \in Level, ChecksDone(d) PROVE Goal
  BY <1>11, SameUp, SameUpNested DEF ChecksDone, BodyLabels
<1>12. ASSUME NEW d \in Level, ArmTeardown(d) PROVE Goal
  <2>1. pc[d] = "arm_teardown" /\ pc'[d] = "teardown"
        /\ \A k \in Level : k # d => pc'[k] = pc[k] /\ plug'[k] = plug[k]
    BY <1>12 DEF ArmTeardown
  <2>2. IsUp(d)' <=> IsUp(d)
    BY <2>1 DEF IsUp, MockAt
  <2> QED
    BY <2>1, <2>2, SameUp
<1>13. ASSUME NEW d \in Level, FixtureTeardown(d) PROVE Goal
  <2>1. pc[d] = "teardown" /\ pc'[d] = "plugin_teardown" /\ plug'[d] = 1
        /\ \A k \in Level : k # d => pc'[k] = pc[k] /\ plug'[k] = plug[k]
    BY <1>13 DEF FixtureTeardown
  <2>2. IsUp(d)' <=> IsUp(d)
    BY <2>1 DEF IsUp, MockAt, BodyLabels
  <2> QED
    BY <2>1, <2>2, SameUp
<1>14. ASSUME NEW d \in Level, TeardownDone(d) PROVE Goal
  <2>1. pc[d] = "plugin_teardown" /\ pc'[d] = "complete" /\ ~(plug[d] <= Len(Plugins[d]))
        /\ \A k \in Level : k # d => pc'[k] = pc[k] /\ plug'[k] = plug[k]
    BY <1>14 DEF TeardownDone, PluginsLeft
  <2>2. ~IsUp(d)
    <3>1. plug[d] \in Nat /\ Len(Plugins[d]) \in Nat
      BY PlugFacts
    <3> QED
      BY <2>1, <3>1 DEF IsUp, MockAt, BodyLabels
  <2>3. ~IsUp(d)'
    BY <2>1 DEF IsUp, BodyLabels
  <2> QED
    BY <2>1, <2>2, <2>3, SameUp
<1>15. ASSUME NEW d \in Level, ReportComplete(d) PROVE Goal
  BY <1>15, SameUp, SameUpOutside DEF ReportComplete, Outside
<1>16. ASSUME NEW d \in Level, PopEnv(d) PROVE Goal
  BY <1>16, SameUp, SameUpOutside DEF PopEnv, Outside
<1>17. ASSUME NEW d \in Level, PopFrame(d) PROVE Goal
  BY <1>17, SameUp, SameUpOutside DEF PopFrame, Outside
<1>18. CASE Fail
  <2>0. PICK d \in Level : d = depth
    BY <1>18, FailFacts, MockFailuresAreCaught DEF Fail
  <2>1. top = d /\ MayFail(d)
        /\ \/ /\ pc[d] \in {"setup", "test", "resumed", "plugin_checks"}
              /\ jmp[d] = "arm_teardown"
           \/ /\ pc[d] \in {"teardown", "plugin_teardown"}
              /\ jmp[d] = "plugin_teardown"
    BY <1>18, <2>0, FailFacts, MockFailuresAreCaught DEF Fail
  <2>2. pc[d] # "plugin_teardown"
    BY <2>1 DEF MocksAreSetUp, MayFail
  <2>3. pc'[d] = jmp[d] /\ plug'[d] = 1
        /\ \A k \in Level : k # d =>
             IF k > d THEN pc'[k] = "idle" ELSE pc'[k] = pc[k] /\ plug'[k] = plug[k]
    BY <1>18, <2>1 DEF Fail, LongJmp
  <2>4. IsUp(d)' <=> IsUp(d)
    <3>1. CASE pc[d] \in {"setup", "test", "resumed", "plugin_checks"}
      <4>1. pc'[d] = "arm_teardown"
        BY <2>1, <2>3, <3>1
      <4> QED
        BY <2>1, <3>1, <4>1, SameUpNested DEF BodyLabels
    <3>2. CASE pc[d] = "teardown"
      <4>1. pc'[d] = "plugin_teardown"
        BY <2>1, <2>3, <3>2
      <4> QED
        BY <2>1, <2>3, <3>2, <4>1 DEF IsUp, MockAt, BodyLabels
    <3> QED
      BY <2>1, <2>2, <3>1, <3>2
  <2>5. ASSUME NEW k \in Level, k # d PROVE IsUp(k)' <=> IsUp(k)
    <3>1. CASE k > d
      <4>1. pc[k] \in {"idle", "done"}
        BY <2>0, <3>1 DEF LevelsInv
      <4> QED
        BY <2>3, <2>5, <3>1, <4>1, SameUpOutside DEF Outside
    <3>2. CASE ~(k > d)
      BY <2>3, <2>5, <3>2, SameUp
    <3> QED
      BY <3>1, <3>2
  <2> QED
    BY <2>1, <2>4, <2>5
<1>19. CASE UNCHANGED vars
  BY <1>19, SameUp DEF vars, ctrl
<1>20. [Next]_vars
  BY DEF OtherStep
<1> QED
  BY <1>1, <1>2, <1>3, <1>4, <1>5, <1>6, <1>7, <1>8, <1>9, <1>10, <1>11, <1>12, <1>13,
     <1>14, <1>15, <1>16, <1>17, <1>18, <1>19, <1>20, NextCases, Zenon

-----------------------------------------------------------------------------
\* The loops over the callbacks stay in their lists.
LEMMA PlugStep ==
  ASSUME MocksAreSetUp, ControlInv, PlugInv, [Next]_vars
  PROVE  PlugInv'
<1> USE LevelFacts DEF ControlInv, TypeOK, Running, Goto, GotoPlugins
<1> DEFINE Same == \A k \in Level : pc'[k] = "plugin_setup" =>
                     pc[k] = "plugin_setup" /\ plug'[k] = plug[k]
<1>1. Same => PlugInv'
  BY DEF PlugInv
<1>2. CASE MainRun
  BY <1>1, <1>2 DEF MainRun, EnterRun
<1>3. ASSUME NEW d \in Level, NestedRun(d) PROVE Same
  BY <1>3 DEF NestedRun, EnterRun
<1>4. ASSUME NEW d \in Level, SkipTest(d) PROVE Same
  BY <1>4 DEF SkipTest
<1>5. ASSUME NEW d \in Level, StartTest(d) PROVE PlugInv'
  <2>1. plug' = [plug EXCEPT ![d] = 1]
        /\ \A k \in Level : k # d => pc'[k] = pc[k]
    BY <1>5 DEF StartTest
  <2>2. \A k \in Level : Len(Plugins[k]) \in Nat
    BY PlugFacts
  <2> QED
    BY <2>1, <2>2 DEF PlugInv
<1>6. ASSUME NEW d \in Level, RunComplete(d) PROVE Same
  BY <1>6 DEF RunComplete
<1>7. ASSUME NEW d \in Level, NEW label \in PluginLabels, CallPlugin(d, label) PROVE PlugInv'
  <2>1. plug' = [plug EXCEPT ![d] = plug[d] + 1] /\ pc' = pc /\ plug[d] <= Len(Plugins[d])
    BY <1>7 DEF CallPlugin, PluginsLeft
  <2>2. \A k \in Level : Len(Plugins[k]) \in Nat
    BY PlugFacts
  <2> QED
    BY <2>1, <2>2 DEF PlugInv
<1>8. ASSUME NEW d \in Level, IgnoreTest(d) PROVE Same
  BY <1>8 DEF IgnoreTest
<1>9. ASSUME NEW d \in Level, ArmBody(d) PROVE Same
  BY <1>9 DEF ArmBody
<1>10. ASSUME NEW d \in Level, FixtureSetup(d) PROVE Same
  BY <1>10 DEF FixtureSetup
<1>11. ASSUME NEW d \in Level, TestFunction(d) PROVE Same
  BY <1>11 DEF TestFunction
<1>12. ASSUME NEW d \in Level, ChecksDone(d) PROVE Same
  BY <1>12 DEF ChecksDone
<1>13. ASSUME NEW d \in Level, ArmTeardown(d) PROVE Same
  BY <1>13 DEF ArmTeardown
<1>14. ASSUME NEW d \in Level, FixtureTeardown(d) PROVE Same
  BY <1>14 DEF FixtureTeardown
<1>15. ASSUME NEW d \in Level, TeardownDone(d) PROVE Same
  BY <1>15 DEF TeardownDone
<1>16. ASSUME NEW d \in Level, ReportComplete(d) PROVE Same
  BY <1>16 DEF ReportComplete
<1>17. ASSUME NEW d \in Level, PopEnv(d) PROVE Same
  BY <1>17 DEF PopEnv
<1>18. ASSUME NEW d \in Level, PopFrame(d) PROVE Same
  BY <1>18 DEF PopFrame
<1>19. CASE Fail
  <2>1. top = depth /\ jmp[depth] \in {"arm_teardown", "plugin_teardown"}
    BY <1>19, FailFacts, MockFailuresAreCaught DEF Fail
  <2>2. ASSUME NEW k \in Level
        PROVE  pc'[k] # "plugin_setup" \/ k < depth
    BY <1>19, <2>1, <2>2 DEF Fail, LongJmp
  <2>3. ASSUME NEW k \in Level, k < depth PROVE pc'[k] = "nested"
    BY <1>19, <2>1, <2>3 DEF Fail, LongJmp, LevelsInv
  <2> QED
    BY <1>1, <2>2, <2>3
<1>20. CASE UNCHANGED vars
  BY <1>1, <1>20 DEF vars, ctrl
<1> HIDE DEF Same
<1> QED
  BY <1>1, <1>2, <1>3, <1>4, <1>5, <1>6, <1>7, <1>8, <1>9, <1>10, <1>11, <1>12, <1>13,
     <1>14, <1>15, <1>16, <1>17, <1>18, <1>19, <1>20, NextCases, Zenon

-----------------------------------------------------------------------------
\* The last element of a sequence, and what stays without it.
LEMMA LastAndFront ==
  ASSUME NEW R, NEW s \in Seq(R), Len(s) >= 1
  PROVE  /\ Len(s) \in 1..Len(s) /\ s[Len(s)] \in R
         /\ Front(s) \in Seq(R) /\ Len(Front(s)) = Len(s) - 1
         /\ \A i \in 1..(Len(s) - 1) : Front(s)[i] = s[i]
<1>1. PICK n \in Nat : n = Len(s)
  OBVIOUS
<1>2. n \in 1..n /\ \A i \in 1..n : s[i] \in R
  BY <1>1
<1>3. \A i \in 1..(n - 1) : s[i] \in R
  BY <1>1, <1>2
<1>4. n - 1 \in Int /\ 1 \in Int
  BY <1>1
<1>5. /\ SubSeq(s, 1, n - 1) \in Seq(R)
      /\ Len(SubSeq(s, 1, n - 1)) = IF 1 <= n - 1 THEN n - 1 - 1 + 1 ELSE 0
      /\ \A i \in 1..(n - 1 - 1 + 1) : SubSeq(s, 1, n - 1)[i] = s[1 + i - 1]
  BY ONLY <1>3, <1>4, SubSeqProperties
<1>6. (IF 1 <= n - 1 THEN n - 1 - 1 + 1 ELSE 0) = n - 1 /\ n - 1 - 1 + 1 = n - 1
      /\ \A i \in 1..(n - 1) : 1 + i - 1 = i
  BY <1>1
<1>7. \A i \in 1..(n - 1) : SubSeq(s, 1, n - 1)[i] = s[i]
  BY <1>5, <1>6, Zenon
<1> QED
  BY <1>1, <1>2, <1>5, <1>6, <1>7, Zenon DEF Front

\* The environment of the innermost level with mocks is the last one.
LEMMA LastIsInnermost ==
  ASSUME ControlInv, MockEnvInv, depth \in Level, IsUp(depth)
  PROVE  /\ Len(mock_env) >= 1 /\ Len(mock_env) \in Nat
         /\ mock_env[Len(mock_env)].frame = depth
         /\ \A i \in 1..(Len(mock_env) - 1) : mock_env[i].frame # depth
<1> DEFINE n == Len(mock_env)
<1>1. n \in Nat
  BY DEF MockEnvInv
<1>2. PICK i \in 1..n : mock_env[i].frame = depth
  BY DEF MockEnvInv
<1>3. \A k \in 1..n : mock_env[k].frame \in Nat /\ mock_env[k].frame <= depth /\ depth \in Nat
  BY UpLevelsRun, LevelFacts DEF MockEnvInv
<1>4. \A k, l \in 1..n : k < l => mock_env[k].frame < mock_env[l].frame
  BY DEF MockEnvInv
<1> HIDE DEF n
<1>5. n \in 1..n /\ n >= 1
  BY <1>1, <1>2
<1>6. i = n
  <2>1. ASSUME i < n PROVE FALSE
    BY <1>2, <1>3, <1>4, <1>5, <2>1
  <2> QED
    BY <1>1, <1>2, <2>1
<1>7. \A k \in 1..(n - 1) : k \in 1..n /\ k < n
  BY <1>1
<1>8. \A k \in 1..(n - 1) : mock_env[k].frame # depth
  BY <1>2, <1>3, <1>4, <1>5, <1>6, <1>7
<1> QED
  BY <1>1, <1>2, <1>5, <1>6, <1>8 DEF n

\* The setup callback of the mocks.
LEMMA SetupKeepsMockInv ==
  ASSUME ControlInv, PlugInv, MockEnvInv, NEW d \in Level, mock_setup(d)
  PROVE  MockEnvInv'
<1> DEFINE n == Len(mock_env)
           new == [frame |-> frames, objects |-> {}]
           Record == [frame : Nat, objects : SUBSET Nat]
<1>1. depth = d /\ pc[d] = "plugin_setup" /\ pc' = pc /\ plug[d] <= Len(Plugins[d])
      /\ plug' = [plug EXCEPT ![d] = plug[d] + 1] /\ Plugins[d][plug[d]] = MockPlugin
      /\ mock_env' = Append(mock_env, new)
  BY DEF mock_setup, CallPlugin, Running, PluginsLeft, plugin
<1>2. plug \in [Level -> Nat \ {0}] /\ plug[d] \in Nat /\ plug[d] >= 1
      /\ Len(Plugins[d]) \in Nat
  BY PlugFacts DEF ControlInv, TypeOK
<1>3. frames = d /\ d \in Nat
  <2>1. InContext(d) /\ pc[d] # "loop"
    BY <1>1 DEF InContext, InTest, InTestLabels, PluginLabels
  <2> QED
    BY <1>1, <2>1, LevelFacts DEF ControlInv, EnvInv
<1>4. ~IsUp(d)
  <2>1. ASSUME NEW i \in 1..(plug[d] - 1), Plugins[d][i] = MockPlugin PROVE FALSE
    <3>1. i \in 1..Len(Plugins[d]) /\ plug[d] \in 1..Len(Plugins[d]) /\ i # plug[d]
      BY <1>1, <1>2
    <3> QED
      BY <1>1, <2>1, <3>1, MockOnce
  <2> QED
    BY <1>1, <2>1 DEF IsUp, BodyLabels, MockAt
<1>5. IsUp(d)'
  <2>1. pc'[d] = "plugin_setup" /\ plug'[d] = plug[d] + 1 /\ plug[d] \in 1..(plug'[d] - 1)
    BY <1>1, <1>2
  <2> QED
    BY <1>1, <2>1 DEF IsUp, MockAt
<1>6. \A k \in Level : k # d => (IsUp(k)' <=> IsUp(k))
  BY <1>1, SameUp
<1>7. n \in Nat /\ mock_env \in Seq(Record)
  BY DEF MockEnvInv
<1>8. new \in Record /\ new.frame = d /\ new.objects = {}
  BY <1>3
<1>9. \A i \in 1..n : /\ mock_env[i].frame \in Level /\ mock_env[i].frame # d
                      /\ mock_env[i].frame < d /\ mock_env[i].frame \in Nat
                      /\ IsUp(mock_env[i].frame)
                      /\ mock_env[i].objects \subseteq {mock_env[i].frame}
  <2>1. ASSUME NEW i \in 1..n
        PROVE  mock_env[i].frame \in Level /\ IsUp(mock_env[i].frame)
               /\ mock_env[i].objects \subseteq {mock_env[i].frame}
    BY DEF MockEnvInv
  <2>2. ASSUME NEW k \in Level, IsUp(k) PROVE k < d /\ k # d /\ k \in Nat
    <3>1. k # d
      BY <1>4, <2>2, Zenon
    <3>2. k <= depth
      BY <2>2, UpLevelsRun
    <3> QED
      BY <1>1, <1>3, <3>1, <3>2, LevelFacts
  <2> QED
    BY <2>1, <2>2
<1>10. \A k, l \in 1..n : k < l => mock_env[k].frame < mock_env[l].frame
  BY DEF MockEnvInv
<1>11. \A k \in Level : IsUp(k) => \E i \in 1..n : mock_env[i].frame = k
  BY DEF MockEnvInv
<1> HIDE DEF new, Record
<1>12. mock_env' \in Seq(Record) /\ Len(mock_env') = n + 1 /\ mock_env'[n + 1] = new
       /\ \A i \in 1..n : mock_env'[i] = mock_env[i]
  BY <1>1, <1>7, <1>8
<1> HIDE DEF n
<1>13. n + 1 \in 1..(n + 1) /\ \A i \in 1..(n + 1) : i \in 1..n \/ i = n + 1
  BY <1>7
<1>14. ASSUME NEW i \in 1..(n + 1)
       PROVE  /\ mock_env'[i].frame \in Level
              /\ mock_env'[i].frame = d \/ (mock_env'[i].frame # d /\ IsUp(mock_env'[i].frame))
              /\ mock_env'[i].objects \subseteq {mock_env'[i].frame}
  BY <1>8, <1>9, <1>12, <1>13
<1>15. ASSUME NEW i \in 1..(n + 1) PROVE IsUp(mock_env[i].frame)'
  <2>1. PICK k \in Level : k = mock_env'[i].frame
    BY <1>14
  <2>2. IsUp(k)'
    BY <1>5, <1>6, <1>14, <2>1
  <2> QED
    BY <2>1, <2>2 DEF IsUp, MockAt
<1>16. ASSUME NEW k \in 1..(n + 1), NEW l \in 1..(n + 1), k < l
       PROVE  mock_env'[k].frame < mock_env'[l].frame
  <2>1. k \in 1..n
    BY <1>7, <1>16
  <2> QED
    BY <1>8, <1>9, <1>10, <1>12, <1>13, <1>16, <2>1
<1>17. ASSUME NEW k \in Level, IsUp(k)' PROVE \E i \in 1..(n + 1) : mock_env'[i].frame = k
  <2>1. CASE k = d
    BY <1>8, <1>12, <1>13, <2>1
  <2>2. CASE k # d
    <3>1. PICK i \in 1..n : mock_env[i].frame = k
      BY <1>6, <1>11, <1>17, <2>2
    <3>2. i \in 1..(n + 1)
      BY <1>7
    <3> QED
      BY <1>12, <3>1, <3>2
  <2> QED
    BY <2>1, <2>2
<1> QED
  BY <1>12, <1>14, <1>15, <1>16, <1>17 DEF MockEnvInv, Record

\* The teardown callback of the mocks.
LEMMA TeardownKeepsMockInv ==
  ASSUME ControlInv, PlugInv, MockEnvInv, NEW d \in Level, mock_teardown(d)
  PROVE  MockEnvInv'
<1> DEFINE n == Len(mock_env)
           m == n - 1
           Record == [frame : Nat, objects : SUBSET Nat]
<1>1. depth = d /\ pc[d] = "plugin_teardown" /\ pc' = pc /\ plug[d] <= Len(Plugins[d])
      /\ plug' = [plug EXCEPT ![d] = plug[d] + 1] /\ Plugins[d][plug[d]] = MockPlugin
      /\ mock_env' = Front(mock_env)
  BY DEF mock_teardown, CallPlugin, Running, PluginsLeft, plugin
<1>2. plug \in [Level -> Nat \ {0}] /\ plug[d] \in Nat /\ plug[d] >= 1
      /\ Len(Plugins[d]) \in Nat
  BY PlugFacts DEF ControlInv, TypeOK
<1>3. IsUp(d)
  BY <1>1, <1>2 DEF IsUp, MockAt
<1>4. ~IsUp(d)'
  <2>1. ASSUME NEW i \in (plug[d] + 1)..Len(Plugins[d]), Plugins[d][i] = MockPlugin PROVE FALSE
    <3>1. i \in 1..Len(Plugins[d]) /\ plug[d] \in 1..Len(Plugins[d]) /\ i # plug[d]
      BY <1>1, <1>2
    <3> QED
      BY <1>1, <2>1, <3>1, MockOnce
  <2>2. pc'[d] = "plugin_teardown" /\ plug'[d] = plug[d] + 1
    BY <1>1, <1>2
  <2> QED
    BY <2>1, <2>2 DEF IsUp, BodyLabels, MockAt
<1>5. \A k \in Level : k # d => (IsUp(k)' <=> IsUp(k))
  BY <1>1, SameUp
<1>6. n \in Nat /\ mock_env \in Seq(Record) /\ n >= 1 /\ mock_env[n].frame = d
      /\ \A i \in 1..m : mock_env[i].frame # d
  BY <1>1, <1>3, LastIsInnermost DEF MockEnvInv
<1>7. \A i \in 1..n : /\ mock_env[i].frame \in Level
                      /\ IsUp(mock_env[i].frame)
                      /\ mock_env[i].objects \subseteq {mock_env[i].frame}
  BY DEF MockEnvInv
<1>8. \A k, l \in 1..n : k < l => mock_env[k].frame < mock_env[l].frame
  BY DEF MockEnvInv
<1>9. \A k \in Level : IsUp(k) => \E i \in 1..n : mock_env[i].frame = k
  BY DEF MockEnvInv
<1> HIDE DEF Record
<1>10. mock_env' \in Seq(Record) /\ Len(mock_env') = m
       /\ \A i \in 1..m : mock_env'[i] = mock_env[i]
  BY <1>1, <1>6, LastAndFront
<1> HIDE DEF n
<1>11. \A i \in 1..m : i \in 1..n
  BY <1>6
<1>12. \A i \in 1..n : i \in 1..m \/ i = n
  BY <1>6
<1> HIDE DEF m
<1>13. \A i \in 1..m : /\ mock_env'[i].frame \in Level
                       /\ mock_env'[i].objects \subseteq {mock_env'[i].frame}
  BY <1>7, <1>10, <1>11
<1>14. ASSUME NEW i \in 1..m PROVE IsUp(mock_env[i].frame)'
  <2>1. PICK k \in Level : k = mock_env'[i].frame
    BY <1>13
  <2>2. k = mock_env[i].frame /\ k # d
    BY <1>6, <1>10, <2>1
  <2>3. IsUp(k)
    BY <1>7, <1>11, <2>2
  <2>4. IsUp(k)'
    BY <1>5, <2>2, <2>3
  <2> QED
    BY <2>1, <2>4 DEF IsUp, MockAt
<1>15. \A k, l \in 1..m : k < l => mock_env'[k].frame < mock_env'[l].frame
  BY <1>8, <1>10, <1>11
<1>16. ASSUME NEW k \in Level, IsUp(k)' PROVE \E i \in 1..m : mock_env'[i].frame = k
  <2>1. k # d
    BY <1>4, <1>16 DEF IsUp, MockAt
  <2>2. PICK i \in 1..n : mock_env[i].frame = k
    BY <1>5, <1>9, <1>16, <2>1
  <2>3. i \in 1..m
    BY <1>6, <1>12, <2>1, <2>2
  <2> QED
    BY <1>10, <2>2, <2>3
<1> QED
  BY <1>10, <1>13, <1>14, <1>15, <1>16 DEF MockEnvInv, Record

\* when, invoke and the verify functions.
LEMMA UseKeepsMockInv ==
  ASSUME MocksAreSetUp, ControlInv, PlugInv, MockEnvInv, NEW d \in Level, use_mocks(d)
  PROVE  MockEnvInv'
<1> DEFINE n == Len(mock_env)
           Record == [frame : Nat, objects : SUBSET Nat]
<1>1. depth = d /\ UNCHANGED vars
      /\ mock_env' = [mock_env EXCEPT ![n].objects = mock_env[n].objects \cup {frames}]
  BY DEF use_mocks, UserRuns
<1>2. pc[d] \in {"setup", "test", "resumed", "teardown"} /\ HasMocks(d)
  BY DEF use_mocks, UserRuns, MocksAreSetUp
<1>3. IsUp(d)
  BY <1>2 DEF IsUp, BodyLabels, MockAt, HasMocks
<1>4. frames = d /\ d \in Nat
  BY <1>1, <1>3, UpLevelsRun, LevelFacts
<1>5. n \in Nat /\ mock_env \in Seq(Record) /\ n >= 1 /\ mock_env[n].frame = d
  BY <1>1, <1>3, LastIsInnermost DEF MockEnvInv
<1>6. \A i \in 1..n : /\ mock_env[i].frame \in Level
                      /\ IsUp(mock_env[i].frame)
                      /\ mock_env[i].objects \subseteq {mock_env[i].frame}
  BY DEF MockEnvInv
<1> DEFINE new == [frame |-> d, objects |-> mock_env[n].objects \cup {frames}]
<1>7. n \in 1..n /\ mock_env[n] \in Record
  BY <1>5, LastAndFront
<1>8. \A r \in Record : [r EXCEPT !.objects = r.objects \cup {frames}]
                          = [frame |-> r.frame, objects |-> r.objects \cup {frames}]
  OBVIOUS
<1>9. new \in Record /\ new.frame = d /\ new.objects \subseteq {d}
  BY <1>4, <1>5, <1>6, <1>7
<1>10. mock_env' = [mock_env EXCEPT ![n] = new]
  <2>1. [mock_env[n] EXCEPT !.objects = mock_env[n].objects \cup {frames}] = new
    BY <1>5, <1>7, <1>8
  <2> HIDE DEF new, Record, n
  <2> QED
    BY <1>1, <2>1
<1> HIDE DEF new, Record
<1>11. mock_env' \in Seq(Record) /\ Len(mock_env') = n
       /\ \A i \in 1..n : mock_env'[i] = IF i = n THEN new ELSE mock_env[i]
  BY <1>5, <1>7, <1>9, <1>10
<1>12. \A i \in 1..n : mock_env'[i].frame = mock_env[i].frame
                       /\ mock_env'[i].objects \subseteq {mock_env[i].frame}
  BY <1>5, <1>6, <1>9, <1>11
<1>13. pc' = pc /\ plug' = plug
  BY <1>1, Zenon DEF vars, ctrl
<1>14. \A k \in Level : IsUp(k)' <=> IsUp(k)
  BY <1>13, SameUp
<1>15. ASSUME NEW i \in 1..n PROVE IsUp(mock_env[i].frame)'
  <2>1. PICK k \in Level : k = mock_env[i].frame
    BY <1>6
  <2>2. mock_env'[i].frame = k /\ IsUp(k)'
    BY <1>6, <1>12, <1>14, <2>1
  <2> QED
    BY <2>2 DEF IsUp, MockAt
<1>16. \A k, l \in 1..n : k < l => mock_env'[k].frame < mock_env'[l].frame
  BY <1>12 DEF MockEnvInv
<1>17. \A k \in Level : IsUp(k)' => \E i \in 1..n : mock_env'[i].frame = k
  BY <1>12, <1>14 DEF MockEnvInv
<1> QED
  BY <1>6, <1>11, <1>12, <1>15, <1>16, <1>17 DEF MockEnvInv, Record

\* Every other step.
LEMMA SameMockEnv ==
  ASSUME MockEnvInv, UNCHANGED mock_env, \A k \in Level : IsUp(k)' <=> IsUp(k)
  PROVE  MockEnvInv'
<1>1. ASSUME NEW i \in 1..Len(mock_env) PROVE IsUp(mock_env[i].frame)'
  <2>1. PICK k \in Level : k = mock_env[i].frame /\ IsUp(k)
    BY DEF MockEnvInv
  <2>2. mock_env'[i].frame = k /\ IsUp(k)'
    BY <2>1
  <2> QED
    BY <2>2 DEF IsUp, MockAt
<1> QED
  BY <1>1 DEF MockEnvInv

\* No environment is there before the first run.
LEMMA InitMockInv == MockInit => MockInv
<1> SUFFICES ASSUME MockInit PROVE MockInv
  OBVIOUS
<1>1. \A d \in Level : pc[d] = "idle"
  BY DEF MockInit, Init
<1>2. \A d \in Level : ~IsUp(d)
  BY <1>1 DEF IsUp, BodyLabels
<1> QED
  BY <1>1, <1>2 DEF MockInv, PlugInv, MockEnvInv, MockInit

\* Every step keeps the environments in step with the frames.
LEMMA NextMockInv ==
  ASSUME MocksAreSetUp
  PROVE  ControlInv /\ MockInv /\ [MockNext]_mockVars => MockInv'
<1> SUFFICES ASSUME ControlInv, MockInv, [MockNext]_mockVars PROVE MockInv'
  OBVIOUS
<1>1. PlugInv /\ MockEnvInv
  BY DEF MockInv
<1>2. PlugInv'
  BY <1>1, MockStepsRun, PlugStep
<1>3. ASSUME NEW d \in Level, mock_setup(d) PROVE MockEnvInv'
  BY <1>1, <1>3, SetupKeepsMockInv
<1>4. ASSUME NEW d \in Level, mock_teardown(d) PROVE MockEnvInv'
  BY <1>1, <1>4, TeardownKeepsMockInv
<1>5. ASSUME NEW d \in Level, use_mocks(d) PROVE MockEnvInv'
  BY <1>1, <1>5, UseKeepsMockInv
<1>6. ASSUME OtherStep PROVE MockEnvInv'
  <2>1. UNCHANGED mock_env
    BY <1>6 DEF OtherStep
  <2> QED
    BY <1>1, <1>6, <2>1, OthersKeepUp, SameMockEnv
<1>7. ASSUME UNCHANGED mockVars PROVE MockEnvInv'
  <2>1. UNCHANGED mock_env /\ pc' = pc /\ plug' = plug
    BY <1>7, Zenon DEF mockVars, vars, ctrl
  <2> QED
    BY <1>1, <2>1, SameUp, SameMockEnv
<1>8. MockEnvInv'
  BY <1>3, <1>4, <1>5, <1>6, <1>7, Zenon DEF MockNext
<1> QED
  BY <1>2, <1>8, Zenon DEF MockInv

(***************************************************************************)
(* The mock environments are those of the levels whose mocks are set up,   *)
(* innermost last, in every reachable state.                               *)
(***************************************************************************)
THEOREM MockInvHolds ==
  ASSUME MocksAreSetUp
  PROVE  MockSpec => [](ControlInv /\ MockInv)
<1>1. MockSpec => MockInit /\ [][MockNext]_mockVars
  BY PTL DEF MockSpec
<1> QED
  BY <1>1, MockControl, InitMockInv, NextMockInv, PTL

\* The environment a test finds is its own.
LEMMA MocksAreTheirs == ControlInv /\ MockInv => MocksStayInTheirTest
<1> SUFFICES ASSUME ControlInv, MockInv PROVE MocksStayInTheirTest
  OBVIOUS
<1>1. MockEnvInv /\ PlugInv
  BY DEF MockInv
<1>2. DOMAIN mock_env = 1..Len(mock_env) /\ Len(mock_env) \in Nat
  BY <1>1 DEF MockEnvInv
<1>3. depth \in 0..MaxDepth
  BY DEF ControlInv, TypeOK
<1>4. ASSUME NEW i \in 1..Len(mock_env)
      PROVE  /\ mock_env[i].frame <= frames
             /\ mock_env[i].objects \subseteq {mock_env[i].frame}
             /\ mock_env[i].frame <= depth /\ depth \in Level
             /\ IsUp(mock_env[i].frame) /\ mock_env[i].frame \in Level
  <2>1. PICK k \in Level : k = mock_env[i].frame /\ IsUp(k)
    BY <1>1 DEF MockEnvInv
  <2>2. k <= depth /\ depth \in Level /\ (k = depth => frames = k) /\ pc[k] # "loop"
    BY <2>1, UpLevelsRun
  <2>3. k <= frames
    BY <2>2, LevelFacts DEF ControlInv, EnvInv
  <2> QED
    BY <1>1, <2>1, <2>2, <2>3 DEF MockEnvInv
<1>5. ASSUME NEW d \in Level, UserRuns(d), HasMocks(d)
      PROVE  mock_env # << >> /\ Last(mock_env).frame = Last(env).frame
  <2>1. pc[d] \in BodyLabels \cup {"teardown"} /\ d = depth
    BY <1>5 DEF UserRuns, BodyLabels
  <2>2. IsUp(d)
    BY <1>5, <2>1 DEF IsUp, MockAt, HasMocks
  <2>3. Len(mock_env) >= 1 /\ mock_env[Len(mock_env)].frame = d
    BY <1>1, <2>1, <2>2, LastIsInnermost
  <2>4. Len(env) = d /\ env[d] = [level |-> d, frame |-> d]
    BY <2>1, <2>2, UpLevelsRun, Zenon
  <2> QED
    BY <2>3, <2>4 DEF Last
<1>6. ASSUME env = << >> PROVE mock_env = << >>
  <2>1. SUFFICES ASSUME Len(mock_env) # 0 PROVE FALSE
    BY <1>1 DEF MockEnvInv
  <2>2. 1 \in 1..Len(mock_env)
    BY <1>2, <2>1
  <2>3. PICK k \in Level : k = mock_env[1].frame /\ IsUp(k) /\ k <= depth
    BY <1>4, <2>2
  <2>4. depth \in Level /\ Len(env) = 0
    BY <1>4, <1>6, <2>2
  <2>5. depth = 1 /\ ~InContext(depth)
    BY <2>4, LevelFacts DEF ControlInv, EnvInv
  <2>6. k = depth
    BY <2>3, <2>5, LevelFacts
  <2> QED
    BY <2>3, <2>5, <2>6, UpLevelsRun
<1> QED
  BY <1>2, <1>4, <1>5, <1>6 DEF MocksStayInTheirTest

(***************************************************************************)
(* MocksStayInTheirTest: an environment never outlives its frame, never    *)
(* gets an object of another test, and is the one at hand whenever code of *)
(* its test runs.                                                          *)
(***************************************************************************)
THEOREM MocksAlwaysStay ==
  ASSUME MocksAreSetUp
  PROVE  MockSpec => []MocksStayInTheirTest
BY MocksAreTheirs, MockInvHolds, PTL
=============================================================================
