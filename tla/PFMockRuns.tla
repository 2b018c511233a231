----------------------------- MODULE PFMockRuns -----------------------------
(***************************************************************************)
(* The runner and the mocks together: the mock plugin keeps a stack of     *)
(* environments of its own (dynamic_env of src/mock/pfstest-mock.c), which *)
(* its callbacks push and pop while run_test pushes and pops allocation    *)
(* frames and jumps on failures.  An environment is allocated in the frame *)
(* that is innermost at its setup; an expectation, an invocation or a      *)
(* verifier in the frame that is innermost when it is made, and is linked  *)
(* into a list of the innermost environment.                               *)
(***************************************************************************)
EXTENDS PFRunner, SequencesExt

CONSTANTS
  MockPlugin,  \* pfstest_mock_plugin
  UsesMocks    \* the levels whose tests and fixtures use mocks

ASSUME MockRunsAssumption ==
  /\ MockPlugin \in Plugin
  /\ UsesMocks \subseteq Level

HasMocks(d) == \E i \in 1..Len(Plugins[d]) : Plugins[d][i] = MockPlugin

(***************************************************************************)
(* What the mocks need of a run: without the plugin a test that uses mocks *)
(* finds the environment of the test around it, or none, and a plugin that *)
(* fails in its teardown callback makes that of the mocks run again, which *)
(* pops the environment of the test around it.                             *)
(***************************************************************************)
MocksAreSetUp ==
  /\ \A d \in UsesMocks : HasMocks(d)
  /\ \A c \in FailingCallbacks : c[2] = "plugin_checks"

VARIABLE mock_env  \* the environments, innermost last

mockVars == <<vars, mock_env>>

MockInit == Init /\ mock_env = << >>

\* Variant: the environment is not unlinked.
mock_teardown_keeps(d) ==
  /\ CallPlugin(d, "plugin_teardown")
  /\ plugin(d) = MockPlugin
  /\ UNCHANGED mock_env

mock_setup(d) ==
  /\ CallPlugin(d, "plugin_setup")
  /\ plugin(d) = MockPlugin
  /\ mock_env' = Append(mock_env, [frame |-> frames, objects |-> {}])

mock_teardown(d) ==
  /\ CallPlugin(d, "plugin_teardown")
  /\ plugin(d) = MockPlugin
  /\ mock_env' = Front(mock_env)

\* Every other step of the runner; run_verifiers allocates nothing.
OtherStep ==
  /\ Next
  /\ \A d \in Level :
       (Running(d, "plugin_setup") \/ Running(d, "plugin_teardown")) /\ PluginsLeft(d)
         => plugin(d) # MockPlugin
  /\ UNCHANGED mock_env

\* The test function or a function of its fixture runs.
UserRuns(d) ==
  /\ depth = d
  /\ \/ pc[d] = "setup" /\ the_test(d) \in SetupHook
     \/ pc[d] \in {"test", "resumed"}
     \/ pc[d] = "teardown" /\ the_test(d) \in TeardownHook

\* when, invoke or a verify function: an object of the innermost frame is
\* linked into the innermost environment.
use_mocks(d) ==
  /\ UserRuns(d)
  /\ d \in UsesMocks
  /\ mock_env' = [mock_env EXCEPT ![Len(mock_env)].objects = @ \cup {frames}]
  /\ UNCHANGED vars

MockNext ==
  \/ \E d \in Level : mock_setup(d) \/ mock_teardown(d) \/ use_mocks(d)
  \/ OtherStep

\* The user's functions make as many objects as they like, and then return.
MockSpec ==
  /\ MockInit
  /\ [][MockNext]_mockVars
  /\ WF_mockVars(OtherStep \/ \E d \in Level : mock_setup(d) \/ mock_teardown(d))

-----------------------------------------------------------------------------
(***************************************************************************)
(* The stack of mock environments keeps in step with the frames of the     *)
(* runner through failures, ignored tests and nested runs: an environment  *)
(* is popped before its frame is, holds objects of its own test only, and  *)
(* is the one at hand whenever code of a test whose run has the plugin is  *)
(* running; when no test runs none is left.                                *)
(***************************************************************************)
MocksStayInTheirTest ==
  /\ \A i \in DOMAIN mock_env :
       /\ mock_env[i].frame <= frames
       /\ mock_env[i].objects \subseteq {mock_env[i].frame}
  /\ \A d \in Level : UserRuns(d) /\ HasMocks(d) =>
       /\ mock_env # << >>
       /\ Last(mock_env).frame = Last(env).frame
  /\ env = << >> => mock_env = << >>
=============================================================================
