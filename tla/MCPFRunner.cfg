SPECIFICATION MockSpec
CONSTANTS
  MaxDepth = 2
  Test <- MCTest
  Plugin <- MCPlugin
  Suites <- MCSuites
  Plugins <- MCPlugins
  FileOf <- MCFileOf
  NameOf <- MCNameOf
  FilterFiles = {"fileA"}
  FilterNames = {"same"}
  NULL = NULL
  Ignored = {"a2"}
  SetupHook <- MCHookTests
  TeardownHook <- MCHookTests
  FailingCallbacks <- MCChecksFail
  MockPlugin = "mock"
  UsesMocks = {1, 2}
INVARIANTS TypeOK FailureStaysInRun ContextsAlive SummaryCounts PhasesRan MocksStayInTheirTest
PROPERTIES FailureSkipsToTeardown PluginCallsPaired RunEnds KeepsPromise
