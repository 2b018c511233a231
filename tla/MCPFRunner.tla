----------------------------- MODULE MCPFRunner -----------------------------
(***************************************************************************)
(* A suite of three tests in two files, two of them with the same name and *)
(* one ignored, whose tests may run a suite of two tests; two plugins      *)
(* outside, the first of them, that of the mocks, inside too.              *)
(***************************************************************************)
EXTENDS PFMockRuns

MCTest    == {"a1", "a2", "b1", "inner1", "inner2"}
MCPlugin  == {"mock", "spy"}
MCSuites  == << <<"a1", "a2", "b1">>, <<"inner1", "inner2">> >>
MCPlugins == << <<"mock", "spy">>, <<"mock">> >>
MCFileOf  == [t \in MCTest |-> IF t = "b1" THEN "fileB" ELSE "fileA"]
MCNameOf  == [t \in MCTest |-> IF t = "a2" THEN "other" ELSE "same"]

MCHookTests == {"a1", "inner2"}

\* The plugins' checks may fail.
MCChecksFail == MCPlugin \X {"plugin_checks"}

ASSUME MCMockPluginAssumption == MocksAreSetUp
=============================================================================
