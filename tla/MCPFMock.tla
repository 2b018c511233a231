------------------------------ MODULE MCPFMock ------------------------------
(***************************************************************************)
(* Values of the constants of PFMock.                                      *)
(***************************************************************************)
EXTENDS PFMock

MCValue == {"v1", "v2"}

\* a matcher of one value, and a capture_arg
MCMatcher == [accepts |-> {"v1"}, acts |-> FALSE]
MCCapture == [accepts |-> MCValue, acts |-> TRUE]

MCStubHandlers == {MCMatcher, MCCapture}
MCTwoArgs  == [m \in Mock |-> 2]
MCNoArgs   == [m \in Mock |-> 0]
MCSizeOf   == [m \in Mock |-> 4]
=============================================================================
