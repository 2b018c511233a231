------------------------------- MODULE PFMock -------------------------------
(***************************************************************************)
(* src/mock: the expectations, invocations and verifiers of one test, from *)
(* pfstest_mock_setup to pfstest_mock_teardown.  The lists are sequences   *)
(* (PFList shows that the pointers implement them), an object is its index *)
(* in its list, and a call that no expectation takes is recorded for       *)
(* expectation 0, the default expectation of its mock.                     *)
(***************************************************************************)
EXTENDS Integers, Sequences, FiniteSets

CONSTANTS
  Mock, Value,
  ArgCount,        \* pfstest_mock_t.arg_count of a mock
  Handlers,        \* the argument handlers tests use
  Sizes,           \* sizes of the values given to do_return
  SizeOf,          \* size of the default return value of a mock
  Times, Wanted,   \* what tests pass to do_times, and to the verify modes
  Kinds,           \* the kinds of verifiers tests register
  NULL,
  MaxExpectations, MaxInvocations, MaxVerifiers, MaxOrder  \* (bounds)

\* accepts: the values whose test function is true; acts: the matched function
\* copies something (assign_arg, assign_arg_that, capture_arg).
Handler == [accepts : SUBSET Value, acts : BOOLEAN]

CountingModes == {"exactly", "at_most", "at_least"}

VerifierKinds ==
  CountingModes \cup {"in_order", "no_more_interactions", "no_more_invocations"}

ASSUME MockAssumption ==
  /\ ArgCount \in [Mock -> Nat]
  /\ Handlers \subseteq Handler
  /\ Sizes \subseteq Nat
  /\ SizeOf \in [Mock -> Nat]
  /\ Times \subseteq Int
  /\ Wanted \subseteq Nat
  /\ Kinds \subseteq VerifierKinds
  /\ NULL \notin Value

VARIABLES
  phase,         \* where the test is
  expectations, invocations, verifiers, orders,
  call,          \* the loops of pfstest_mock_invoke, while a call runs
  verifier,      \* the loop of run_verifiers, 0 when it never started
  past           \* history: what became of each expectation

objects == <<expectations, invocations, verifiers, orders>>
vars    == <<phase, objects, call, verifier, past>>

Infinite == -1

Args(m)        == [1..ArgCount[m] -> Value]
ArgHandlers(m) == [1..ArgCount[m] -> Handlers]

\* e and i are the loop variables of pfstest_mock_invoke and of args_match or
\* args_matched.
NoCall == [at |-> "none", mock |-> NULL, args |-> << >>, e |-> 0, i |-> 0]

Init ==
  /\ phase = "out"
  /\ expectations = << >>
  /\ invocations = << >>
  /\ verifiers = << >>
  /\ orders = << >>
  /\ call = NoCall
  /\ verifier = 0
  /\ past = << >>

\* The code of the test or of its fixture runs.
UserRuns == phase \in {"body", "fixture_teardown"} /\ call.at = "none"

mock_setup ==
  /\ phase = "out"
  /\ phase' = "body"
  /\ expectations' = << >>
  /\ invocations' = << >>
  /\ verifiers' = << >>
  /\ orders' = << >>
  /\ verifier' = 0
  /\ past' = << >>
  /\ UNCHANGED call

mock_teardown ==
  /\ phase = "leaving"
  /\ phase' = "out"
  /\ UNCHANGED <<objects, call, verifier, past>>

-----------------------------------------------------------------------------
(* Expectations *)

when(m, arg_handlers) ==
  /\ UserRuns
  /\ Len(expectations) < MaxExpectations
  /\ expectations' = Append(expectations,
       [mock |-> m, arg_handlers |-> arg_handlers,
        return_value |-> NULL, times |-> Infinite])
  /\ past' = Append(past,
       [limit |-> Infinite, matched |-> 0, returned |-> 0, limited |-> FALSE,
        acted |-> [i \in 1..ArgCount[m] |-> NULL],
        last |-> [i \in 1..ArgCount[m] |-> NULL]])
  /\ UNCHANGED <<phase, invocations, verifiers, orders, call, verifier>>

do_return(e, size) ==
  /\ UserRuns
  /\ expectations' = [expectations EXCEPT ![e].return_value = size]
  /\ UNCHANGED <<phase, invocations, verifiers, orders, call, verifier, past>>

\* pfstest_one_time and pfstest_do_times
SetTimes(e, times) ==
  /\ expectations' = [expectations EXCEPT ![e].times = times]
  /\ past' = [past EXCEPT ![e] =
       [past[e] EXCEPT !.limit = times, !.matched = 0, !.returned = 0,
                       !.limited = @ \/ times # Infinite]]

do_times(e, times) ==
  /\ UserRuns
  /\ SetTimes(e, times)
  /\ UNCHANGED <<phase, invocations, verifiers, orders, call, verifier>>

-----------------------------------------------------------------------------
(***************************************************************************)
(* pfstest_mock_invoke: expectations in turn, and for each of them its     *)
(* argument handlers in turn, all tested before any of them acts.          *)
(***************************************************************************)

mock_invoke(m, args) ==
  /\ UserRuns
  /\ Len(invocations) < MaxInvocations
  /\ call' = [at |-> "match", mock |-> m, args |-> args, e |-> 1, i |-> 1]
  /\ UNCHANGED <<phase, objects, verifier, past>>

Matching == call.at = "match" /\ call.e <= Len(expectations)

MoreArgs == call.i <= ArgCount[call.mock]

NextExpectation == [call EXCEPT !.e = @ + 1, !.i = 1]

\* Variant: an exhausted expectation goes on answering.
ConsidersExhausted(e) == expectations[e].mock = call.mock

\* What is asked of an expectation before its arguments.
Considers(e) ==
  /\ expectations[e].mock = call.mock
  /\ expectations[e].times # 0

skip_expectation ==
  /\ Matching /\ ~Considers(call.e)
  /\ call' = NextExpectation
  /\ UNCHANGED <<phase, objects, verifier, past>>

Accepted == call.args[call.i] \in expectations[call.e].arg_handlers[call.i].accepts

\* The history of the expectation when handler i gets argument i.
Acted ==
  IF expectations[call.e].arg_handlers[call.i].acts
  THEN [past EXCEPT ![call.e].acted[call.i] = call.args[call.i]]
  ELSE past

\* Variant: a handler acts as soon as its own argument is accepted.
arg_handler_test_and_act ==
  /\ Matching /\ Considers(call.e) /\ MoreArgs
  /\ IF Accepted
     THEN call' = [call EXCEPT !.i = @ + 1] /\ past' = Acted
     ELSE call' = NextExpectation /\ UNCHANGED past
  /\ UNCHANGED <<phase, objects, verifier>>

\* The loop of args_match.
arg_handler_test ==
  /\ Matching /\ Considers(call.e) /\ MoreArgs
  /\ call' = IF Accepted THEN [call EXCEPT !.i = @ + 1] ELSE NextExpectation
  /\ UNCHANGED <<phase, objects, verifier, past>>

\* args_match returns true: the expectation takes the call.
args_match ==
  /\ Matching /\ Considers(call.e) /\ ~MoreArgs
  /\ call' = [call EXCEPT !.at = "matched", !.i = 1]
  /\ past' = [past EXCEPT ![call.e].matched = @ + 1]
  /\ UNCHANGED <<phase, objects, verifier>>

\* The loop of args_matched.
arg_handler_matched ==
  /\ call.at = "matched" /\ MoreArgs
  /\ call' = [call EXCEPT !.i = @ + 1]
  /\ past' = Acted
  /\ UNCHANGED <<phase, objects, verifier>>

invocation_add(m, e) ==
  invocations' = Append(invocations, [mock |-> m, expectation |-> e, mark |-> FALSE])

WrongSize(e) ==
  /\ expectations[e].return_value # NULL
  /\ expectations[e].return_value # SizeOf[call.mock]

Decremented(times) == IF times = Infinite THEN times ELSE times - 1

\* The expectation counts down, and its history has the arguments of a call
\* that got an answer.
Answered ==
  /\ expectations' = [expectations EXCEPT ![call.e].times = Decremented(@)]
  /\ past' = [past EXCEPT ![call.e] =
       [past[call.e] EXCEPT !.returned = @ + 1, !.last = call.args]]

\* Variant: the loop goes on after an answer.
mock_return_and_go_on ==
  /\ call.at = "matched" /\ ~MoreArgs /\ ~WrongSize(call.e)
  /\ invocation_add(call.mock, call.e)
  /\ Answered
  /\ call' = [NextExpectation EXCEPT !.at = "match"]
  /\ UNCHANGED <<phase, verifiers, orders, verifier>>

mock_return ==
  /\ call.at = "matched" /\ ~MoreArgs /\ ~WrongSize(call.e)
  /\ invocation_add(call.mock, call.e)
  /\ Answered
  /\ call' = NoCall
  /\ UNCHANGED <<phase, verifiers, orders, verifier>>

\* A failure leaves the test body for the teardown of the fixture, and the
\* teardown of the fixture for that of the plugins.
AfterFailure == IF phase = "fixture_teardown" THEN "leaving" ELSE "arm_teardown"

\* fail_if_return_values_different_sizes jumps away: times stays as it is.
mock_return_wrong_size ==
  /\ call.at = "matched" /\ ~MoreArgs /\ WrongSize(call.e)
  /\ invocation_add(call.mock, call.e)
  /\ past' = [past EXCEPT ![call.e].last = call.args]
  /\ call' = NoCall
  /\ phase' = AfterFailure
  /\ UNCHANGED <<expectations, verifiers, orders, verifier>>

\* No expectation takes the call.
mock_return_default ==
  /\ call.at = "match" /\ call.e > Len(expectations)
  /\ invocation_add(call.mock, 0)
  /\ call' = NoCall
  /\ UNCHANGED <<phase, expectations, verifiers, orders, verifier, past>>

-----------------------------------------------------------------------------
(* Verifiers *)

Verifier(kind) ==
  [kind |-> kind, expectation |-> 0, wanted |-> 0, mock |-> NULL, order |-> 0]

verifier_add(v) ==
  /\ UserRuns
  /\ Len(verifiers) < MaxVerifiers
  /\ v.kind \in Kinds
  /\ verifiers' = Append(verifiers, v)
  /\ UNCHANGED <<phase, expectations, invocations, call, verifier, past>>

verify(e) ==
  /\ verifier_add([Verifier("exactly") EXCEPT !.expectation = e, !.wanted = 1])
  /\ UNCHANGED orders

verify_times(mode, times, e) ==
  /\ verifier_add([Verifier(mode) EXCEPT !.expectation = e, !.wanted = times])
  /\ UNCHANGED orders

verify_no_more_interactions(m) ==
  /\ verifier_add([Verifier("no_more_interactions") EXCEPT !.mock = m])
  /\ UNCHANGED orders

verify_no_more_invocations ==
  /\ verifier_add(Verifier("no_more_invocations"))
  /\ UNCHANGED orders

\* The verifier's place is that of pfstest_in_order_new.
in_order_new ==
  /\ verifier_add([Verifier("in_order") EXCEPT !.order = Len(orders) + 1])
  /\ orders' = Append(orders, << >>)

in_order_verify(o, e) ==
  /\ UserRuns
  /\ Len(orders[o]) < MaxOrder
  /\ SetTimes(e, 1)
  /\ orders' = [orders EXCEPT ![o] = Append(@, e)]
  /\ UNCHANGED <<phase, invocations, verifiers, call, verifier>>

-----------------------------------------------------------------------------
(* pfstest_mock_run_verifiers, one step for each verifier *)

CallsOf(e) == {i \in DOMAIN invocations : invocations[i].expectation = e}

\* Variant: one call is enough for two neighbours in the order.
InOrderGreedy(order) ==
  LET Found(n) == \A k \in 1..n : CallsOf(order[k]) # {}
      found == CHOOSE n \in 0..Len(order) :
                 Found(n) /\ \A k \in 0..Len(order) : Found(k) => k <= n
  IN  [found |-> found, at |-> UNION {CallsOf(order[k]) : k \in 1..found}]

\* What do_in_order_verification walks to: how many expectations of the order
\* were found, and the invocations they were found at.
InOrder(order) ==
  LET scan[i \in 0..Len(invocations)] ==
        IF i = 0 THEN [found |-> 0, at |-> {}]
        ELSE LET r == scan[i - 1] IN
             IF /\ r.found < Len(order)
                /\ order[r.found + 1] = invocations[i].expectation
             THEN [found |-> r.found + 1, at |-> r.at \cup {i}]
             ELSE r
  IN  scan[Len(invocations)]

Marks(v) ==
  CASE v.kind \in CountingModes -> CallsOf(v.expectation)
    [] v.kind = "in_order"      -> InOrder(orders[v.order]).at
    [] OTHER                    -> {}

Satisfied(v) ==
  LET count == Cardinality(CallsOf(v.expectation)) IN
  CASE v.kind = "exactly"  -> count = v.wanted
    [] v.kind = "at_most"  -> count <= v.wanted
    [] v.kind = "at_least" -> count >= v.wanted
    [] v.kind = "in_order" -> InOrder(orders[v.order]).found = Len(orders[v.order])
    [] v.kind = "no_more_interactions" ->
         \A i \in DOMAIN invocations :
           invocations[i].mock = v.mock => invocations[i].mark
    [] v.kind = "no_more_invocations" ->
         \A i \in DOMAIN invocations : invocations[i].mark

run_verifiers ==
  /\ phase = "body" /\ UserRuns
  /\ phase' = "verify"
  /\ verifier' = 1
  /\ UNCHANGED <<objects, call, past>>

run_verifier ==
  /\ phase = "verify"
  /\ verifier <= Len(verifiers)
  /\ invocations' = [i \in DOMAIN invocations |->
       [invocations[i] EXCEPT !.mark = @ \/ i \in Marks(verifiers[verifier])]]
  /\ IF Satisfied(verifiers[verifier])
     THEN verifier' = verifier + 1 /\ UNCHANGED phase
     ELSE phase' = AfterFailure /\ UNCHANGED verifier
  /\ UNCHANGED <<expectations, verifiers, orders, call, past>>

verifiers_done ==
  /\ phase = "verify"
  /\ verifier > Len(verifiers)
  /\ phase' = "arm_teardown"
  /\ UNCHANGED <<objects, call, verifier, past>>

-----------------------------------------------------------------------------
(* What PFRunner does around the plugin: run_test of src/core. *)

\* A check of the test itself fails.
Fail ==
  /\ UserRuns
  /\ phase' = AfterFailure
  /\ UNCHANGED <<objects, call, verifier, past>>

FixtureTeardown ==
  /\ phase = "arm_teardown"
  /\ phase' = "fixture_teardown"
  /\ UNCHANGED <<objects, call, verifier, past>>

PluginTeardown ==
  /\ phase = "fixture_teardown" /\ UserRuns
  /\ phase' = "leaving"
  /\ UNCHANGED <<objects, call, verifier, past>>

Next ==
  \/ mock_setup \/ mock_teardown
  \/ \E m \in Mock :
       \/ \E hs \in ArgHandlers(m) : when(m, hs)
       \/ \E args \in Args(m) : mock_invoke(m, args)
       \/ verify_no_more_interactions(m)
  \/ skip_expectation \/ arg_handler_test \/ args_match \/ arg_handler_matched
  \/ mock_return \/ mock_return_wrong_size \/ mock_return_default
  \/ \E e \in DOMAIN expectations :
       \/ \E size \in Sizes : do_return(e, size)
       \/ \E times \in Times : do_times(e, times)
       \/ verify(e)
       \/ \E mode \in CountingModes, times \in Wanted : verify_times(mode, times, e)
       \/ \E o \in DOMAIN orders : in_order_verify(o, e)
  \/ verify_no_more_invocations \/ in_order_new
  \/ run_verifiers \/ run_verifier \/ verifiers_done
  \/ Fail \/ FixtureTeardown \/ PluginTeardown

Spec == Init /\ [][Next]_vars

-----------------------------------------------------------------------------
(***************************************************************************)
(* An expectation limited by one_time, do_times or in_order_verify gives   *)
(* its answer to at most that many calls from then on, calls from the      *)
(* fixture's teardown included, and what is left of the limit is exact     *)
(* (pfstest_mock_invoke counts down after the call).                       *)
(***************************************************************************)
AnswersWithinLimit ==
  \A e \in DOMAIN expectations :
    past[e].limit >= 0 =>
      /\ expectations[e].times >= 0
      /\ past[e].returned + expectations[e].times = past[e].limit

(***************************************************************************)
(* An expectation is dead once an earlier one of the same mock, never      *)
(* limited, accepts every call it accepts: the first in the list answers.  *)
(***************************************************************************)
Covers(e, f) ==
  /\ expectations[e].mock = expectations[f].mock
  /\ \A i \in 1..ArgCount[expectations[e].mock] :
       expectations[f].arg_handlers[i].accepts
         \subseteq expectations[e].arg_handlers[i].accepts

ShadowedNeverAnswers ==
  \A e, f \in DOMAIN expectations :
    e < f /\ Covers(e, f) /\ ~past[e].limited => CallsOf(f) = {}

(***************************************************************************)
(* What the argument handlers of an expectation wrote or captured comes    *)
(* from one call, the last recorded for it, and every argument of that     *)
(* call was accepted: args_matched acts after args_match has tested every  *)
(* argument, so a call that fits in its first arguments only, made before  *)
(* or running now, has left nothing behind.  While args_matched runs for   *)
(* the expectation its handlers are in between two calls.                  *)
(***************************************************************************)
HandlersActOnTakenCalls ==
  \A e \in DOMAIN expectations :
    LET hs == expectations[e].arg_handlers IN
    /\ ~(call.at = "matched" /\ call.e = e) =>
         \A i \in DOMAIN hs :
           past[e].acted[i] = IF hs[i].acts THEN past[e].last[i] ELSE NULL
    /\ CallsOf(e) # {} => \A i \in DOMAIN hs : past[e].last[i] \in hs[i].accepts

(***************************************************************************)
(* The reference for the verifiers: the calls an order can be found in are *)
(* those that have it as a subsequence.                                    *)
(***************************************************************************)
EmbedsIn(order, n) ==
  \E at \in [1..Len(order) -> 1..n] :
    /\ \A j, k \in 1..Len(order) : j < k => at[j] < at[k]
    /\ \A k \in 1..Len(order) : invocations[at[k]].expectation = order[k]

\* The call that completes the first k expectations of an order.
Completes(order, k, i) ==
  /\ EmbedsIn(SubSeq(order, 1, k), i)
  /\ ~EmbedsIn(SubSeq(order, 1, k), i - 1)

Accounts(v, i) ==
  \/ v.kind \in CountingModes /\ invocations[i].expectation = v.expectation
  \/ /\ v.kind = "in_order"
     /\ \E k \in 1..Len(orders[v.order]) : Completes(orders[v.order], k, i)

AccountedBefore(k, i) == \E j \in 1..(k - 1) : Accounts(verifiers[j], i)

TimesCalled(e) == Cardinality(CallsOf(e))

Holds(k) ==
  LET v == verifiers[k] IN
  CASE v.kind = "exactly"  -> TimesCalled(v.expectation) = v.wanted
    [] v.kind = "at_most"  -> TimesCalled(v.expectation) \in 0..v.wanted
    [] v.kind = "at_least" -> TimesCalled(v.expectation) \notin 0..(v.wanted - 1)
    [] v.kind = "in_order" -> EmbedsIn(orders[v.order], Len(invocations))
    [] v.kind = "no_more_interactions" ->
         \A i \in DOMAIN invocations :
           invocations[i].mock = v.mock => AccountedBefore(k, i)
    [] v.kind = "no_more_invocations" ->
         \A i \in DOMAIN invocations : AccountedBefore(k, i)

Verified == phase = "arm_teardown" /\ verifier # 0

(***************************************************************************)
(* The verifiers come to the right verdict: when they all return, each one *)
(* held of the calls the test made, and when one fails it is the first, in *)
(* the order they were registered, that does not.  A call is accounted for *)
(* (for the no_more verifiers) by the verifiers registered before.  What   *)
(* verify holds of is the code's: exactly one call.  The header disagrees, *)
(* include/pfstest-mock.h:117 has it fail if the expectation "never        *)
(* matches"; a second call fails it, too.                                  *)
(***************************************************************************)
VerdictIsRight ==
  Verified =>
    /\ \A k \in 1..(verifier - 1) : Holds(k)
    /\ verifier \in DOMAIN verifiers => ~Holds(verifier)

(***************************************************************************)
(* What include/pfstest-mock.h states and the code does not keep:          *)
(* pfstest_one_time and pfstest_do_times make an expectation "only match   *)
(* times times"; the call that fails for the size of its return value is   *)
(* not counted.                                                            *)
(***************************************************************************)
MatchesWithinLimit ==
  \A e \in DOMAIN expectations : past[e].limit >= 0 => past[e].matched <= past[e].limit
=============================================================================
