---------------------------- MODULE PFMockProofs ----------------------------
(***************************************************************************)
(* Proofs about the mocks, for any mocks, values and handlers and any      *)
(* number of expectations, calls and verifiers.                            *)
(***************************************************************************)
EXTENDS PFMock, PFInduction

Expectation ==
  [mock : Mock, arg_handlers : UNION {ArgHandlers(m) : m \in Mock},
   return_value : Sizes \cup {NULL}, times : Int]

Remembered(m) == [1..ArgCount[m] -> Value \cup {NULL}]

Memories == UNION {Remembered(m) : m \in Mock}

History ==
  [limit : Int, matched : Nat, returned : Nat, limited : BOOLEAN,
   acted : Memories, last : Memories]

Invocation == [mock : Mock, expectation : Nat, mark : BOOLEAN]

VerifierRecord ==
  [kind : VerifierKinds, expectation : Nat, wanted : Nat,
   mock : Mock \cup {NULL}, order : Nat]

\* An expectation has a handler, and its history a place, for every argument
\* of its mock.
Fits(e) ==
  LET m == expectations[e].mock IN
  /\ expectations[e].arg_handlers \in ArgHandlers(m)
  /\ past[e].acted \in Remembered(m)
  /\ past[e].last \in Remembered(m)

InTest == phase \in {"body", "fixture_teardown"}

Arguments == (UNION {Args(m) : m \in Mock}) \cup {<< >>}

CallRecord ==
  [at : {"none", "match", "matched"}, mock : Mock \cup {NULL},
   args : Arguments, e : Nat, i : Nat]

\* A call runs in the test or its fixture only.
CallTypes ==
  /\ call \in CallRecord
  /\ call.at # "none" =>
       /\ InTest
       /\ call.mock \in Mock /\ call.args \in Args(call.mock)
       /\ call.e \in 1..(Len(expectations) + 1)
       /\ call.i \in 1..(ArgCount[call.mock] + 1)
  /\ call.at = "matched" =>
       call.e \in 1..Len(expectations) /\ expectations[call.e].mock = call.mock

(***************************************************************************)
(* The types of the lists of a test and of the call that runs.             *)
(***************************************************************************)
StubbingTypes ==
  /\ CallTypes
  /\ expectations \in Seq(Expectation)
  /\ past \in Seq(History)
  /\ Len(past) = Len(expectations)
  /\ \A e \in 1..Len(expectations) : Fits(e)
  /\ invocations \in Seq(Invocation)
  /\ \A i \in 1..Len(invocations) : invocations[i].expectation <= Len(expectations)

VerifyingTypes ==
  /\ phase \in {"out", "body", "verify", "arm_teardown", "fixture_teardown", "leaving"}
  /\ verifiers \in Seq(VerifierRecord)
  /\ orders \in Seq(Seq(Nat))
  /\ \A k \in 1..Len(verifiers) :
       verifiers[k].kind = "in_order" => verifiers[k].order \in 1..Len(orders)
  /\ verifier \in Nat

-----------------------------------------------------------------------------
(* The steps of Next *)

\* The steps of a call that write the history of the expectation it is at.
TakingStep ==
  args_match \/ arg_handler_matched \/ mock_return \/ mock_return_wrong_size

\* Whose steps are whose: those that write expectations, past or invocations.
StubbingStep ==
  \/ mock_setup
  \/ \E m \in Mock : \E hs \in ArgHandlers(m) : when(m, hs)
  \/ TakingStep \/ mock_return_default
  \/ \E e \in DOMAIN expectations :
       \/ \E size \in Sizes : do_return(e, size)
       \/ \E times \in Times : do_times(e, times)
       \/ \E o \in DOMAIN orders : in_order_verify(o, e)
  \/ run_verifier

\* The steps that leave expectations and calls alone.
LEMMA StubbingCases ==
  ASSUME [Next]_vars, ~StubbingStep
  PROVE  UNCHANGED <<expectations, past, invocations>>
  BY DEF Next, StubbingStep, TakingStep, vars, objects, mock_teardown, verify,
         verify_times, verify_no_more_interactions, verify_no_more_invocations,
         in_order_new, verifier_add, run_verifiers, verifiers_done, Fail,
         FixtureTeardown, PluginTeardown, mock_invoke, skip_expectation, arg_handler_test

\* Nothing but the steps of a call is done while it runs.
LEMMA CallCases ==
  ASSUME CallTypes, call.at # "none", [Next]_vars
  PROVE  \/ skip_expectation \/ arg_handler_test
         \/ TakingStep \/ mock_return_default
         \/ UNCHANGED vars
<1>1. ~UserRuns /\ InTest
  BY DEF CallTypes, UserRuns
<1>2. ~mock_setup /\ ~mock_teardown
  BY <1>1 DEF InTest, mock_setup, mock_teardown
<1>3. ~run_verifiers /\ ~run_verifier /\ ~verifiers_done /\ ~FixtureTeardown /\ ~PluginTeardown /\ ~Fail
  BY <1>1 DEF InTest, run_verifiers, run_verifier, verifiers_done, FixtureTeardown,
     PluginTeardown, Fail
<1>4. /\ \A m, hs : ~when(m, hs)
      /\ \A m, args : ~mock_invoke(m, args)
      /\ \A e, x : ~do_return(e, x) /\ ~do_times(e, x) /\ ~in_order_verify(x, e)
  BY <1>1 DEF when, mock_invoke, do_return, do_times, in_order_verify
<1>5. /\ \A e : ~verify(e)
      /\ \A mode, times, e : ~verify_times(mode, times, e)
      /\ \A m : ~verify_no_more_interactions(m)
      /\ ~verify_no_more_invocations /\ ~in_order_new
  BY <1>1 DEF verify, verify_times, verify_no_more_interactions,
     verify_no_more_invocations, in_order_new, verifier_add
<1> QED
  BY <1>2, <1>3, <1>4, <1>5 DEF Next, TakingStep

\* When no call runs a step starts one or leaves it so.
LEMMA IdleCases ==
  ASSUME call.at = "none", [Next]_vars
  PROVE  \/ call' = call
         \/ \E m \in Mock : \E args \in Args(m) : mock_invoke(m, args)
<1>1. /\ ~skip_expectation /\ ~arg_handler_test /\ ~args_match
      /\ ~arg_handler_matched /\ ~mock_return /\ ~mock_return_wrong_size
      /\ ~mock_return_default
  BY DEF skip_expectation, arg_handler_test, args_match, arg_handler_matched, mock_return,
     mock_return_wrong_size, mock_return_default, Matching
<1> QED
  BY <1>1 DEF Next, vars, mock_setup, mock_teardown, when, do_return, do_times,
     in_order_verify, verify, verify_times, verify_no_more_interactions,
     verify_no_more_invocations, in_order_new, verifier_add, run_verifiers,
     run_verifier, verifiers_done, Fail, FixtureTeardown, PluginTeardown

\* The places a call goes to.
LEMMA CallMoves ==
  ASSUME MockAssumption, call \in CallRecord
  PROVE  /\ NextExpectation \in CallRecord
         /\ NextExpectation.at = call.at /\ NextExpectation.mock = call.mock
         /\ NextExpectation.args = call.args
         /\ NextExpectation.e = call.e + 1 /\ NextExpectation.i = 1
         /\ \A c : c = [call EXCEPT !.i = @ + 1] =>
              /\ c \in CallRecord
              /\ c.at = call.at /\ c.mock = call.mock /\ c.args = call.args
              /\ c.e = call.e /\ c.i = call.i + 1
         /\ \A c : c = [call EXCEPT !.at = "matched", !.i = 1] =>
              /\ c \in CallRecord
              /\ c.at = "matched" /\ c.mock = call.mock /\ c.args = call.args
              /\ c.e = call.e /\ c.i = 1
         /\ NoCall \in CallRecord /\ NoCall.at = "none"
<1>1. call.e + 1 \in Nat /\ call.i + 1 \in Nat
  BY DEF CallRecord
<1>2. << >> \in Arguments
  BY DEF Arguments
<1>7. NoCall \in CallRecord /\ NoCall.at = "none"
  BY <1>2 DEF NoCall, CallRecord
<1>10. /\ NextExpectation \in CallRecord
       /\ NextExpectation.at = call.at /\ NextExpectation.mock = call.mock
       /\ NextExpectation.args = call.args
       /\ NextExpectation.e = call.e + 1 /\ NextExpectation.i = 1
  BY <1>1 DEF NextExpectation, CallRecord
<1>11. \A c : c = [call EXCEPT !.i = @ + 1] =>
         /\ c \in CallRecord
         /\ c.at = call.at /\ c.mock = call.mock /\ c.args = call.args
         /\ c.e = call.e /\ c.i = call.i + 1
  BY <1>1 DEF CallRecord
<1>12. \A c : c = [call EXCEPT !.at = "matched", !.i = 1] =>
         /\ c \in CallRecord
         /\ c.at = "matched" /\ c.mock = call.mock /\ c.args = call.args
         /\ c.e = call.e /\ c.i = 1
  <2> DEFINE d == [call EXCEPT !.at = "matched", !.i = 1]
  <2>1. d.at = "matched" /\ d.mock = call.mock /\ d.args = call.args /\ d.e = call.e /\ d.i = 1
    BY DEF CallRecord
  <2>2. \A a \in {"none", "match", "matched"} : [call EXCEPT !.at = a, !.i = 1] \in CallRecord
    BY DEF CallRecord
  <2>3. d \in CallRecord
    BY <2>2, Zenon
  <2> QED
    BY <2>1, <2>3, Zenon
<1> QED
  BY ONLY <1>7, <1>10, <1>11, <1>12

-----------------------------------------------------------------------------
(* Types *)

\* The elements of a sequence with one more.
LEMMA Appended ==
  ASSUME NEW S, NEW s \in Seq(S), NEW x \in S
  PROVE  /\ Append(s, x) \in Seq(S)
         /\ Len(Append(s, x)) = Len(s) + 1
         /\ Append(s, x)[Len(s) + 1] = x
         /\ \A i \in 1..Len(s) : Append(s, x)[i] = s[i]
  OBVIOUS

\* The elements of a sequence with one of them changed.
LEMMA Replaced ==
  ASSUME NEW S, NEW s \in Seq(S), NEW n \in 1..Len(s), NEW x \in S
  PROVE  /\ [s EXCEPT ![n] = x] \in Seq(S)
         /\ Len([s EXCEPT ![n] = x]) = Len(s)
         /\ [s EXCEPT ![n] = x][n] = x
         /\ \A i \in 1..Len(s) : i # n => [s EXCEPT ![n] = x][i] = s[i]
  OBVIOUS

\* What a step that takes a new invocation leaves right.
LEMMA InvocationAdded ==
  ASSUME StubbingTypes, NEW m \in Mock, NEW e \in 0..Len(expectations),
         invocation_add(m, e)
  PROVE  /\ invocations' \in Seq(Invocation)
         /\ Len(invocations') = Len(invocations) + 1
         /\ invocations'[Len(invocations) + 1].expectation = e
         /\ \A i \in 1..Len(invocations) : invocations'[i] = invocations[i]
         /\ \A i \in 1..Len(invocations') : invocations'[i].expectation <= Len(expectations)
<1> DEFINE new == [mock |-> m, expectation |-> e, mark |-> FALSE]
<1>1. new \in Invocation /\ new.expectation = e
  BY DEF Invocation, StubbingTypes
<1>2. invocations' = Append(invocations, new)
  BY DEF invocation_add
<1>3. invocations \in Seq(Invocation)
  BY DEF StubbingTypes
<1> HIDE DEF new
<1>4. /\ invocations' \in Seq(Invocation)
      /\ Len(invocations') = Len(invocations) + 1
      /\ invocations'[Len(invocations) + 1] = new
      /\ \A i \in 1..Len(invocations) : invocations'[i] = invocations[i]
  BY <1>1, <1>2, <1>3, Appended
<1> QED
  BY <1>1, <1>3, <1>4 DEF StubbingTypes

\* An expectation that answers, or whose limit is set, stays of its mock.
LEMMA ExpectationReplaced ==
  ASSUME StubbingTypes, NEW e \in 1..Len(expectations),
         NEW x \in Expectation, NEW h \in History,
         expectations' = [expectations EXCEPT ![e] = x],
         past' = [past EXCEPT ![e] = h],
         x.mock = expectations[e].mock,
         x.arg_handlers = expectations[e].arg_handlers,
         h.acted \in Remembered(x.mock), h.last \in Remembered(x.mock)
  PROVE  /\ expectations' \in Seq(Expectation)
         /\ past' \in Seq(History)
         /\ Len(expectations') = Len(expectations)
         /\ Len(past') = Len(expectations')
         /\ \A f \in 1..Len(expectations') : Fits(f)'
         /\ expectations'[e] = x /\ past'[e] = h
         /\ \A f \in 1..Len(expectations) :
              f # e => expectations'[f] = expectations[f] /\ past'[f] = past[f]
<1>1. /\ expectations \in Seq(Expectation) /\ past \in Seq(History)
      /\ Len(past) = Len(expectations)
  BY DEF StubbingTypes
<1>2. /\ expectations' \in Seq(Expectation)
      /\ Len(expectations') = Len(expectations)
      /\ expectations'[e] = x
      /\ \A f \in 1..Len(expectations) : f # e => expectations'[f] = expectations[f]
  BY <1>1, Replaced
<1>3. /\ past' \in Seq(History)
      /\ Len(past') = Len(past)
      /\ past'[e] = h
      /\ \A f \in 1..Len(expectations) : f # e => past'[f] = past[f]
  BY <1>1, Replaced
<1>4. ASSUME NEW f \in 1..Len(expectations) PROVE Fits(f)'
  <2>1. Fits(f)
    BY DEF StubbingTypes
  <2>2. CASE f # e
    BY <2>1, <2>2, <1>2, <1>3 DEF Fits
  <2>3. CASE f = e
    BY <2>1, <2>3, <1>2, <1>3 DEF Fits
  <2> QED
    BY <2>2, <2>3
<1> QED
  BY <1>1, <1>2, <1>3, <1>4

\* What in_order_verify, one_time and do_times do to an expectation.
LEMMA TimesSet ==
  ASSUME StubbingTypes, NEW e \in 1..Len(expectations), NEW times \in Int,
         SetTimes(e, times)
  PROVE  \E x \in Expectation, h \in History :
           /\ expectations' = [expectations EXCEPT ![e] = x]
           /\ past' = [past EXCEPT ![e] = h]
           /\ x.mock = expectations[e].mock
           /\ x.arg_handlers = expectations[e].arg_handlers
           /\ h.acted = past[e].acted /\ h.last = past[e].last
           /\ x.times = times /\ h.limit = times /\ h.returned = 0
           /\ h.limited = (past[e].limited \/ times # Infinite)
<1> DEFINE x == [expectations[e] EXCEPT !.times = times]
           h == [past[e] EXCEPT !.limit = times, !.matched = 0, !.returned = 0,
                                !.limited = @ \/ times # Infinite]
<1>1. expectations[e] \in Expectation /\ past[e] \in History
  BY DEF StubbingTypes
<1>2. /\ x \in Expectation /\ x.times = times
      /\ x.mock = expectations[e].mock /\ x.arg_handlers = expectations[e].arg_handlers
  BY <1>1 DEF Expectation
<1>3. /\ h \in History
      /\ h.limit = times /\ h.returned = 0
      /\ h.limited = (past[e].limited \/ times # Infinite)
      /\ h.acted = past[e].acted /\ h.last = past[e].last
  BY <1>1 DEF History
<1>4. /\ expectations' = [expectations EXCEPT ![e] = x]
      /\ past' = [past EXCEPT ![e] = h]
  BY DEF SetTimes
<1> HIDE DEF x, h
<1> QED
  BY <1>2, <1>3, <1>4

\* How a step of the call changes the expectation it is at and its history: x
\* and h are what they become.
CallWrites(x, h) ==
  LET e == call.e IN
  /\ expectations' = [expectations EXCEPT ![e] = x]
  /\ past' = [past EXCEPT ![e] = h]
  /\ x.mock = call.mock /\ expectations[e].mock = call.mock
  /\ x.arg_handlers = expectations[e].arg_handlers
  /\ h.limit = past[e].limit /\ h.limited = past[e].limited
  /\ h.acted \in Remembered(call.mock) /\ h.last \in Remembered(call.mock)
  /\ \/ x.times = expectations[e].times /\ h.returned = past[e].returned
     \/ /\ x.times = Decremented(expectations[e].times)
        /\ h.returned = past[e].returned + 1

\* What the step leaves of the two histories of the arguments.
ArgumentsWritten(h) ==
  LET e == call.e IN
  \/ args_match /\ h.acted = past[e].acted /\ h.last = past[e].last
  \/ /\ arg_handler_matched
     /\ h.last = past[e].last
     /\ \A i \in 1..ArgCount[call.mock] :
          h.acted[i] = IF i = call.i /\ expectations[e].arg_handlers[i].acts
                       THEN call.args[i] ELSE past[e].acted[i]
  \/ /\ mock_return \/ mock_return_wrong_size
     /\ h.acted = past[e].acted /\ h.last = call.args

(***************************************************************************)
(* A step of a call changes the expectation the call is at and no other.   *)
(***************************************************************************)
LEMMA TakingWrites ==
  ASSUME MockAssumption, StubbingTypes, TakingStep
  PROVE  /\ call.e \in 1..Len(expectations)
         /\ \E x \in Expectation, h \in History : CallWrites(x, h) /\ ArgumentsWritten(h)
<1> DEFINE e == call.e
           m == call.mock
<1>1. /\ e \in 1..Len(expectations) /\ expectations[e].mock = m
      /\ m \in Mock /\ call.args \in Args(m) /\ call.i \in 1..(ArgCount[m] + 1)
  <2>1. CASE args_match
    BY <2>1 DEF args_match, Matching, Considers, StubbingTypes, CallTypes
  <2>2. CASE call.at = "matched"
    BY <2>2 DEF StubbingTypes, CallTypes
  <2> QED
    BY <2>1, <2>2 DEF TakingStep, arg_handler_matched, mock_return, mock_return_wrong_size
<1>2. expectations \in Seq(Expectation) /\ past \in Seq(History) /\ Len(past) = Len(expectations)
  BY DEF StubbingTypes
<1>3. expectations[e] \in Expectation /\ past[e] \in History
  BY <1>1, <1>2
<1>4. past[e].acted \in Remembered(m) /\ past[e].last \in Remembered(m)
  BY <1>1 DEF StubbingTypes, Fits
<1>5. ArgCount[m] \in Nat
  BY <1>1 DEF MockAssumption
<1>6. call.args \in Remembered(m) /\ DOMAIN call.args = 1..ArgCount[m]
  BY <1>1 DEF Args, Remembered
<1>7. Remembered(m) \subseteq Memories
  BY <1>1 DEF Memories
<1>8. expectations = [expectations EXCEPT ![e] = expectations[e]]
  BY <1>1, <1>2
<1>9. ASSUME NEW h, past' = [past EXCEPT ![e] = h], UNCHANGED expectations,
             h \in History, h.limit = past[e].limit, h.limited = past[e].limited,
             h.returned = past[e].returned,
             h.acted \in Remembered(m), h.last \in Remembered(m),
             ArgumentsWritten(h)
      PROVE  \E x \in Expectation, g \in History : CallWrites(x, g) /\ ArgumentsWritten(g)
  <2>1. CallWrites(expectations[e], h)
    BY <1>1, <1>8, <1>9 DEF CallWrites
  <2> QED
    BY <1>3, <1>9, <2>1
<1>10. CASE args_match
  <2> DEFINE h == [past[e] EXCEPT !.matched = past[e].matched + 1]
  <2>1. past[e].matched + 1 \in Nat
    BY <1>3 DEF History
  <2>2. past' = [past EXCEPT ![e] = h] /\ UNCHANGED expectations
    BY <1>10 DEF args_match, objects
  <2>3. /\ h \in History /\ h.limit = past[e].limit /\ h.limited = past[e].limited
        /\ h.returned = past[e].returned
        /\ h.acted = past[e].acted /\ h.last = past[e].last
    BY <1>3, <2>1 DEF History
  <2> HIDE DEF h
  <2>4. ArgumentsWritten(h)
    BY <1>10, <2>3 DEF ArgumentsWritten
  <2> QED
    BY <1>1, <1>4, <1>9, <2>2, <2>3, <2>4
<1>11. CASE arg_handler_matched
  <2>1. call.i \in 1..ArgCount[m]
    BY <1>1, <1>5, <1>11 DEF arg_handler_matched, MoreArgs
  <2>2. UNCHANGED expectations
    BY <1>11 DEF arg_handler_matched, objects
  <2>3. CASE expectations[e].arg_handlers[call.i].acts
    <3> DEFINE acted == [past[e].acted EXCEPT ![call.i] = call.args[call.i]]
               h == [past[e] EXCEPT !.acted = acted]
    <3>1. past' = [past EXCEPT ![e] = h]
      BY <1>11, <2>3 DEF arg_handler_matched, Acted
    <3>2. call.args[call.i] \in Value \cup {NULL}
      BY <1>1, <2>1 DEF Args
    <3>3. /\ acted \in Remembered(m)
          /\ \A i \in 1..ArgCount[m] :
               acted[i] = IF i = call.i THEN call.args[i] ELSE past[e].acted[i]
      BY <1>4, <2>1, <3>2 DEF Remembered
    <3> HIDE DEF acted
    <3>4. acted \in Memories
      BY <1>7, <3>3
    <3>5. /\ h \in History /\ h.limit = past[e].limit /\ h.limited = past[e].limited
          /\ h.returned = past[e].returned
          /\ h.acted = acted /\ h.last = past[e].last
      BY <1>3, <3>4 DEF History
    <3> HIDE DEF h
    <3>6. ArgumentsWritten(h)
      BY <1>11, <2>3, <3>3, <3>5 DEF ArgumentsWritten
    <3> QED
      BY <1>1, <1>4, <1>9, <2>2, <3>1, <3>3, <3>5, <3>6
  <2>4. CASE ~expectations[e].arg_handlers[call.i].acts
    <3>1. past' = [past EXCEPT ![e] = past[e]]
      BY <1>1, <1>2, <1>11, <2>4 DEF arg_handler_matched, Acted
    <3>2. ArgumentsWritten(past[e])
      BY <1>11, <2>4 DEF ArgumentsWritten
    <3> QED
      BY <1>1, <1>3, <1>4, <1>9, <2>2, <3>1, <3>2
  <2> QED
    BY <2>3, <2>4
<1>12. CASE mock_return
  <2> DEFINE x == [expectations[e] EXCEPT !.times = Decremented(@)]
             h == [past[e] EXCEPT !.returned = past[e].returned + 1, !.last = call.args]
  <2>1. /\ expectations' = [expectations EXCEPT ![e] = x]
        /\ past' = [past EXCEPT ![e] = h]
    BY <1>12 DEF mock_return, Answered
  <2>2. /\ x \in Expectation
        /\ x.mock = expectations[e].mock /\ x.arg_handlers = expectations[e].arg_handlers
        /\ x.times = Decremented(expectations[e].times)
    BY <1>3 DEF Expectation, Decremented, Infinite
  <2>3. past[e].returned + 1 \in Nat /\ call.args \in Memories
    BY <1>3, <1>6, <1>7 DEF History
  <2>5. /\ h \in History /\ h.limit = past[e].limit /\ h.limited = past[e].limited
        /\ h.returned = past[e].returned + 1
        /\ h.acted = past[e].acted /\ h.last = call.args
    BY <1>3, <2>3 DEF History
  <2> HIDE DEF x, h
  <2>6. CallWrites(x, h)
    BY <1>1, <1>4, <1>6, <2>1, <2>2, <2>5 DEF CallWrites
  <2>7. ArgumentsWritten(h)
    BY <1>12, <2>5 DEF ArgumentsWritten
  <2> QED
    BY <1>1, <2>2, <2>5, <2>6, <2>7
<1>13. CASE mock_return_wrong_size
  <2> DEFINE h == [past[e] EXCEPT !.last = call.args]
  <2>1. past' = [past EXCEPT ![e] = h] /\ UNCHANGED expectations
    BY <1>13 DEF mock_return_wrong_size
  <2>2. call.args \in Memories
    BY <1>6, <1>7
  <2>3. /\ h \in History /\ h.limit = past[e].limit /\ h.limited = past[e].limited
        /\ h.returned = past[e].returned
        /\ h.acted = past[e].acted /\ h.last = call.args
    BY <1>3, <2>2 DEF History
  <2> HIDE DEF h
  <2>4. ArgumentsWritten(h)
    BY <1>13, <2>3 DEF ArgumentsWritten
  <2> QED
    BY <1>1, <1>4, <1>6, <1>9, <2>1, <2>3, <2>4
<1> QED
  BY <1>1, <1>10, <1>11, <1>12, <1>13 DEF TakingStep

\* A verifier marks calls, and changes nothing else about them.
LEMMA RunVerifierMarks ==
  ASSUME StubbingTypes, run_verifier
  PROVE  /\ invocations' \in Seq(Invocation)
         /\ Len(invocations') = Len(invocations)
         /\ \A i \in 1..Len(invocations) :
              /\ invocations'[i].expectation = invocations[i].expectation
              /\ invocations'[i].mock = invocations[i].mock
              /\ invocations'[i].mark <=>
                   invocations[i].mark \/ i \in Marks(verifiers[verifier])
<1> DEFINE marked(i) == [invocations[i] EXCEPT !.mark = @ \/ i \in Marks(verifiers[verifier])]
<1>1. \A i \in 1..Len(invocations) : invocations[i] \in Invocation
  BY DEF StubbingTypes
<1>2. ASSUME NEW i \in 1..Len(invocations)
      PROVE  /\ marked(i) \in Invocation
             /\ marked(i).expectation = invocations[i].expectation
             /\ marked(i).mock = invocations[i].mock
             /\ marked(i).mark <=> invocations[i].mark \/ i \in Marks(verifiers[verifier])
  BY <1>1 DEF Invocation
<1>3. invocations' = [i \in DOMAIN invocations |-> marked(i)]
  BY DEF run_verifier
<1>4. DOMAIN invocations = 1..Len(invocations) /\ Len(invocations) \in Nat
  BY DEF StubbingTypes
<1> HIDE DEF marked
<1>5. invocations' \in Seq(Invocation) /\ Len(invocations') = Len(invocations)
  BY <1>2, <1>3, <1>4
<1> QED
  BY <1>2, <1>3, <1>4, <1>5

\* The loops of a call stay within the expectations and the arguments.
LEMMA CallTypesStep ==
  ASSUME MockAssumption, StubbingTypes, [Next]_vars
  PROVE  CallTypes'
<1>1. /\ call \in CallRecord
      /\ call.e \in Nat /\ call.i \in Nat /\ Len(expectations) \in Nat
  BY DEF StubbingTypes, CallTypes, CallRecord
<1>2. NoCall \in CallRecord /\ NoCall.at = "none"
  BY <1>1, CallMoves
<1>3. CASE call' \in CallRecord /\ call'.at = "none"
  BY <1>3 DEF CallTypes
<1>4. CASE call.at = "none"
  <2>1. CASE call' = call
    BY <1>1, <1>3, <1>4, <2>1
  <2>2. ASSUME NEW m \in Mock, NEW args \in Args(m), mock_invoke(m, args)
        PROVE  CallTypes'
    <3> DEFINE c == [at |-> "match", mock |-> m, args |-> args, e |-> 1, i |-> 1]
    <3>1. args \in Arguments
      BY DEF Arguments
    <3>2. /\ c \in CallRecord /\ c.at = "match" /\ c.mock = m /\ c.args = args
          /\ c.e = 1 /\ c.i = 1
      BY <3>1 DEF CallRecord
    <3>3. call' = c /\ UserRuns /\ UNCHANGED <<phase, expectations>>
      BY <2>2 DEF mock_invoke, objects
    <3> HIDE DEF c
    <3>4. InTest'
      BY <3>3 DEF UserRuns, InTest
    <3>5. ArgCount[m] \in Nat
      BY DEF MockAssumption
    <3> QED
      BY <1>1, <3>2, <3>3, <3>4, <3>5 DEF CallTypes
  <2> QED
    BY <1>4, <2>1, <2>2, IdleCases
<1>5. CASE call.at # "none"
  <2>1. /\ InTest /\ call.mock \in Mock /\ call.args \in Args(call.mock)
        /\ call.e \in 1..(Len(expectations) + 1)
        /\ call.i \in 1..(ArgCount[call.mock] + 1)
        /\ ArgCount[call.mock] \in Nat
    BY <1>5 DEF StubbingTypes, CallTypes, MockAssumption
  <2>2. ASSUME UNCHANGED <<phase, expectations>>, call' = NextExpectation, Matching
        PROVE  CallTypes'
    <3>1. InTest'
      BY <2>1, <2>2 DEF InTest
    <3>2. /\ call' \in CallRecord /\ call'.at = "match" /\ call'.mock = call.mock
          /\ call'.args = call.args /\ call'.e = call.e + 1 /\ call'.i = 1
      BY <1>1, <2>2, CallMoves DEF Matching
    <3>3. call.e <= Len(expectations)
      BY <2>2 DEF Matching
    <3> QED
      BY <1>1, <2>1, <2>2, <3>1, <3>2, <3>3 DEF CallTypes
  <2>3. ASSUME UNCHANGED <<phase, expectations>>, call' = [call EXCEPT !.i = @ + 1], MoreArgs
        PROVE  CallTypes'
    <3>1. InTest'
      BY <2>1, <2>3 DEF InTest
    <3>2. /\ call' \in CallRecord /\ call'.at = call.at /\ call'.mock = call.mock
          /\ call'.args = call.args /\ call'.e = call.e /\ call'.i = call.i + 1
      BY <1>1, <2>3, CallMoves
    <3>3. call.i <= ArgCount[call.mock]
      BY <2>3 DEF MoreArgs
    <3>4. call.at = "matched" =>
            call.e \in 1..Len(expectations) /\ expectations[call.e].mock = call.mock
      BY DEF StubbingTypes, CallTypes
    <3> QED
      BY <1>1, <2>1, <2>3, <3>1, <3>2, <3>3, <3>4 DEF CallTypes
  <2>4. CASE skip_expectation
    BY <2>2, <2>4 DEF skip_expectation, objects
  <2>5. CASE arg_handler_test
    BY <2>2, <2>3, <2>5 DEF arg_handler_test, objects
  <2>6. CASE args_match
    <3>1. UNCHANGED <<phase, expectations>> /\ call' = [call EXCEPT !.at = "matched", !.i = 1]
      BY <2>6 DEF args_match, objects
    <3>2. /\ call' \in CallRecord /\ call'.at = "matched" /\ call'.mock = call.mock
          /\ call'.args = call.args /\ call'.e = call.e /\ call'.i = 1
      BY <1>1, <3>1, CallMoves
    <3>3. call.e <= Len(expectations) /\ expectations[call.e].mock = call.mock
      BY <2>6 DEF args_match, Matching, Considers
    <3>4. InTest'
      BY <2>1, <3>1 DEF InTest
    <3> QED
      BY <1>1, <2>1, <3>1, <3>2, <3>3, <3>4 DEF CallTypes
  <2>7. CASE arg_handler_matched
    BY <2>3, <2>7 DEF arg_handler_matched, objects
  <2>8. CASE mock_return \/ mock_return_wrong_size \/ mock_return_default
    <3>1. call' = NoCall
      BY <2>8 DEF mock_return, mock_return_wrong_size, mock_return_default
    <3> QED
      BY <1>2, <1>3, <3>1
  <2>9. CASE UNCHANGED vars
    BY <2>9 DEF vars, objects, StubbingTypes, CallTypes, InTest
  <2>10. CallTypes
    BY DEF StubbingTypes
  <2> QED
    BY <1>5, <2>4, <2>5, <2>6, <2>7, <2>8, <2>9, <2>10, CallCases DEF TakingStep
<1> QED
  BY <1>4, <1>5

\* Stubbing and calls keep the types of what they build.
LEMMA ListTypesStep ==
  ASSUME MockAssumption, StubbingTypes, [Next]_vars, CallTypes'
  PROVE  StubbingTypes'
<1>1. CASE mock_setup
  BY <1>1 DEF mock_setup, StubbingTypes
<1>2. ASSUME NEW m \in Mock, NEW hs \in ArgHandlers(m), when(m, hs)
      PROVE  StubbingTypes'
  <2> DEFINE new == [mock |-> m, arg_handlers |-> hs, return_value |-> NULL,
                     times |-> Infinite]
             hist == [limit |-> Infinite, matched |-> 0, returned |-> 0,
                      limited |-> FALSE, acted |-> [i \in 1..ArgCount[m] |-> NULL],
                      last |-> [i \in 1..ArgCount[m] |-> NULL]]
  <2>1. new \in Expectation
    BY DEF Expectation, Infinite
  <2>2. [i \in 1..ArgCount[m] |-> NULL] \in Remembered(m)
    BY DEF Remembered
  <2>3. hist \in History
    <3>1. [i \in 1..ArgCount[m] |-> NULL] \in Memories
      BY <2>2 DEF Memories
    <3> QED
      BY <3>1 DEF History, Infinite
  <2>4. /\ expectations' = Append(expectations, new)
        /\ past' = Append(past, hist)
        /\ UNCHANGED invocations
    BY <1>2 DEF when
  <2>5. /\ new.arg_handlers = hs /\ new.mock = m
        /\ hist.acted \in Remembered(m) /\ hist.last \in Remembered(m)
    BY <2>2
  <2>6. /\ expectations \in Seq(Expectation) /\ past \in Seq(History)
        /\ Len(past) = Len(expectations)
        /\ \A e \in 1..Len(expectations) : Fits(e)
    BY DEF StubbingTypes
  <2> HIDE DEF new, hist
  <2>7. /\ expectations' \in Seq(Expectation) /\ past' \in Seq(History)
        /\ Len(expectations') = Len(expectations) + 1
        /\ Len(past') = Len(expectations')
        /\ expectations'[Len(expectations) + 1] = new
        /\ past'[Len(expectations) + 1] = hist
        /\ \A e \in 1..Len(expectations) :
             expectations'[e] = expectations[e] /\ past'[e] = past[e]
    BY <2>1, <2>3, <2>4, <2>6, Appended
  <2>8. \A e \in 1..Len(expectations') : Fits(e)'
    <3>1. ASSUME NEW e \in 1..Len(expectations) PROVE Fits(e)'
      BY <2>6, <2>7 DEF Fits
    <3>2. ASSUME NEW e \in 1..Len(expectations'), e = Len(expectations) + 1
          PROVE  Fits(e)'
      BY <3>2, <2>5, <2>6, <2>7 DEF Fits
    <3> QED
      BY <2>6, <2>7, <3>1, <3>2
  <2>9. \A i \in 1..Len(invocations) : invocations[i].expectation <= Len(expectations')
    <3>1. ASSUME NEW i \in 1..Len(invocations)
          PROVE  invocations[i].expectation <= Len(expectations')
      <4>1. invocations[i] \in Invocation
        BY DEF StubbingTypes
      <4>2. invocations[i].expectation \in Nat
        BY <4>1 DEF Invocation
      <4>3. invocations[i].expectation <= Len(expectations) /\ Len(expectations) \in Nat
        BY DEF StubbingTypes
      <4> QED
        BY <4>2, <4>3, <2>7
    <3> QED
      BY <3>1
  <2> QED
    BY <2>4, <2>6, <2>7, <2>8, <2>9 DEF StubbingTypes
<1>3. CASE mock_return_default
  <2>1. invocation_add(call.mock, 0) /\ UNCHANGED <<expectations, past>>
    BY <1>3 DEF mock_return_default
  <2>2. 0 \in 0..Len(expectations) /\ call.mock \in Mock
    BY <1>3 DEF StubbingTypes, CallTypes, mock_return_default
  <2>3. \A e \in 1..Len(expectations) : Fits(e)'
    BY <2>1 DEF Fits, StubbingTypes
  <2> QED
    BY <2>1, <2>2, <2>3, InvocationAdded DEF StubbingTypes
<1>4. CASE TakingStep
  <2> DEFINE e == call.e
  <2>1. PICK x \in Expectation, h \in History : CallWrites(x, h)
    BY <1>4, TakingWrites
  <2>2. e \in 1..Len(expectations) /\ e \in 0..Len(expectations)
    BY <1>4, TakingWrites
  <2>3. /\ expectations' = [expectations EXCEPT ![e] = x]
        /\ past' = [past EXCEPT ![e] = h]
        /\ x.mock = expectations[e].mock
        /\ x.arg_handlers = expectations[e].arg_handlers
        /\ h.acted \in Remembered(x.mock) /\ h.last \in Remembered(x.mock)
    BY <2>1 DEF CallWrites
  <2>4. \/ UNCHANGED invocations
        \/ invocation_add(call.mock, e) /\ call.mock \in Mock
    BY <1>4 DEF TakingStep, args_match, arg_handler_matched, mock_return,
       mock_return_wrong_size, objects, StubbingTypes, CallTypes
  <2> HIDE DEF e
  <2>5. /\ expectations' \in Seq(Expectation)
        /\ past' \in Seq(History)
        /\ Len(expectations') = Len(expectations)
        /\ Len(past') = Len(expectations')
        /\ \A f \in 1..Len(expectations') : Fits(f)'
    BY <2>2, <2>3, ExpectationReplaced
  <2>6. /\ invocations' \in Seq(Invocation)
        /\ \A i \in 1..Len(invocations') : invocations'[i].expectation <= Len(expectations)
    BY <2>2, <2>4, InvocationAdded DEF StubbingTypes
  <2> QED
    BY <2>5, <2>6 DEF StubbingTypes
<1>5. ASSUME NEW e \in DOMAIN expectations, NEW times \in Int,
             SetTimes(e, times), UNCHANGED invocations
      PROVE  StubbingTypes'
  <2>1. e \in 1..Len(expectations)
    BY DEF StubbingTypes
  <2>2. PICK x \in Expectation, h \in History :
          /\ expectations' = [expectations EXCEPT ![e] = x]
          /\ past' = [past EXCEPT ![e] = h]
          /\ x.mock = expectations[e].mock
          /\ x.arg_handlers = expectations[e].arg_handlers
          /\ h.acted = past[e].acted /\ h.last = past[e].last
    BY <1>5, <2>1, TimesSet
  <2>3. h.acted \in Remembered(x.mock) /\ h.last \in Remembered(x.mock)
    BY <2>1, <2>2 DEF StubbingTypes, Fits
  <2>4. /\ expectations' \in Seq(Expectation)
        /\ past' \in Seq(History)
        /\ Len(expectations') = Len(expectations)
        /\ Len(past') = Len(expectations')
        /\ \A f \in 1..Len(expectations') : Fits(f)'
    BY <2>1, <2>2, <2>3, ExpectationReplaced
  <2> QED
    BY <1>5, <2>4 DEF StubbingTypes
<1>6. ASSUME NEW e \in DOMAIN expectations, NEW size \in Sizes, do_return(e, size)
      PROVE  StubbingTypes'
  <2> DEFINE x == [expectations[e] EXCEPT !.return_value = size]
             h == past[e]
  <2>1. /\ e \in 1..Len(expectations)
        /\ expectations[e] \in Expectation /\ h \in History
    BY DEF StubbingTypes
  <2>2. /\ x \in Expectation /\ x.mock = expectations[e].mock
        /\ x.arg_handlers = expectations[e].arg_handlers
    BY <2>1 DEF Expectation
  <2>3. /\ expectations' = [expectations EXCEPT ![e] = x]
        /\ past' = [past EXCEPT ![e] = h]
        /\ UNCHANGED invocations
    BY <1>6, <2>1 DEF do_return, StubbingTypes
  <2>4. h.acted \in Remembered(x.mock) /\ h.last \in Remembered(x.mock)
    BY <2>1, <2>2 DEF StubbingTypes, Fits
  <2> HIDE DEF x, h
  <2>5. /\ expectations' \in Seq(Expectation)
        /\ past' \in Seq(History)
        /\ Len(expectations') = Len(expectations)
        /\ Len(past') = Len(expectations')
        /\ \A f \in 1..Len(expectations') : Fits(f)'
    BY <2>1, <2>2, <2>3, <2>4, ExpectationReplaced
  <2> QED
    BY <2>3, <2>5 DEF StubbingTypes
<1>7. CASE run_verifier
  <2>1. UNCHANGED <<expectations, past>>
    BY <1>7 DEF run_verifier
  <2>2. /\ invocations' \in Seq(Invocation)
        /\ Len(invocations') = Len(invocations)
        /\ \A i \in 1..Len(invocations) :
             invocations'[i].expectation = invocations[i].expectation
    BY <1>7, RunVerifierMarks
  <2>3. \A e \in 1..Len(expectations) : Fits(e)'
    BY <2>1 DEF Fits, StubbingTypes
  <2> QED
    BY <2>1, <2>2, <2>3 DEF StubbingTypes
<1>8. CASE UNCHANGED <<expectations, past, invocations>>
  BY <1>8 DEF StubbingTypes, Fits
<1> QED
  BY <1>1, <1>2, <1>3, <1>4, <1>5, <1>6, <1>7, <1>8, StubbingCases
  DEF StubbingStep, do_times, in_order_verify, MockAssumption

\* Every step keeps the types.
LEMMA StubbingTypesStep ==
  ASSUME MockAssumption, StubbingTypes, [Next]_vars
  PROVE  StubbingTypes'
  BY CallTypesStep, ListTypesStep

-----------------------------------------------------------------------------
(* Stubbing *)

Answers(e) ==
  past[e].limit >= 0 =>
    /\ expectations[e].times >= 0
    /\ past[e].returned + expectations[e].times = past[e].limit

Uncalled(e) == \A i \in 1..Len(invocations) : invocations[i].expectation # e

\* The handlers of an expectation are acting on a call.
Busy(e) == call.at = "matched" /\ call.e = e

\* The handlers before the one args_matched is at have acted on the call that
\* runs, the others on the last that was recorded.
ActsRight(e) ==
  LET hs == expectations[e].arg_handlers
      m  == expectations[e].mock
  IN  /\ \A i \in 1..ArgCount[m] :
           past[e].acted[i] = IF ~hs[i].acts THEN NULL
                              ELSE IF Busy(e) /\ i < call.i THEN call.args[i]
                              ELSE past[e].last[i]
      /\ ~Uncalled(e) => \A i \in 1..ArgCount[m] : past[e].last[i] \in hs[i].accepts

Shadow(e, f) == e < f /\ Covers(e, f) /\ ~past[e].limited

\* What is true of each expectation by itself.  An expectation that was never
\* limited answers for ever.
Good(e) ==
  /\ Answers(e)
  /\ ~past[e].limited => expectations[e].times = Infinite
  /\ ActsRight(e)

\* The reference for the two loops: expectation f takes the call.
Takes(f) ==
  /\ Considers(f)
  /\ \A i \in 1..ArgCount[call.mock] :
       call.args[i] \in expectations[f].arg_handlers[i].accepts

\* What the loops have found when they are at an expectation and an argument.
CallGood ==
  call.at # "none" =>
    /\ \A f \in 1..(call.e - 1) : ~Takes(f)
    /\ call.at = "match" =>
         \A j \in 1..(call.i - 1) :
           call.args[j] \in expectations[call.e].arg_handlers[j].accepts
    /\ call.at = "matched" => Takes(call.e)

ListsGood ==
  /\ \A e \in 1..Len(expectations) : Good(e)
  /\ \A e, f \in 1..Len(expectations) : Shadow(e, f) => Uncalled(f)

(***************************************************************************)
(* The inductive invariant of stubbing.  It adds to the properties what    *)
(* the loops of a call have established, and that an expectation that was  *)
(* never limited has no limit, for otherwise an exhausted one could let a  *)
(* shadowed one answer.                                                    *)
(***************************************************************************)
StubbingInv == StubbingTypes /\ CallGood /\ ListsGood

\* Each test of the two loops adds what it says to what they have found.
LEMMA CallGoodStep ==
  ASSUME MockAssumption, StubbingTypes, CallGood, [Next]_vars
  PROVE  CallGood'
<1>1. /\ call \in CallRecord
      /\ call.e \in Nat /\ call.i \in Nat /\ CallTypes
  BY DEF StubbingTypes, CallTypes, CallRecord
<1>2. NoCall.at = "none"
  BY DEF NoCall
<1>3. CASE call.at = "none"
  <2>1. CASE call' = call
    BY <1>3, <2>1 DEF CallGood
  <2>2. ASSUME NEW m \in Mock, NEW args \in Args(m), mock_invoke(m, args)
        PROVE  CallGood'
    <3>1. call'.at = "match" /\ call'.e = 1 /\ call'.i = 1
      BY <2>2 DEF mock_invoke
    <3> QED
      BY <3>1 DEF CallGood
  <2> QED
    BY <1>3, <2>1, <2>2, IdleCases
<1>4. CASE call.at # "none"
  <2>1. /\ call.e \in 1..(Len(expectations) + 1)
        /\ call.i \in 1..(ArgCount[call.mock] + 1)
        /\ ArgCount[call.mock] \in Nat
    BY <1>1, <1>4 DEF CallTypes, MockAssumption
  <2>2. \A f \in 1..(call.e - 1) : ~Takes(f)
    BY <1>4 DEF CallGood
  <2>3. ASSUME UNCHANGED expectations, call'.mock = call.mock, call'.args = call.args
        PROVE  \A f : Takes(f)' <=> Takes(f)
    BY <2>3 DEF Takes, Considers
  <2>4. ASSUME UNCHANGED expectations, call' = NextExpectation, Matching, ~Takes(call.e)
        PROVE  CallGood'
    <3>1. /\ call'.at = "match" /\ call'.mock = call.mock
          /\ call'.args = call.args /\ call'.e = call.e + 1 /\ call'.i = 1
      BY <1>1, <2>4, CallMoves DEF Matching
    <3>2. \A f \in 1..(call'.e - 1) : ~Takes(f)'
      <4>1. \A f \in 1..(call'.e - 1) : f \in 1..(call.e - 1) \/ f = call.e
        BY <1>1, <3>1
      <4> QED
        BY <2>2, <2>3, <2>4, <3>1, <4>1
    <3> QED
      BY <3>1, <3>2 DEF CallGood
  <2>5. CASE skip_expectation
    BY <2>4, <2>5 DEF skip_expectation, objects, Takes
  <2>6. CASE arg_handler_test
    <3>1. /\ UNCHANGED expectations /\ Matching /\ Considers(call.e)
          /\ call.i <= ArgCount[call.mock]
          /\ call' = IF Accepted THEN [call EXCEPT !.i = @ + 1] ELSE NextExpectation
      BY <2>6 DEF arg_handler_test, objects, MoreArgs
    <3>2. CASE ~Accepted
      <4>1. call.i \in 1..ArgCount[call.mock]
        BY <2>1, <3>1
      <4>2. ~Takes(call.e)
        BY <3>2, <4>1 DEF Takes, Accepted
      <4> QED
        BY <2>4, <3>1, <3>2, <4>2
    <3>3. CASE Accepted
      <4>1. /\ call'.at = "match" /\ call'.mock = call.mock
            /\ call'.args = call.args /\ call'.e = call.e /\ call'.i = call.i + 1
        BY <1>1, <3>1, <3>3, CallMoves DEF Matching
      <4>2. \A j \in 1..(call'.i - 1) : j \in 1..(call.i - 1) \/ j = call.i
        BY <1>1, <4>1
      <4>3. \A j \in 1..(call.i - 1) :
              call.args[j] \in expectations[call.e].arg_handlers[j].accepts
        BY <3>1 DEF CallGood, Matching
      <4>4. \A j \in 1..(call'.i - 1) :
              call'.args[j] \in expectations'[call'.e].arg_handlers[j].accepts
        BY <3>1, <3>3, <4>1, <4>2, <4>3 DEF Accepted
      <4>5. \A f \in 1..(call'.e - 1) : ~Takes(f)'
        BY <2>2, <2>3, <3>1, <4>1
      <4> QED
        BY <4>1, <4>4, <4>5 DEF CallGood
    <3> QED
      BY <3>2, <3>3
  <2>7. CASE args_match
    <3>1. /\ UNCHANGED expectations /\ Matching /\ Considers(call.e)
          /\ ~(call.i <= ArgCount[call.mock])
          /\ call' = [call EXCEPT !.at = "matched", !.i = 1]
      BY <2>7 DEF args_match, objects, MoreArgs
    <3>2. /\ call'.at = "matched" /\ call'.mock = call.mock
          /\ call'.args = call.args /\ call'.e = call.e
      BY <1>1, <3>1, CallMoves
    <3>3. call.i - 1 = ArgCount[call.mock]
      BY <2>1, <3>1
    <3>4. Takes(call.e)
      BY <3>1, <3>3 DEF Takes, CallGood, Matching
    <3>5. \A f \in 1..(call'.e - 1) : ~Takes(f)'
      BY <2>2, <2>3, <3>1, <3>2
    <3>6. Takes(call.e)'
      BY <2>3, <3>1, <3>2, <3>4
    <3> QED
      BY <3>2, <3>5, <3>6 DEF CallGood
  <2>8. CASE arg_handler_matched
    <3>1. /\ UNCHANGED expectations /\ call.at = "matched"
          /\ call' = [call EXCEPT !.i = @ + 1]
      BY <2>8 DEF arg_handler_matched, objects
    <3>2. /\ call'.at = "matched" /\ call'.mock = call.mock
          /\ call'.args = call.args /\ call'.e = call.e
      BY <1>1, <3>1, CallMoves
    <3>3. Takes(call.e)
      BY <3>1 DEF CallGood
    <3>4. \A f \in 1..(call'.e - 1) : ~Takes(f)'
      BY <2>2, <2>3, <3>1, <3>2
    <3>5. Takes(call.e)'
      BY <2>3, <3>1, <3>2, <3>3
    <3> QED
      BY <3>2, <3>4, <3>5 DEF CallGood
  <2>9. CASE mock_return \/ mock_return_wrong_size \/ mock_return_default
    <3>1. call' = NoCall
      BY <2>9 DEF mock_return, mock_return_wrong_size, mock_return_default
    <3> QED
      BY <1>2, <3>1 DEF CallGood
  <2>10. CASE UNCHANGED vars
    BY <2>10 DEF vars, objects, CallGood, Takes, Considers
  <2> QED
    BY <1>1, <1>4, <2>5, <2>6, <2>7, <2>8, <2>9, <2>10, CallCases DEF TakingStep
<1> QED
  BY <1>3, <1>4

\* A step that leaves an expectation and its calls alone leaves it good.
LEMMA GoodKept ==
  ASSUME NEW e, Good(e), expectations'[e] = expectations[e], past'[e] = past[e],
         Uncalled(e) => Uncalled(e)', ~Busy(e), ~Busy(e)'
  PROVE  Good(e)'
  BY DEF Good, Answers, ActsRight

\* An expectation shadows another after a step only if it did before.
LEMMA ShadowKept ==
  ASSUME NEW e, NEW f, Shadow(e, f)',
         expectations'[e].mock = expectations[e].mock,
         expectations'[e].arg_handlers = expectations[e].arg_handlers,
         expectations'[f].mock = expectations[f].mock,
         expectations'[f].arg_handlers = expectations[f].arg_handlers,
         past[e].limited => past'[e].limited
  PROVE  Shadow(e, f)
  BY DEF Shadow, Covers

\* A new call is a call of the expectation that took it.
LEMMA UncalledKept ==
  ASSUME StubbingTypes, NEW m \in Mock, NEW e \in 0..Len(expectations),
         invocation_add(m, e), NEW f, Uncalled(f), f # e
  PROVE  Uncalled(f)'
<1>1. Len(invocations) \in Nat
  BY DEF StubbingTypes
<1> QED
  BY <1>1, InvocationAdded DEF Uncalled

\* One expectation changes: the others and what shadows what stay.
LEMMA OthersKept ==
  ASSUME StubbingTypes, ListsGood, NEW e \in 1..Len(expectations),
         NEW x \in Expectation, NEW h \in History,
         expectations' = [expectations EXCEPT ![e] = x],
         past' = [past EXCEPT ![e] = h],
         x.mock = expectations[e].mock,
         x.arg_handlers = expectations[e].arg_handlers,
         h.acted \in Remembered(x.mock), h.last \in Remembered(x.mock),
         past[e].limited => h.limited,
         StubbingTypes',
         Good(e)',
         \A f \in 1..Len(expectations) : f # e => (Uncalled(f) => Uncalled(f)'),
         \A f \in 1..Len(expectations) : f # e => ~Busy(f) /\ ~Busy(f)',
         (\E g \in 1..Len(expectations) : Shadow(g, e)) => Uncalled(e)'
  PROVE  ListsGood'
<1>1. /\ Len(expectations') = Len(expectations)
      /\ expectations'[e] = x /\ past'[e] = h
      /\ \A f \in 1..Len(expectations) :
           f # e => expectations'[f] = expectations[f] /\ past'[f] = past[f]
  BY ExpectationReplaced DEF ListsGood
<1>2. \A f \in 1..Len(expectations) : Good(f)'
  BY <1>1, GoodKept DEF ListsGood
<1>3. \A f \in 1..Len(expectations) :
        /\ expectations'[f].mock = expectations[f].mock
        /\ expectations'[f].arg_handlers = expectations[f].arg_handlers
        /\ past[f].limited => past'[f].limited
  BY <1>1
<1>4. ASSUME NEW g \in 1..Len(expectations), NEW f \in 1..Len(expectations), Shadow(g, f)'
      PROVE  Uncalled(f)'
  <2>1. Shadow(g, f)
    BY <1>3, <1>4, ShadowKept
  <2>2. Uncalled(f)
    BY <2>1 DEF ListsGood
  <2> QED
    BY <2>1, <2>2
<1> QED
  BY <1>1, <1>2, <1>4 DEF ListsGood

\* The expectation a step changes and its history.
LEMMA Changed ==
  ASSUME StubbingTypes, NEW e \in 1..Len(expectations), NEW x, NEW h,
         expectations' = [expectations EXCEPT ![e] = x],
         past' = [past EXCEPT ![e] = h]
  PROVE  expectations'[e] = x /\ past'[e] = h
  BY DEF StubbingTypes

\* Every step keeps the limits, the shadows and the answers right.
LEMMA ListsGoodStep ==
  ASSUME MockAssumption, StubbingTypes, CallGood, ListsGood, [Next]_vars
  PROVE  ListsGood'
<1> USE DEF ListsGood
<1>0. /\ StubbingTypes /\ StubbingTypes' /\ Len(expectations) \in Nat
      /\ CallTypes /\ call \in CallRecord
  <2>1. StubbingTypes'
    BY StubbingTypesStep
  <2>2. CallTypes /\ Len(expectations) \in Nat
    BY DEF StubbingTypes
  <2>3. call \in CallRecord
    BY <2>2 DEF CallTypes
  <2> QED
    BY <2>1, <2>2, <2>3
<1>9. call.at = "none" => \A f : ~Busy(f) /\ ~Busy(f)'
  BY IdleCases DEF Busy, mock_invoke
<1>1. CASE mock_setup
  BY <1>0, <1>1 DEF mock_setup
<1>2. ASSUME NEW m \in Mock, NEW hs \in ArgHandlers(m), when(m, hs)
      PROVE  ListsGood'
  <2> DEFINE new == [mock |-> m, arg_handlers |-> hs, return_value |-> NULL,
                     times |-> Infinite]
             hist == [limit |-> Infinite, matched |-> 0, returned |-> 0,
                      limited |-> FALSE, acted |-> [i \in 1..ArgCount[m] |-> NULL],
                      last |-> [i \in 1..ArgCount[m] |-> NULL]]
  <2>1. /\ expectations' = Append(expectations, new)
        /\ past' = Append(past, hist)
        /\ UNCHANGED invocations
        /\ call.at = "none"
    BY <1>2 DEF when, UserRuns
  <2>2. /\ new.mock = m /\ new.times = Infinite /\ hist.limit = Infinite
        /\ \A i \in 1..ArgCount[m] : hist.acted[i] = NULL /\ hist.last[i] = NULL
    OBVIOUS
  <2> HIDE DEF new, hist
  <2>3. /\ Len(expectations') = Len(expectations) + 1
        /\ expectations'[Len(expectations) + 1] = new
        /\ past'[Len(expectations) + 1] = hist
        /\ \A e \in 1..Len(expectations) :
             expectations'[e] = expectations[e] /\ past'[e] = past[e]
    BY <1>0, <2>1 DEF StubbingTypes
  <2>4. \A e \in 1..Len(expectations) : Uncalled(e) => Uncalled(e)'
    BY <2>1 DEF Uncalled
  <2>5. \A e \in 1..Len(expectations) : Good(e)'
    BY <1>9, <2>1, <2>3, <2>4, GoodKept
  <2>6. \A i \in 1..Len(invocations) : invocations[i].expectation <= Len(expectations)
    BY <1>0 DEF StubbingTypes
  <2>7. ASSUME NEW e \in 1..Len(expectations'), e = Len(expectations) + 1
        PROVE  Good(e)' /\ Uncalled(e)'
    <3>1. Uncalled(e)'
      BY <1>0, <2>1, <2>6, <2>7 DEF Uncalled
    <3>2. Answers(e)'
      BY <2>2, <2>3, <2>7 DEF Answers, Infinite
    <3>4. ~Busy(e)'
      BY <1>9, <2>1
    <3>3. ActsRight(e)'
      BY <2>2, <2>3, <2>7, <3>1, <3>4 DEF ActsRight
    <3> QED
      BY <2>2, <2>3, <2>7, <3>1, <3>2, <3>3 DEF Good
  <2>8. ASSUME NEW e \in 1..Len(expectations'), NEW f \in 1..Len(expectations'),
               Shadow(e, f)'
        PROVE  Uncalled(f)'
    <3>1. CASE f = Len(expectations) + 1
      BY <2>7, <3>1
    <3>2. CASE f # Len(expectations) + 1
      <4>1. e \in 1..Len(expectations) /\ f \in 1..Len(expectations)
        BY <1>0, <2>3, <2>8, <3>2 DEF Shadow
      <4>2. Shadow(e, f)
        BY <2>3, <2>8, <4>1, ShadowKept
      <4> QED
        BY <2>4, <4>1, <4>2
    <3> QED
      BY <3>1, <3>2
  <2>9. \A e \in 1..Len(expectations') : e \in 1..Len(expectations) \/ e = Len(expectations) + 1
    BY <1>0, <2>3
  <2> QED
    BY <1>0, <2>5, <2>7, <2>8, <2>9
<1>3. CASE mock_return_default
  <2>1. invocation_add(call.mock, 0) /\ UNCHANGED <<expectations, past>>
    BY <1>3 DEF mock_return_default
  <2>2. /\ 0 \in 0..Len(expectations) /\ call.mock \in Mock
        /\ \A f : ~Busy(f) /\ ~Busy(f)'
    BY <1>0, <1>3 DEF CallTypes, mock_return_default, Busy, NoCall
  <2>3. \A e \in 1..Len(expectations) : Uncalled(e) => Uncalled(e)'
    BY <1>0, <2>1, <2>2, UncalledKept
  <2>4. \A e \in 1..Len(expectations) : Good(e)'
    BY <2>1, <2>2, <2>3, GoodKept
  <2>5. \A e, f \in 1..Len(expectations) : Shadow(e, f)' => Shadow(e, f)
    BY <2>1, ShadowKept
  <2> QED
    BY <1>0, <2>1, <2>3, <2>4, <2>5
<1>4. CASE TakingStep
  <2>0. PICK e, m : e = call.e /\ m = call.mock
    OBVIOUS
  <2> USE <2>0
  <2>1. PICK x \in Expectation, h \in History : CallWrites(x, h) /\ ArgumentsWritten(h)
    BY <1>0, <1>4, TakingWrites
  <2>2. e \in 1..Len(expectations) /\ m \in Mock /\ ArgCount[m] \in Nat
    <3>1. e \in 1..Len(expectations)
      BY <1>0, <1>4, TakingWrites
    <3>2. call.at # "none"
      BY <1>4 DEF TakingStep, args_match, arg_handler_matched, mock_return,
         mock_return_wrong_size, Matching
    <3> QED
      BY <1>0, <3>1, <3>2 DEF CallTypes, MockAssumption
  <2>3. /\ expectations' = [expectations EXCEPT ![e] = x]
        /\ past' = [past EXCEPT ![e] = h]
        /\ x.mock = m /\ expectations[e].mock = m
        /\ x.arg_handlers = expectations[e].arg_handlers
        /\ h.acted \in Remembered(x.mock) /\ h.last \in Remembered(x.mock)
        /\ h.limited = past[e].limited /\ h.limit = past[e].limit
    BY <2>1 DEF CallWrites
  <2>4. expectations'[e] = x /\ past'[e] = h
    BY <1>0, <2>2, <2>3, Changed
  <2>5. Good(e)
    BY <2>2
  <2>6. expectations[e].times \in Int /\ past[e].limit \in Int /\ past[e].returned \in Nat
    <3>1. expectations[e] \in Expectation /\ past[e] \in History
      BY <1>0, <2>2 DEF StubbingTypes
    <3> QED
      BY <3>1 DEF Expectation, History
  <2>7. expectations[e].times # 0
    BY <1>4 DEF TakingStep, args_match, arg_handler_matched, mock_return,
       mock_return_wrong_size, Considers, CallGood, Takes
  <2>8. \/ x.times = expectations[e].times /\ h.returned = past[e].returned
        \/ /\ x.times = Decremented(expectations[e].times)
           /\ h.returned = past[e].returned + 1
    BY <2>1 DEF CallWrites
  <2>9. Answers(e)'
    <3>1. Answers(e)
      BY <2>5 DEF Good
    <3>2. h.limit >= 0 => x.times >= 0 /\ h.returned + x.times = h.limit
      BY ONLY <2>3, <2>6, <2>7, <2>8, <3>1 DEF Answers, Decremented, Infinite
    <3> QED
      BY <2>4, <3>2 DEF Answers
  <2>10. ~h.limited => x.times = Infinite
    BY <2>3, <2>5, <2>8 DEF Good, Decremented, Infinite
  <2>11. \A f \in 1..Len(expectations) : f # e => ~Busy(f) /\ ~Busy(f)'
    <3>1. call'.e = e \/ call'.at = "none"
      BY <1>0, <1>4, CallMoves DEF TakingStep, args_match, arg_handler_matched, mock_return,
         mock_return_wrong_size
    <3> QED
      BY <3>1 DEF Busy
  <2>12. \A i \in 1..ArgCount[m] :
           past[e].acted[i] = IF ~expectations[e].arg_handlers[i].acts THEN NULL
                              ELSE IF Busy(e) /\ i < call.i THEN call.args[i]
                              ELSE past[e].last[i]
    BY <2>3, <2>5 DEF Good, ActsRight
  <2>13. CASE args_match \/ arg_handler_matched
    <3>1. UNCHANGED invocations
      BY <2>13 DEF args_match, arg_handler_matched, objects
    <3>2. \A f : Uncalled(f)' <=> Uncalled(f)
      BY <3>1 DEF Uncalled
    <3>3. h.last = past[e].last
      BY <2>1, <2>13 DEF ArgumentsWritten, args_match, arg_handler_matched, mock_return,
         mock_return_wrong_size, MoreArgs, Matching
    <3>4. \A i \in 1..ArgCount[m] :
            h.acted[i] = IF ~expectations[e].arg_handlers[i].acts THEN NULL
                         ELSE IF Busy(e)' /\ i < call'.i THEN call'.args[i]
                         ELSE h.last[i]
      <4>1. CASE args_match
        <5>1. call.at = "match" /\ call'.i = 1 /\ h.acted = past[e].acted
          BY <1>0, <2>1, <4>1, CallMoves DEF ArgumentsWritten, args_match, Matching,
             arg_handler_matched, mock_return, mock_return_wrong_size
        <5>2. ~Busy(e)
          BY <5>1 DEF Busy
        <5> QED
          BY <2>12, <3>3, <5>1, <5>2
      <4>2. CASE arg_handler_matched
        <5>1. /\ call.at = "matched" /\ call'.at = "matched" /\ call'.e = e
              /\ call'.i = call.i + 1 /\ call'.args = call.args
          BY <1>0, <4>2, CallMoves DEF arg_handler_matched
        <5>2. \A i \in 1..ArgCount[m] :
                h.acted[i] = IF i = call.i /\ expectations[e].arg_handlers[i].acts
                             THEN call.args[i] ELSE past[e].acted[i]
          BY <2>1, <4>2 DEF ArgumentsWritten, args_match, arg_handler_matched, mock_return,
             mock_return_wrong_size, Matching
        <5>3. Busy(e) /\ Busy(e)'
          BY <5>1 DEF Busy
        <5>4. call.i \in Nat
          BY <1>0 DEF CallRecord
        <5> QED
          BY ONLY <2>2, <2>12, <3>3, <5>1, <5>2, <5>3, <5>4
      <4> QED
        BY <2>13, <4>1, <4>2
    <3>5. ActsRight(e)'
      <4>1. ~Uncalled(e) => \A i \in 1..ArgCount[m] :
                              past[e].last[i] \in expectations[e].arg_handlers[i].accepts
        BY <2>3, <2>5 DEF Good, ActsRight
      <4> QED
        BY <2>3, <2>4, <3>2, <3>3, <3>4, <4>1 DEF ActsRight
    <3>6. Good(e)'
      BY <2>4, <2>9, <2>10, <3>5 DEF Good
    <3>7. (\E g \in 1..Len(expectations) : Shadow(g, e)) => Uncalled(e)'
      BY <2>2, <3>2
    <3> QED
      BY <1>0, <2>2, <2>3, <2>11, <3>2, <3>6, <3>7, OthersKept
  <2>14. CASE mock_return \/ mock_return_wrong_size
    <3>1. /\ call.at = "matched" /\ invocation_add(m, e)
          /\ ~(call.i <= ArgCount[m]) /\ call'.at = "none"
      BY <2>14 DEF mock_return, mock_return_wrong_size, MoreArgs, NoCall
    <3>2. Takes(e) /\ \A g \in 1..(e - 1) : ~Takes(g)
      BY <3>1 DEF CallGood
    <3>3. \A i \in 1..ArgCount[m] :
            call.args[i] \in expectations[e].arg_handlers[i].accepts
      BY <3>2 DEF Takes
    <3>4. h.acted = past[e].acted /\ h.last = call.args
      BY <2>1, <2>14, <3>1 DEF ArgumentsWritten, args_match, arg_handler_matched,
         Matching, MoreArgs
    <3>5. call.i \in Nat
      BY <1>0 DEF CallRecord
    <3>6. Busy(e) /\ ~Busy(e)'
      BY <3>1 DEF Busy
    <3>7. \A i \in 1..ArgCount[m] : i < call.i
      BY <2>2, <3>1, <3>5
    <3>8. ActsRight(e)'
      <4> QED
        BY <2>3, <2>4, <2>12, <3>3, <3>4, <3>6, <3>7 DEF ActsRight
    <3>9. Good(e)'
      BY <2>4, <2>9, <2>10, <3>8 DEF Good
    <3>10. ASSUME NEW g \in 1..Len(expectations), Shadow(g, e)
           PROVE  FALSE
      <4>1. /\ g < e /\ expectations[g].mock = m
            /\ \A i \in 1..ArgCount[m] :
                 call.args[i] \in expectations[g].arg_handlers[i].accepts
        BY <2>3, <3>3, <3>10 DEF Shadow, Covers
      <4>2. expectations[g].times # 0
        BY <3>10 DEF Shadow, Good, Infinite
      <4>3. Takes(g)
        BY <4>1, <4>2 DEF Takes, Considers
      <4>4. g \in 1..(e - 1)
        BY <2>2, <4>1
      <4> QED
        BY <3>2, <4>3, <4>4
    <3>11. e \in 0..Len(expectations)
      BY <2>2
    <3>12. \A f \in 1..Len(expectations) : f # e => (Uncalled(f) => Uncalled(f)')
      BY <1>0, <2>2, <3>1, <3>11, UncalledKept
    <3> QED
      BY <1>0, <2>2, <2>3, <2>11, <3>9, <3>10, <3>12, OthersKept
  <2> QED
    BY <1>4, <2>13, <2>14 DEF TakingStep
<1>5. ASSUME NEW e \in DOMAIN expectations, NEW times \in Int,
             SetTimes(e, times), UNCHANGED invocations, UserRuns
      PROVE  ListsGood'
  <2>1. e \in 1..Len(expectations)
    BY <1>0 DEF StubbingTypes
  <2>2. PICK x \in Expectation, h \in History :
          /\ expectations' = [expectations EXCEPT ![e] = x]
          /\ past' = [past EXCEPT ![e] = h]
          /\ x.mock = expectations[e].mock
          /\ x.arg_handlers = expectations[e].arg_handlers
          /\ h.acted = past[e].acted /\ h.last = past[e].last
          /\ x.times = times /\ h.limit = times /\ h.returned = 0
          /\ h.limited = (past[e].limited \/ times # Infinite)
    BY <1>0, <1>5, <2>1, TimesSet
  <2>3. h.acted \in Remembered(x.mock) /\ h.last \in Remembered(x.mock)
    BY <1>0, <2>1, <2>2 DEF StubbingTypes, Fits
  <2>4. expectations'[e] = x /\ past'[e] = h
    BY <1>0, <2>1, <2>2, Changed
  <2>5. \A f \in 1..Len(expectations) : Uncalled(f) => Uncalled(f)'
    BY <1>5 DEF Uncalled
  <2>6. Uncalled(e)' <=> Uncalled(e)
    BY <1>5 DEF Uncalled
  <2>7. Good(e)
    BY <2>1
  <2>8. Answers(e)'
    BY <2>2, <2>4 DEF Answers
  <2>11. \A f : ~Busy(f) /\ ~Busy(f)'
    BY <1>5, <1>9 DEF UserRuns
  <2>9. ActsRight(e)'
    BY <2>2, <2>4, <2>6, <2>7, <2>11 DEF Good, ActsRight
  <2>10. Good(e)'
    BY <2>2, <2>4, <2>8, <2>9 DEF Good
  <2> QED
    BY <1>0, <2>1, <2>2, <2>3, <2>5, <2>6, <2>10, <2>11, OthersKept
<1>6. ASSUME NEW e \in DOMAIN expectations, NEW size \in Sizes, do_return(e, size)
      PROVE  ListsGood'
  <2> DEFINE x == [expectations[e] EXCEPT !.return_value = size]
             h == past[e]
  <2>1. /\ e \in 1..Len(expectations)
        /\ expectations[e] \in Expectation /\ h \in History
    BY <1>0 DEF StubbingTypes
  <2>2. /\ x \in Expectation /\ x.mock = expectations[e].mock
        /\ x.arg_handlers = expectations[e].arg_handlers
        /\ x.times = expectations[e].times
    BY <2>1 DEF Expectation
  <2>3. /\ expectations' = [expectations EXCEPT ![e] = x]
        /\ past' = [past EXCEPT ![e] = h]
        /\ UNCHANGED invocations
    BY <1>0, <1>6, <2>1 DEF do_return, StubbingTypes
  <2>4. h.acted \in Remembered(x.mock) /\ h.last \in Remembered(x.mock)
    BY <1>0, <2>1, <2>2 DEF StubbingTypes, Fits
  <2>5. h = past[e]
    OBVIOUS
  <2> HIDE DEF x, h
  <2>6. expectations'[e] = x /\ past'[e] = h
    BY <1>0, <2>1, <2>3, Changed
  <2>7. \A f \in 1..Len(expectations) : Uncalled(f) <=> Uncalled(f)'
    BY <2>3 DEF Uncalled
  <2>8. Good(e)
    BY <2>1
  <2>10. \A f : ~Busy(f) /\ ~Busy(f)'
    BY <1>6, <1>9 DEF do_return, UserRuns
  <2>9. Good(e)'
    BY <2>1, <2>2, <2>5, <2>6, <2>7, <2>8, <2>10 DEF Good, Answers, ActsRight
  <2> QED
    BY <1>0, <2>1, <2>2, <2>3, <2>4, <2>5, <2>7, <2>9, <2>10, OthersKept
<1>7. CASE run_verifier
  <2>1. UNCHANGED <<expectations, past>>
    BY <1>7 DEF run_verifier
  <2>2. \A e \in 1..Len(expectations) : Uncalled(e) => Uncalled(e)'
    BY <1>0, <1>7, RunVerifierMarks DEF Uncalled
  <2>5. \A f : ~Busy(f) /\ ~Busy(f)'
    BY <1>0, <1>7, <1>9 DEF CallTypes, InTest, run_verifier
  <2>3. \A e \in 1..Len(expectations) : Good(e)'
    BY <2>1, <2>2, <2>5, GoodKept
  <2>4. \A e, f \in 1..Len(expectations) : Shadow(e, f)' => Shadow(e, f)
    BY <2>1, ShadowKept
  <2> QED
    BY <1>0, <2>1, <2>2, <2>3, <2>4
<1>8. CASE UNCHANGED <<expectations, past, invocations>>
  <2>1. \A e \in 1..Len(expectations) : Uncalled(e) => Uncalled(e)'
    BY <1>8 DEF Uncalled
  <2>2. \A e \in 1..Len(expectations) : Good(e)'
    <3>1. CASE UNCHANGED vars
      BY <3>1 DEF vars, objects, Good, Answers, ActsRight, Uncalled, Busy
    <3>2. CASE call.at = "none" \/ skip_expectation \/ arg_handler_test
      <4>1. \A f : ~Busy(f) /\ ~Busy(f)'
        BY <1>0, <1>9, <3>2, CallMoves DEF skip_expectation, arg_handler_test, Matching, Busy
      <4> QED
        BY <1>8, <2>1, <4>1, GoodKept
    <3>3. CASE mock_return_default
      BY <1>3, <1>8, <3>3
    <3>4. CASE TakingStep
      BY <1>4, <1>8, <3>4
    <3> QED
      BY <1>0, <3>1, <3>2, <3>3, <3>4, CallCases
  <2>3. \A e, f \in 1..Len(expectations) : Shadow(e, f)' => Shadow(e, f)
    BY <1>8, ShadowKept
  <2> QED
    BY <1>0, <1>8, <2>1, <2>2, <2>3
<1> QED
  BY <1>1, <1>2, <1>3, <1>4, <1>5, <1>6, <1>7, <1>8, StubbingCases
  DEF StubbingStep, do_times, in_order_verify, MockAssumption

\* Every step keeps the invariant.
LEMMA StubbingInvStep ==
  ASSUME MockAssumption, StubbingInv, [Next]_vars
  PROVE  StubbingInv'
  BY StubbingTypesStep, CallGoodStep, ListsGoodStep DEF StubbingInv

\* A program starts with no lists and no call.
LEMMA InitStubbing == Init => StubbingInv
<1> SUFFICES ASSUME Init PROVE StubbingInv
  OBVIOUS
<1>1. << >> \in Arguments
  BY DEF Arguments
<1>2. call \in CallRecord /\ call.at = "none"
  BY <1>1 DEF Init, NoCall, CallRecord
<1>3. CallTypes /\ CallGood
  BY <1>2 DEF CallTypes, CallGood
<1> QED
  BY <1>3 DEF Init, StubbingInv, StubbingTypes, ListsGood

\* What is recorded of the calls is what the expectations did, in every test.
THEOREM StubbingInvHolds == Spec => []StubbingInv
<1>1. Init => StubbingInv
  BY InitStubbing
<1>2. StubbingInv /\ [Next]_vars => StubbingInv'
  BY MockAssumption, StubbingInvStep
<1> QED
  BY <1>1, <1>2, PTL DEF Spec

\* What is left of the limit of an expectation is exact, whatever happens.
THEOREM AnswersStayWithinLimit == Spec => []AnswersWithinLimit
<1>1. StubbingInv => AnswersWithinLimit
  BY DEF StubbingInv, ListsGood, StubbingTypes, Good, Answers, AnswersWithinLimit
<1> QED
  BY <1>1, StubbingInvHolds, PTL

\* The first expectation that takes a call answers, so one it covers is dead.
THEOREM TheFirstAnswers == Spec => []ShadowedNeverAnswers
<1>1. StubbingInv => ShadowedNeverAnswers
  BY DEF StubbingInv, ListsGood, StubbingTypes, Shadow, Uncalled, CallsOf, ShadowedNeverAnswers
<1> QED
  BY <1>1, StubbingInvHolds, PTL

\* What was written through or captured comes from the last recorded call, and
\* every argument of that call was accepted; for any number of arguments.
THEOREM HandlersActRight == Spec => []HandlersActOnTakenCalls
<1>1. StubbingInv => HandlersActOnTakenCalls
  <2> SUFFICES ASSUME StubbingInv, NEW e \in DOMAIN expectations
               PROVE  LET hs == expectations[e].arg_handlers IN
                      /\ ~(call.at = "matched" /\ call.e = e) =>
                           \A i \in DOMAIN hs :
                             past[e].acted[i] = IF hs[i].acts THEN past[e].last[i] ELSE NULL
                      /\ CallsOf(e) # {} =>
                           \A i \in DOMAIN hs : past[e].last[i] \in hs[i].accepts
    BY DEF HandlersActOnTakenCalls
  <2>1. e \in 1..Len(expectations) /\ Good(e) /\ Fits(e)
    BY DEF StubbingInv, ListsGood, StubbingTypes
  <2>2. DOMAIN expectations[e].arg_handlers = 1..ArgCount[expectations[e].mock]
    BY <2>1 DEF Fits, ArgHandlers
  <2>3. CallsOf(e) # {} => ~Uncalled(e)
    BY DEF StubbingInv, StubbingTypes, CallsOf, Uncalled
  <2> QED
    BY <2>1, <2>2, <2>3 DEF Good, ActsRight, Busy
<1> QED
  BY <1>1, StubbingInvHolds, PTL

-----------------------------------------------------------------------------
(* The scan of an order *)

\* The first n expectations of order are found, in that order, in the first i
\* of the calls c.
Embeds(c, order, n, i) ==
  \E at \in [1..n -> 1..i] :
    /\ \A j, k \in 1..n : j < k => at[j] < at[k]
    /\ \A k \in 1..n : c[at[k]] = order[k]

\* The empty order is found in any calls.
LEMMA EmbedsNothing ==
  ASSUME NEW c, NEW order, NEW i \in Nat
  PROVE  Embeds(c, order, 0, i)
<1>1. [k \in 1..0 |-> 0] \in [1..0 -> 1..i]
  OBVIOUS
<1>2. 1..0 = {}
  OBVIOUS
<1> QED
  BY <1>1, <1>2 DEF Embeds

\* Only the empty order is found in no calls.
LEMMA EmbedsInNothing ==
  ASSUME NEW c, NEW order, NEW n \in Nat \ {0}
  PROVE  ~Embeds(c, order, n, 0)
<1>1. 1..0 = {} /\ 1 \in 1..n
  OBVIOUS
<1> QED
  BY <1>1 DEF Embeds

(***************************************************************************)
(* One call more finds one expectation more exactly when it is a call of   *)
(* the next in the order.                                                  *)
(***************************************************************************)
LEMMA EmbedsStep ==
  ASSUME NEW c, NEW order, NEW n \in Nat, NEW i \in Nat
  PROVE  Embeds(c, order, n + 1, i + 1) <=>
           \/ Embeds(c, order, n + 1, i)
           \/ Embeds(c, order, n, i) /\ c[i + 1] = order[n + 1]
<1>1. ASSUME Embeds(c, order, n + 1, i) PROVE Embeds(c, order, n + 1, i + 1)
  <2>1. PICK at \in [1..(n + 1) -> 1..i] :
          /\ \A j, k \in 1..(n + 1) : j < k => at[j] < at[k]
          /\ \A k \in 1..(n + 1) : c[at[k]] = order[k]
    BY <1>1 DEF Embeds
  <2>2. at \in [1..(n + 1) -> 1..(i + 1)]
    OBVIOUS
  <2> QED
    BY <2>1, <2>2 DEF Embeds
<1>2. ASSUME Embeds(c, order, n, i), c[i + 1] = order[n + 1]
      PROVE  Embeds(c, order, n + 1, i + 1)
  <2>1. PICK at \in [1..n -> 1..i] :
          /\ \A j, k \in 1..n : j < k => at[j] < at[k]
          /\ \A k \in 1..n : c[at[k]] = order[k]
    BY <1>2 DEF Embeds
  <2> DEFINE up == [k \in 1..(n + 1) |-> IF k <= n THEN at[k] ELSE i + 1]
  <2>2. up \in [1..(n + 1) -> 1..(i + 1)]
    OBVIOUS
  <2>3. \A k \in 1..(n + 1) : up[k] = IF k <= n THEN at[k] ELSE i + 1
    OBVIOUS
  <2> HIDE DEF up
  <2>4. ASSUME NEW j \in 1..(n + 1), NEW k \in 1..(n + 1), j < k
        PROVE  up[j] < up[k]
    <3>1. j \in 1..n /\ up[j] = at[j] /\ at[j] \in 1..i
      BY <2>3, <2>4
    <3>2. CASE k <= n
      BY <2>1, <2>3, <2>4, <3>1, <3>2
    <3>3. CASE ~(k <= n)
      BY <2>3, <3>1, <3>3
    <3> QED
      BY <3>2, <3>3
  <2>5. ASSUME NEW k \in 1..(n + 1)
        PROVE  c[up[k]] = order[k]
    <3>1. CASE k <= n
      BY <2>1, <2>3, <3>1
    <3>2. CASE ~(k <= n)
      <4>1. k = n + 1 /\ up[k] = i + 1
        BY <2>3, <3>2
      <4> QED
        BY <1>2, <4>1
    <3> QED
      BY <3>1, <3>2
  <2> QED
    BY <2>2, <2>4, <2>5 DEF Embeds
<1>3. ASSUME Embeds(c, order, n + 1, i + 1), ~Embeds(c, order, n + 1, i)
      PROVE  Embeds(c, order, n, i) /\ c[i + 1] = order[n + 1]
  <2>1. PICK at \in [1..(n + 1) -> 1..(i + 1)] :
          /\ \A j, k \in 1..(n + 1) : j < k => at[j] < at[k]
          /\ \A k \in 1..(n + 1) : c[at[k]] = order[k]
    BY <1>3 DEF Embeds
  <2>2. n + 1 \in 1..(n + 1)
    OBVIOUS
  <2>3. \A k \in 1..n : at[k] \in 1..(i + 1) /\ at[k] < at[n + 1]
    BY <2>1, <2>2
  <2>4. at[n + 1] = i + 1
    <3> SUFFICES ASSUME at[n + 1] # i + 1 PROVE FALSE
      OBVIOUS
    <3>1. \A k \in 1..(n + 1) : at[k] \in 1..i
      BY <2>2, <2>3
    <3>2. at \in [1..(n + 1) -> 1..i]
      BY <3>1
    <3> QED
      BY <1>3, <2>1, <3>2 DEF Embeds
  <2> DEFINE down == [k \in 1..n |-> at[k]]
  <2>5. \A k \in 1..n : at[k] \in 1..i
    BY <2>3, <2>4
  <2>6. down \in [1..n -> 1..i]
    BY <2>5
  <2>7. \A k \in 1..n : k \in 1..(n + 1) /\ down[k] = at[k]
    OBVIOUS
  <2> HIDE DEF down
  <2>8. Embeds(c, order, n, i)
    BY <2>1, <2>6, <2>7 DEF Embeds
  <2> QED
    BY <2>1, <2>2, <2>4, <2>8
<1> QED
  BY <1>1, <1>2, <1>3

\* What the loop of do_in_order_verification does with call i.
ScanStep(c, order, i, r) ==
  IF r.found < Len(order) /\ order[r.found + 1] = c[i]
  THEN [found |-> r.found + 1, at |-> r.at \cup {i}]
  ELSE r

\* s are the results of the loop after each of n calls.
IsScan(s, c, order, n) ==
  /\ s \in [0..n -> [found : 0..Len(order), at : SUBSET (1..n)]]
  /\ s[0] = [found |-> 0, at |-> {}]
  /\ \A i \in 1..n : s[i] = ScanStep(c, order, i, s[i - 1])

(***************************************************************************)
(* The loop finds as much of the order as can be found in the calls.       *)
(***************************************************************************)
LEMMA ScanFindsMost ==
  ASSUME NEW n \in Nat, NEW c, NEW order \in Seq(Nat), NEW s, IsScan(s, c, order, n)
  PROVE  \A i \in 0..n : \A k \in 0..Len(order) :
           Embeds(c, order, k, i) <=> k <= s[i].found
<1> DEFINE S == {i \in 0..n : \A k \in 0..Len(order) :
                                Embeds(c, order, k, i) <=> k <= s[i].found}
<1>0. \A i \in 0..n : s[i] \in [found : 0..Len(order), at : SUBSET (1..n)]
  BY DEF IsScan
<1>1. 0 \in S
  <2>1. s[0].found = 0
    BY DEF IsScan
  <2>2. \A k \in 0..Len(order) : k # 0 => ~Embeds(c, order, k, 0)
    BY EmbedsInNothing
  <2>3. Embeds(c, order, 0, 0)
    BY EmbedsNothing
  <2> QED
    BY <2>1, <2>2, <2>3
<1>2. ASSUME NEW i \in 0..(n - 1), i \in S PROVE i + 1 \in S
  <2>1. i + 1 \in 1..n /\ i \in 0..n /\ i + 1 \in 0..n /\ (i + 1) - 1 = i
    OBVIOUS
  <2> DEFINE f == s[i].found
             g == s[i + 1].found
  <2>2. f \in 0..Len(order) /\ g \in 0..Len(order) /\ Len(order) \in Nat
    BY <1>0, <2>1
  <2>3. s[i + 1] = ScanStep(c, order, i + 1, s[i])
    BY <2>1 DEF IsScan
  <2>4. g = IF f < Len(order) /\ order[f + 1] = c[i + 1] THEN f + 1 ELSE f
    BY <2>3 DEF ScanStep
  <2>5. \A k \in 0..Len(order) : Embeds(c, order, k, i) <=> k <= f
    BY <1>2
  <2> HIDE DEF f, g
  <2>6. ASSUME NEW k \in 0..Len(order) PROVE Embeds(c, order, k, i + 1) <=> k <= g
    <3>1. CASE k = 0
      BY <2>1, <2>2, <3>1, EmbedsNothing
    <3>2. CASE k # 0
      <4>1. k - 1 \in Nat /\ k - 1 \in 0..Len(order) /\ (k - 1) + 1 = k
        BY <2>2, <3>2
      <4> DEFINE m == k - 1
      <4>2. m \in Nat /\ k = m + 1
        BY <4>1
      <4> HIDE DEF m
      <4>4. Embeds(c, order, m + 1, i + 1) <=>
              Embeds(c, order, m + 1, i) \/ (Embeds(c, order, m, i) /\ c[i + 1] = order[m + 1])
        <5>1. i \in Nat
          OBVIOUS
        <5> QED
          BY <4>2, <5>1, EmbedsStep, Zenon
      <4>3. Embeds(c, order, k, i + 1) <=> k <= f \/ (k - 1 <= f /\ c[i + 1] = order[k])
        <5>1. Embeds(c, order, m, i) <=> m <= f
          BY <2>5, <4>1 DEF m
        <5> QED
          BY <2>5, <4>2, <4>4, <5>1 DEF m
      <4> QED
        BY <2>2, <2>4, <4>1, <4>3
    <3> QED
      BY <3>1, <3>2
  <2> QED
    BY <2>1, <2>6 DEF g
<1>3. 0..n \subseteq S
  <2> HIDE DEF S
  <2> QED
    BY <1>1, <1>2, IntervalInduction
<1> QED
  BY <1>3

(***************************************************************************)
(* The calls the loop stops at are those that complete one more expectation*)
(* of the order.                                                           *)
(***************************************************************************)
LEMMA ScanMarks ==
  ASSUME NEW n \in Nat, NEW c, NEW order \in Seq(Nat), NEW s, IsScan(s, c, order, n)
  PROVE  \A i \in 0..n : \A j \in 1..n :
           j \in s[i].at <=>
             j <= i /\ \E k \in 1..Len(order) :
                         Embeds(c, order, k, j) /\ ~Embeds(c, order, k, j - 1)
<1> DEFINE Completed(j) == \E k \in 1..Len(order) :
                             Embeds(c, order, k, j) /\ ~Embeds(c, order, k, j - 1)
           S == {i \in 0..n : \A j \in 1..n : j \in s[i].at <=> j <= i /\ Completed(j)}
<1>0. /\ \A i \in 0..n : s[i] \in [found : 0..Len(order), at : SUBSET (1..n)]
      /\ Len(order) \in Nat
  BY DEF IsScan
<1>1. 0 \in S
  <2>1. s[0].at = {}
    BY DEF IsScan
  <2> QED
    BY <2>1
<1>2. ASSUME NEW i \in 0..(n - 1), i \in S PROVE i + 1 \in S
  <2>1. i + 1 \in 1..n /\ i \in 0..n /\ i + 1 \in 0..n /\ (i + 1) - 1 = i
    OBVIOUS
  <2>2. s[i + 1] = ScanStep(c, order, i + 1, s[i])
    BY <2>1 DEF IsScan
  <2>3. \A k \in 0..Len(order) :
          /\ Embeds(c, order, k, i) <=> k <= s[i].found
          /\ Embeds(c, order, k, i + 1) <=> k <= s[i + 1].found
    BY <2>1, ScanFindsMost
  <2>4. s[i].found \in 0..Len(order)
    BY <1>0, <2>1
  <2>5. CASE s[i].found < Len(order) /\ order[s[i].found + 1] = c[i + 1]
    <3>1. s[i + 1].found = s[i].found + 1 /\ s[i + 1].at = s[i].at \cup {i + 1}
      BY <2>2, <2>5 DEF ScanStep
    <3>2. s[i].found + 1 \in 1..Len(order) /\ s[i].found + 1 \in 0..Len(order)
      BY <1>0, <2>4, <2>5
    <3>3. Completed(i + 1)
      BY <1>0, <2>1, <2>3, <2>4, <3>1, <3>2
    <3> HIDE DEF Completed
    <3> QED
      BY <1>2, <2>1, <3>1, <3>3
  <2>6. CASE ~(s[i].found < Len(order) /\ order[s[i].found + 1] = c[i + 1])
    <3>1. s[i + 1] = s[i]
      BY <2>2, <2>6 DEF ScanStep
    <3>2. ~Completed(i + 1)
      BY <1>0, <2>1, <2>3, <3>1
    <3> HIDE DEF Completed
    <3> QED
      BY <1>2, <2>1, <3>1, <3>2
  <2> QED
    BY <2>5, <2>6
<1>3. 0..n \subseteq S
  <2> HIDE DEF S
  <2> QED
    BY <1>1, <1>2, IntervalInduction
<1> QED
  BY <1>3

Scanned(order, n) == [found : 0..Len(order), at : SUBSET (1..n)]

\* A step of the scan keeps its result a scan of the order.
LEMMA ScanStepIn ==
  ASSUME NEW n \in Nat, NEW c, NEW order \in Seq(Nat), NEW i \in 1..n,
         NEW r \in Scanned(order, n)
  PROVE  ScanStep(c, order, i, r) \in Scanned(order, n)
<1>1. r.found \in 0..Len(order) /\ r.at \in SUBSET (1..n) /\ Len(order) \in Nat
  BY DEF Scanned
<1>2. CASE r.found < Len(order) /\ order[r.found + 1] = c[i]
  <2>1. r.found + 1 \in 0..Len(order) /\ r.at \cup {i} \in SUBSET (1..n)
    BY <1>1, <1>2
  <2> QED
    BY <1>2, <2>1 DEF ScanStep, Scanned
<1>3. CASE ~(r.found < Len(order) /\ order[r.found + 1] = c[i])
  BY <1>3 DEF ScanStep
<1> QED
  BY <1>2, <1>3

\* The expectations that took the calls of the test.
Calls == [i \in 1..Len(invocations) |-> invocations[i].expectation]

(***************************************************************************)
(* InOrder is the result of the loop after the last call.                  *)
(***************************************************************************)
LEMMA InOrderScans ==
  ASSUME invocations \in Seq(Invocation), NEW order \in Seq(Nat)
  PROVE  \E s : /\ IsScan(s, Calls, order, Len(invocations))
               /\ InOrder(order) = s[Len(invocations)]
<1> DEFINE n  == Len(invocations)
           X  == Scanned(order, n)
           x0 == [found |-> 0, at |-> {}]
           round == [i \in 1..n |-> [r \in X |-> ScanStep(Calls, order, i, r)]]
           Rounds(g) == [i \in 0..n |->
             IF i = 0 THEN x0
             ELSE LET r == g[i - 1] IN
                  IF /\ r.found < Len(order)
                     /\ order[r.found + 1] = invocations[i].expectation
                  THEN [found |-> r.found + 1, at |-> r.at \cup {i}]
                  ELSE r]
           scan == CHOOSE g : g = Rounds(g)
<1>1. n \in Nat /\ Len(order) \in Nat
  OBVIOUS
<1>2. x0 \in X
  BY <1>1 DEF Scanned
<1>3. round \in [1..n -> [X -> X]]
  <2> HIDE DEF X, n
  <2>1. \A i \in 1..n : \A r \in X : ScanStep(Calls, order, i, r) \in X
    BY <1>1, ScanStepIn DEF X
  <2> QED
    BY <2>1
<1>4. PICK f : IsIteration(f, n, round, x0, X)
  <2> HIDE DEF X, n, x0, round
  <2> QED
    BY <1>1, <1>2, <1>3, IterationExists
<1>5. /\ f \in [0..n -> X]
      /\ f[0] = x0
      /\ \A i \in 1..n : f[i] = ScanStep(Calls, order, i, f[i - 1])
  <2> HIDE DEF X, n, x0
  <2>1. \A i \in 1..n : i - 1 \in 0..n
    BY <1>1
  <2>2. \A i \in 1..n : \A r \in X : round[i][r] = ScanStep(Calls, order, i, r)
    OBVIOUS
  <2> HIDE DEF round
  <2> QED
    BY <1>4, <2>1, <2>2 DEF IsIteration
<1>6. \A i \in 1..n : Calls[i] = invocations[i].expectation
  BY DEF Calls
<1>7. ASSUME NEW g, NEW i \in 1..n
       PROVE  Rounds(g)[i] = ScanStep(Calls, order, i, g[i - 1])
  <2>1. i \in 0..n /\ i # 0
    BY <1>1
  <2>2. CASE g[i - 1].found < Len(order) /\ order[g[i - 1].found + 1] = Calls[i]
    BY <1>6, <2>1, <2>2 DEF ScanStep
  <2>3. CASE ~(g[i - 1].found < Len(order) /\ order[g[i - 1].found + 1] = Calls[i])
    BY <1>6, <2>1, <2>3 DEF ScanStep
  <2> QED
    BY <2>2, <2>3
<1>8. \A g : Rounds(g)[0] = x0 /\ Rounds(g) = [i \in 0..n |-> Rounds(g)[i]]
  BY <1>1
<1>9. f = Rounds(f)
  <2> HIDE DEF Rounds, X, x0, n
  <2>1. ASSUME NEW i \in 0..n PROVE f[i] = Rounds(f)[i]
    <3>1. CASE i = 0
      BY <1>5, <1>8, <3>1
    <3>2. CASE i # 0
      <4>1. i \in 1..n
        BY <1>1, <3>2
      <4> QED
        BY <1>5, <1>7, <4>1
    <3> QED
      BY <3>1, <3>2
  <2>2. f = [i \in 0..n |-> f[i]]
    BY <1>5
  <2>3. [i \in 0..n |-> f[i]] = [i \in 0..n |-> Rounds(f)[i]]
    BY <2>1
  <2> QED
    BY <1>8, <2>2, <2>3
<1>10. scan = Rounds(scan)
  <2> HIDE DEF Rounds
  <2> QED
    BY <1>9
<1>11. IsScan(f, Calls, order, n)
  BY <1>5 DEF IsScan, Scanned
<1>12. /\ scan[0] = x0
       /\ \A i \in 1..n : scan[i] = ScanStep(Calls, order, i, scan[i - 1])
  <2> HIDE DEF scan, Rounds, X, x0, n
  <2> QED
    BY <1>10, <1>7, <1>8
<1>13. 0..n \subseteq {i \in 0..n : scan[i] = f[i]}
  <2> DEFINE S == {i \in 0..n : scan[i] = f[i]}
  <2> HIDE DEF n, X, x0, scan, Rounds
  <2>1. 0 \in S
    BY <1>1, <1>5, <1>12
  <2>2. ASSUME NEW i \in 0..(n - 1), i \in S PROVE i + 1 \in S
    <3>1. i + 1 \in 1..n /\ (i + 1) - 1 = i
      BY <1>1
    <3> QED
      BY <1>5, <1>12, <2>2, <3>1
  <2> HIDE DEF S
  <2>3. 0..n \subseteq S
    BY <1>1, <2>1, <2>2, IntervalInduction
  <2> QED
    BY <2>3 DEF S
<1>14. InOrder(order) = scan[n]
  BY DEF InOrder
<1> HIDE DEF scan
<1> QED
  BY <1>1, <1>11, <1>13, <1>14

-----------------------------------------------------------------------------
(* The verifiers *)

\* The definition of the property in terms of the scan.
LEMMA EmbedsInIs ==
  ASSUME StubbingTypes, NEW order \in Seq(Nat), NEW n \in 0..Len(order),
         NEW i \in 0..Len(invocations)
  PROVE  EmbedsIn(SubSeq(order, 1, n), i) <=> Embeds(Calls, order, n, i)
<1> DEFINE prefix == SubSeq(order, 1, n)
<1>1. Len(prefix) = n /\ \A k \in 1..n : prefix[k] = order[k]
  OBVIOUS
<1>2. \A at \in [1..n -> 1..i] : \A k \in 1..n :
        Calls[at[k]] = invocations[at[k]].expectation
  BY DEF StubbingTypes, Calls
<1> HIDE DEF prefix
<1>3. EmbedsIn(prefix, i) => Embeds(Calls, order, n, i)
  <2> SUFFICES ASSUME NEW at \in [1..n -> 1..i],
                      \A j, k \in 1..n : j < k => at[j] < at[k],
                      \A k \in 1..n : invocations[at[k]].expectation = prefix[k]
               PROVE  Embeds(Calls, order, n, i)
    BY <1>1 DEF EmbedsIn
  <2>1. \A k \in 1..n : Calls[at[k]] = order[k]
    BY <1>1, <1>2
  <2> QED
    BY <2>1 DEF Embeds
<1>4. Embeds(Calls, order, n, i) => EmbedsIn(prefix, i)
  <2> SUFFICES ASSUME NEW at \in [1..n -> 1..i],
                      \A j, k \in 1..n : j < k => at[j] < at[k],
                      \A k \in 1..n : Calls[at[k]] = order[k]
               PROVE  EmbedsIn(prefix, i)
    BY DEF Embeds
  <2>1. \A k \in 1..n : invocations[at[k]].expectation = prefix[k]
    BY <1>1, <1>2
  <2> QED
    BY <1>1, <2>1 DEF EmbedsIn
<1> QED
  BY <1>3, <1>4 DEF prefix

\* A whole order is found when the loop of do_in_order_verification gets to its
\* end, and the calls it marks are those that complete one more of it.
LEMMA InOrderIsRight ==
  ASSUME StubbingTypes, NEW order \in Seq(Nat)
  PROVE  /\ InOrder(order).found = Len(order) <=> EmbedsIn(order, Len(invocations))
         /\ \A j \in 1..Len(invocations) :
              j \in InOrder(order).at <=> \E k \in 1..Len(order) : Completes(order, k, j)
<1> DEFINE n == Len(invocations)
<1>1. invocations \in Seq(Invocation) /\ n \in Nat /\ Len(order) \in Nat
  BY DEF StubbingTypes
<1>2. PICK s : IsScan(s, Calls, order, n) /\ InOrder(order) = s[n]
  BY <1>1, InOrderScans
<1>3. s[n].found \in 0..Len(order)
  BY <1>1, <1>2 DEF IsScan
<1>4. SubSeq(order, 1, Len(order)) = order
  OBVIOUS
<1>5. EmbedsIn(order, n) <=> Len(order) <= s[n].found
  <2>1. Len(order) \in 0..Len(order) /\ n \in 0..n
    BY <1>1
  <2>2. EmbedsIn(SubSeq(order, 1, Len(order)), n) <=> Embeds(Calls, order, Len(order), n)
    BY <2>1, EmbedsInIs
  <2>3. Embeds(Calls, order, Len(order), n) <=> Len(order) <= s[n].found
    <3> HIDE DEF n
    <3> QED
      BY <1>1, <1>2, <2>1, ScanFindsMost
  <2> QED
    BY <1>4, <2>2, <2>3
<1>6. ASSUME NEW j \in 1..n
      PROVE  j \in s[n].at <=> \E k \in 1..Len(order) : Completes(order, k, j)
  <2>1. ASSUME NEW k \in 1..Len(order)
        PROVE  Completes(order, k, j) <=>
                 Embeds(Calls, order, k, j) /\ ~Embeds(Calls, order, k, j - 1)
    <3>1. k \in 0..Len(order) /\ j \in 0..n /\ j - 1 \in 0..n
      BY <1>1
    <3>2. EmbedsIn(SubSeq(order, 1, k), j) <=> Embeds(Calls, order, k, j)
      BY <3>1, EmbedsInIs
    <3>3. EmbedsIn(SubSeq(order, 1, k), j - 1) <=> Embeds(Calls, order, k, j - 1)
      BY <3>1, EmbedsInIs
    <3> QED
      BY <3>2, <3>3 DEF Completes
  <2>2. j \in s[n].at <=>
          j <= n /\ \E k \in 1..Len(order) :
                      Embeds(Calls, order, k, j) /\ ~Embeds(Calls, order, k, j - 1)
    <3>1. n \in 0..n
      BY <1>1
    <3> HIDE DEF n
    <3> QED
      BY <1>1, <1>2, <3>1, ScanMarks
  <2>3. j <= n
    BY <1>1
  <2> QED
    BY <2>1, <2>2, <2>3
<1>7. InOrder(order).found = s[n].found /\ InOrder(order).at = s[n].at
  BY <1>2
<1>8. s[n].found = Len(order) <=> Len(order) <= s[n].found
  BY <1>1, <1>3
<1> QED
  BY <1>5, <1>6, <1>7, <1>8

\* An expectation took finitely many calls.
LEMMA CallsAreCounted ==
  ASSUME StubbingTypes, NEW e
  PROVE  Cardinality(CallsOf(e)) \in Nat
<1>1. DOMAIN invocations = 1..Len(invocations) /\ Len(invocations) \in Nat
  BY DEF StubbingTypes
<1>2. IsFiniteSet(1..Len(invocations))
  BY <1>1, FS_Interval
<1>3. CallsOf(e) \subseteq 1..Len(invocations)
  BY <1>1 DEF CallsOf
<1>4. IsFiniteSet(CallsOf(e))
  BY <1>2, <1>3, FS_Subset
<1> QED
  BY <1>4, FS_CardinalityType

\* A verifier marks the calls it accounts for.
LEMMA MarksAreAccounts ==
  ASSUME StubbingTypes, VerifyingTypes, NEW k \in 1..Len(verifiers),
         NEW i \in 1..Len(invocations)
  PROVE  i \in Marks(verifiers[k]) <=> Accounts(verifiers[k], i)
<1> DEFINE v == verifiers[k]
<1>1. v \in VerifierRecord /\ (v.kind = "in_order" => orders[v.order] \in Seq(Nat))
  BY DEF VerifyingTypes
<1>2. v.kind \in VerifierKinds
  BY <1>1 DEF VerifierRecord
<1>3. i \in DOMAIN invocations
  BY DEF StubbingTypes
<1>4. CASE v.kind \in CountingModes
  BY <1>3, <1>4 DEF Marks, Accounts, CallsOf, CountingModes
<1>5. CASE v.kind = "in_order"
  <2>1. i \in InOrder(orders[v.order]).at <=>
          \E n \in 1..Len(orders[v.order]) : Completes(orders[v.order], n, i)
    BY <1>1, <1>5, InOrderIsRight
  <2> QED
    BY <1>5, <2>1 DEF Marks, Accounts, CountingModes
<1>6. CASE v.kind \in {"no_more_interactions", "no_more_invocations"}
  BY <1>6 DEF Marks, Accounts, CountingModes
<1> QED
  BY <1>2, <1>4, <1>5, <1>6 DEF VerifierKinds, CountingModes

\* A verifier passes exactly when what it asks of the calls holds, as long as
\* the calls marked are those the verifiers before it account for.
LEMMA SatisfiedIsHolds ==
  ASSUME StubbingTypes, VerifyingTypes, NEW k \in 1..Len(verifiers),
         \A i \in 1..Len(invocations) : invocations[i].mark <=> AccountedBefore(k, i)
  PROVE  Satisfied(verifiers[k]) <=> Holds(k)
<1> DEFINE v == verifiers[k]
<1>1. v \in VerifierRecord /\ (v.kind = "in_order" => orders[v.order] \in Seq(Nat))
  BY DEF VerifyingTypes
<1>2. v.kind \in VerifierKinds /\ v.wanted \in Nat
  BY <1>1 DEF VerifierRecord
<1>3. DOMAIN invocations = 1..Len(invocations)
  BY DEF StubbingTypes
<1>4. Cardinality(CallsOf(v.expectation)) \in Nat
  BY CallsAreCounted
<1>5. CASE v.kind \in CountingModes
  <2> HIDE DEF v
  <2> DEFINE count == Cardinality(CallsOf(v.expectation))
  <2>1. v.kind = "exactly" => (Satisfied(v) <=> count = v.wanted)
    BY DEF Satisfied
  <2>2. v.kind = "at_most" => (Satisfied(v) <=> count <= v.wanted)
    BY DEF Satisfied
  <2>3. v.kind = "at_least" => (Satisfied(v) <=> count >= v.wanted)
    BY DEF Satisfied
  <2>4. v.kind = "exactly" => (Holds(k) <=> count = v.wanted)
    BY DEF Holds, TimesCalled, v
  <2>5. v.kind = "at_most" => (Holds(k) <=> count \in 0..v.wanted)
    BY DEF Holds, TimesCalled, v
  <2>6. v.kind = "at_least" => (Holds(k) <=> count \notin 0..(v.wanted - 1))
    BY DEF Holds, TimesCalled, v
  <2>7. count \in Nat
    BY <1>4
  <2>8. v.kind = "exactly" \/ v.kind = "at_most" \/ v.kind = "at_least"
    BY <1>5 DEF CountingModes
  <2> HIDE DEF count
  <2>9. Satisfied(v) <=> Holds(k)
    BY <1>2, <2>1, <2>2, <2>3, <2>4, <2>5, <2>6, <2>7, <2>8
  <2> QED
    BY <2>9 DEF v
<1>6. CASE v.kind = "in_order"
  <2>1. InOrder(orders[v.order]).found = Len(orders[v.order]) <=>
          EmbedsIn(orders[v.order], Len(invocations))
    BY <1>1, <1>6, InOrderIsRight
  <2>2. Satisfied(v) <=> InOrder(orders[v.order]).found = Len(orders[v.order])
    <3> HIDE DEF v
    <3> QED
      BY <1>6 DEF Satisfied
  <2>3. Holds(k) <=> EmbedsIn(orders[v.order], Len(invocations))
    BY <1>6 DEF Holds
  <2> QED
    BY <2>1, <2>2, <2>3
<1>7. CASE v.kind = "no_more_interactions"
  BY <1>3, <1>7 DEF Satisfied, Holds
<1>8. CASE v.kind = "no_more_invocations"
  BY <1>3, <1>8 DEF Satisfied, Holds
<1> QED
  BY <1>2, <1>5, <1>6, <1>7, <1>8 DEF VerifierKinds, CountingModes

\* Which steps register a verifier, which write an order, and which do neither.
RegisteringStep ==
  \/ \E e \in DOMAIN expectations :
       \/ verify(e)
       \/ \E mode \in CountingModes, times \in Wanted : verify_times(mode, times, e)
       \/ \E o \in DOMAIN orders : in_order_verify(o, e)
  \/ \E m \in Mock : verify_no_more_interactions(m)
  \/ verify_no_more_invocations
  \/ in_order_new
  \/ mock_setup

\* The steps that leave the verifiers and the in-order lists alone.
LEMMA RegisteringCases ==
  ASSUME [Next]_vars, ~RegisteringStep
  PROVE  UNCHANGED <<verifiers, orders>>
  BY DEF Next, RegisteringStep, vars, objects, mock_teardown, when, do_return,
         do_times, mock_invoke, skip_expectation, arg_handler_test, args_match,
         arg_handler_matched, mock_return, mock_return_wrong_size, mock_return_default,
         run_verifiers, run_verifier, verifiers_done, Fail, FixtureTeardown, PluginTeardown

\* The phases and the loop of run_verifiers, and the steps that move them.
LEMMA PhaseCases ==
  ASSUME CallTypes, [Next]_vars
  PROVE  \/ UNCHANGED <<phase, verifier>> /\ (InTest \/ UNCHANGED vars)
         \/ /\ InTest /\ UNCHANGED verifier
            /\ phase' = AfterFailure
         \/ mock_setup \/ mock_teardown
         \/ run_verifiers \/ run_verifier \/ verifiers_done
         \/ FixtureTeardown \/ PluginTeardown
<1>1. CASE call.at = "none"
  <2>1. UserRuns <=> InTest
    BY <1>1 DEF UserRuns, InTest
  <2>2. /\ ~skip_expectation /\ ~arg_handler_test /\ ~args_match
        /\ ~arg_handler_matched /\ ~mock_return /\ ~mock_return_wrong_size
        /\ ~mock_return_default
    BY <1>1 DEF skip_expectation, arg_handler_test, args_match, arg_handler_matched,
       mock_return, mock_return_wrong_size, mock_return_default, Matching
  <2> QED
    BY <2>1, <2>2 DEF Next, vars, objects, when, do_return, do_times, mock_invoke,
       in_order_verify, verify, verify_times, verify_no_more_interactions,
       verify_no_more_invocations, in_order_new, verifier_add, Fail
<1>2. CASE call.at # "none"
  <2>1. InTest
    BY <1>2 DEF CallTypes
  <2> QED
    BY <1>2, <2>1, CallCases DEF TakingStep, skip_expectation, arg_handler_test, args_match,
       arg_handler_matched, mock_return, mock_return_wrong_size, mock_return_default, vars
<1> QED
  BY <1>1, <1>2

\* The records the verify functions register.
LEMMA VerifierRecords ==
  ASSUME MockAssumption, NEW kind \in VerifierKinds
  PROVE  /\ Verifier(kind) \in VerifierRecord
         /\ \A e, n \in Nat :
              /\ [Verifier(kind) EXCEPT !.expectation = e, !.wanted = n] \in VerifierRecord
              /\ [Verifier(kind) EXCEPT !.expectation = e, !.wanted = n].kind = kind
         /\ \A m \in Mock :
              /\ [Verifier(kind) EXCEPT !.mock = m] \in VerifierRecord
              /\ [Verifier(kind) EXCEPT !.mock = m].kind = kind
         /\ \A o \in Nat :
              /\ [Verifier(kind) EXCEPT !.order = o] \in VerifierRecord
              /\ [Verifier(kind) EXCEPT !.order = o].order = o
         /\ Verifier(kind).kind = kind
<1>1. /\ Verifier(kind) \in VerifierRecord
      /\ Verifier(kind).kind = kind
  BY DEF Verifier, VerifierRecord
<1> QED
  BY <1>1 DEF VerifierRecord

\* One more verifier in the list.
LEMMA VerifierAdded ==
  ASSUME VerifyingTypes, NEW v \in VerifierRecord, verifier_add(v),
         orders' \in Seq(Seq(Nat)), Len(orders') >= Len(orders),
         v.kind = "in_order" => v.order \in 1..Len(orders')
  PROVE  VerifyingTypes'
<1>1. /\ verifiers' = Append(verifiers, v)
      /\ UNCHANGED <<phase, verifier>>
  BY DEF verifier_add
<1>2. /\ verifiers' \in Seq(VerifierRecord)
      /\ Len(verifiers') = Len(verifiers) + 1
      /\ verifiers'[Len(verifiers) + 1] = v
      /\ \A k \in 1..Len(verifiers) : verifiers'[k] = verifiers[k]
  BY <1>1, Appended DEF VerifyingTypes
<1>3. Len(verifiers) \in Nat /\ Len(orders) \in Nat /\ Len(orders') \in Nat
  BY DEF VerifyingTypes
<1>4. ASSUME NEW k \in 1..Len(verifiers'), verifiers'[k].kind = "in_order"
      PROVE  verifiers'[k].order \in 1..Len(orders')
  <2>1. CASE k = Len(verifiers) + 1
    BY <1>2, <1>4, <2>1
  <2>2. CASE k # Len(verifiers) + 1
    <3>1. k \in 1..Len(verifiers)
      BY <1>2, <1>3, <2>2
    <3>2. verifiers[k].order \in 1..Len(orders)
      BY <1>2, <1>4, <3>1 DEF VerifyingTypes
    <3> QED
      BY <1>2, <1>3, <3>1, <3>2
  <2> QED
    BY <2>1, <2>2
<1> QED
  BY <1>1, <1>2, <1>4 DEF VerifyingTypes

\* Registering and running the verifiers keeps their types.
LEMMA VerifyingTypesStep ==
  ASSUME MockAssumption, StubbingTypes, VerifyingTypes, [Next]_vars
  PROVE  VerifyingTypes'
<1>1. DOMAIN expectations \subseteq Nat /\ orders \in Seq(Seq(Nat)) /\ Len(orders) \in Nat
  BY DEF StubbingTypes, VerifyingTypes
<1>2. CASE mock_setup
  BY <1>2 DEF mock_setup, VerifyingTypes
<1>3. ASSUME NEW e \in DOMAIN expectations, NEW mode \in CountingModes, NEW n \in Nat,
             verifier_add([Verifier(mode) EXCEPT !.expectation = e, !.wanted = n]),
             UNCHANGED orders
      PROVE  VerifyingTypes'
  <2> DEFINE v == [Verifier(mode) EXCEPT !.expectation = e, !.wanted = n]
  <2>1. e \in Nat /\ mode \in VerifierKinds /\ mode # "in_order"
    BY <1>1 DEF VerifierKinds, CountingModes
  <2>2. v \in VerifierRecord /\ v.kind = mode
    BY <2>1, VerifierRecords
  <2>3. verifier_add(v)
    BY <1>3
  <2> HIDE DEF v
  <2> QED
    BY <1>1, <1>3, <2>1, <2>2, <2>3, VerifierAdded
<1>4. ASSUME NEW m \in Mock, verify_no_more_interactions(m) PROVE VerifyingTypes'
  <2> DEFINE v == [Verifier("no_more_interactions") EXCEPT !.mock = m]
  <2>1. v \in VerifierRecord /\ v.kind = "no_more_interactions"
    BY VerifierRecords DEF VerifierKinds
  <2>2. verifier_add(v) /\ UNCHANGED orders
    BY <1>4 DEF verify_no_more_interactions
  <2> HIDE DEF v
  <2> QED
    BY <1>1, <2>1, <2>2, VerifierAdded
<1>5. CASE verify_no_more_invocations
  <2> DEFINE v == Verifier("no_more_invocations")
  <2>1. v \in VerifierRecord /\ v.kind = "no_more_invocations"
    BY VerifierRecords DEF VerifierKinds
  <2>2. verifier_add(v) /\ UNCHANGED orders
    BY <1>5 DEF verify_no_more_invocations
  <2> HIDE DEF v
  <2> QED
    BY <1>1, <2>1, <2>2, VerifierAdded
<1>6. CASE in_order_new
  <2> DEFINE v == [Verifier("in_order") EXCEPT !.order = Len(orders) + 1]
  <2>1. v \in VerifierRecord /\ v.order = Len(orders) + 1
    <3>1. "in_order" \in VerifierKinds
      BY DEF VerifierKinds
    <3>2. \A o \in Nat : /\ [Verifier("in_order") EXCEPT !.order = o] \in VerifierRecord
                        /\ [Verifier("in_order") EXCEPT !.order = o].order = o
      BY <3>1, VerifierRecords
    <3>3. Len(orders) + 1 \in Nat
      BY <1>1
    <3> QED
      BY <3>2, <3>3
  <2>2. verifier_add(v) /\ orders' = Append(orders, << >>)
    BY <1>6 DEF in_order_new
  <2> HIDE DEF v
  <2>3. orders' \in Seq(Seq(Nat)) /\ Len(orders') = Len(orders) + 1
    BY <1>1, <2>2
  <2> QED
    BY <1>1, <2>1, <2>2, <2>3, VerifierAdded
<1>7. ASSUME NEW e \in DOMAIN expectations, NEW o \in DOMAIN orders, in_order_verify(o, e)
      PROVE  VerifyingTypes'
  <2>1. orders' = [orders EXCEPT ![o] = Append(orders[o], e)]
    BY <1>7 DEF in_order_verify
  <2>2. o \in 1..Len(orders) /\ orders[o] \in Seq(Nat) /\ e \in Nat
    BY <1>1
  <2>3. Append(orders[o], e) \in Seq(Nat)
    BY <2>2
  <2>4. orders' \in Seq(Seq(Nat)) /\ Len(orders') = Len(orders)
    BY <1>1, <2>1, <2>2, <2>3, Replaced
  <2>5. UNCHANGED <<phase, verifiers, verifier>>
    BY <1>7 DEF in_order_verify
  <2> QED
    BY <2>4, <2>5 DEF VerifyingTypes
<1>8. CASE UNCHANGED <<verifiers, orders>>
  <2>1. phase' \in {"out", "body", "verify", "arm_teardown", "fixture_teardown", "leaving"}
    BY PhaseCases DEF StubbingTypes, VerifyingTypes, AfterFailure, mock_setup, mock_teardown,
       run_verifiers, run_verifier, verifiers_done, FixtureTeardown, PluginTeardown, vars
  <2>2. verifier' \in Nat
    BY PhaseCases DEF StubbingTypes, VerifyingTypes, mock_setup, mock_teardown,
       run_verifiers, run_verifier, verifiers_done, FixtureTeardown, PluginTeardown, vars
  <2> QED
    BY <1>8, <2>1, <2>2 DEF VerifyingTypes
<1>9. ASSUME NEW e \in DOMAIN expectations, verify(e) PROVE VerifyingTypes'
  <2>1. /\ verifier_add([Verifier("exactly") EXCEPT !.expectation = e, !.wanted = 1])
        /\ UNCHANGED orders
    BY <1>9 DEF verify
  <2> QED
    BY <1>3, <2>1 DEF CountingModes
<1>10. ASSUME NEW e \in DOMAIN expectations, NEW mode \in CountingModes,
              NEW times \in Wanted, verify_times(mode, times, e)
       PROVE  VerifyingTypes'
  <2>1. /\ verifier_add([Verifier(mode) EXCEPT !.expectation = e, !.wanted = times])
        /\ UNCHANGED orders /\ times \in Nat
    BY <1>10 DEF verify_times, MockAssumption
  <2> QED
    BY <1>3, <2>1
<1> QED
  BY <1>2, <1>4, <1>5, <1>6, <1>7, <1>8, <1>9, <1>10, RegisteringCases DEF RegisteringStep

(***************************************************************************)
(* The inductive invariant of verification: before the loop no call is     *)
(* marked; in the loop the marked calls are those that the verifiers run   *)
(* so far account for, and all of these passed.                            *)
(***************************************************************************)
VerdictInv ==
  /\ StubbingTypes /\ VerifyingTypes
  /\ phase = "body" =>
       verifier = 0 /\ \A i \in 1..Len(invocations) : ~invocations[i].mark
  /\ phase = "verify" =>
       /\ verifier \in 1..(Len(verifiers) + 1)
       /\ \A i \in 1..Len(invocations) :
            invocations[i].mark <=> AccountedBefore(verifier, i)
       /\ \A k \in 1..(verifier - 1) : Holds(k)
  /\ Verified => verifier \in 1..(Len(verifiers) + 1)
  /\ VerdictIsRight

\* What a verifier asks of the calls depends on the calls and not on their marks.
LEMMA MarkingIsSilent ==
  ASSUME StubbingTypes, VerifyingTypes, UNCHANGED <<verifiers, orders>>,
         Len(invocations') = Len(invocations), DOMAIN invocations' = DOMAIN invocations,
         \A i \in 1..Len(invocations) :
           /\ invocations'[i].expectation = invocations[i].expectation
           /\ invocations'[i].mock = invocations[i].mock
  PROVE  /\ \A v, i : i \in 1..Len(invocations) => (Accounts(v, i)' <=> Accounts(v, i))
         /\ \A k \in 1..Len(verifiers) : Holds(k)' <=> Holds(k)
<1> USE DEF StubbingTypes
<1>1. \A order, n : n \in 0..Len(invocations) => (EmbedsIn(order, n)' <=> EmbedsIn(order, n))
  <2> SUFFICES ASSUME NEW order, NEW n \in 0..Len(invocations)
               PROVE  EmbedsIn(order, n)' <=> EmbedsIn(order, n)
    OBVIOUS
  <2>1. \A at \in [1..Len(order) -> 1..n] : \A k \in 1..Len(order) :
          invocations'[at[k]].expectation = invocations[at[k]].expectation
    OBVIOUS
  <2>2. EmbedsIn(order, n) => EmbedsIn(order, n)'
    BY ONLY <2>1 DEF EmbedsIn
  <2>3. EmbedsIn(order, n)' => EmbedsIn(order, n)
    BY ONLY <2>1 DEF EmbedsIn
  <2> QED
    BY <2>2, <2>3
<1>2. \A order, k, i : i \in 1..Len(invocations) =>
        (Completes(order, k, i)' <=> Completes(order, k, i))
  <2> SUFFICES ASSUME NEW order, NEW k, NEW i \in 1..Len(invocations)
               PROVE  Completes(order, k, i)' <=> Completes(order, k, i)
    OBVIOUS
  <2>1. i \in 0..Len(invocations) /\ i - 1 \in 0..Len(invocations)
    OBVIOUS
  <2> QED
    BY <1>1, <2>1 DEF Completes
<1>3. \A v, i : i \in 1..Len(invocations) => (Accounts(v, i)' <=> Accounts(v, i))
  BY <1>2 DEF Accounts
<1>4. \A k, i : i \in 1..Len(invocations) => (AccountedBefore(k, i)' <=> AccountedBefore(k, i))
  BY <1>3 DEF AccountedBefore
<1>5. \A e : CallsOf(e)' = CallsOf(e)
  BY DEF CallsOf
<1>6. \A e : TimesCalled(e)' = TimesCalled(e)
  BY <1>5 DEF TimesCalled
<1>7. ASSUME NEW k \in 1..Len(verifiers) PROVE Holds(k)' <=> Holds(k)
  <2> DEFINE v == verifiers[k]
  <2>1. Len(invocations) \in 0..Len(invocations)
    OBVIOUS
  <2>2. v.kind \in VerifierKinds
    <3>1. v \in VerifierRecord
      BY DEF VerifyingTypes
    <3> QED
      BY <3>1 DEF VerifierRecord
  <2>3. verifiers'[k] = verifiers[k] /\ orders' = orders
    OBVIOUS
  <2>4. CASE v.kind \in CountingModes
    BY <1>6, <2>3, <2>4 DEF Holds, CountingModes
  <2>5. CASE v.kind = "in_order"
    BY <1>1, <2>1, <2>3, <2>5 DEF Holds
  <2>6. CASE v.kind = "no_more_interactions"
    BY <1>4, <2>3, <2>6 DEF Holds
  <2>7. CASE v.kind = "no_more_invocations"
    BY <1>4, <2>3, <2>7 DEF Holds
  <2> QED
    BY <2>2, <2>4, <2>5, <2>6, <2>7 DEF VerifierKinds
<1> QED
  BY <1>3, <1>7

\* Every step keeps the marks those of the verifiers that ran.
LEMMA VerdictInvStep ==
  ASSUME MockAssumption, VerdictInv, [Next]_vars
  PROVE  VerdictInv'
<1>0. StubbingTypes /\ VerifyingTypes /\ StubbingTypes' /\ VerifyingTypes'
  BY StubbingTypesStep, VerifyingTypesStep DEF VerdictInv
<1> DEFINE Body == phase = "body" =>
                     verifier = 0 /\ \A i \in 1..Len(invocations) : ~invocations[i].mark
           Loop == phase = "verify" =>
                     /\ verifier \in 1..(Len(verifiers) + 1)
                     /\ \A i \in 1..Len(invocations) :
                          invocations[i].mark <=> AccountedBefore(verifier, i)
                     /\ \A k \in 1..(verifier - 1) : Holds(k)
<1>1. /\ Body /\ Loop /\ VerdictIsRight
      /\ Verified => verifier \in 1..(Len(verifiers) + 1)
  BY DEF VerdictInv
<1>2. ASSUME phase' # "verify", ~Verified', phase' = "body" => UNCHANGED <<phase, verifier, invocations>>
      PROVE  VerdictInv'
  BY <1>0, <1>1, <1>2 DEF VerdictInv, VerdictIsRight
<1>3. CASE UNCHANGED <<phase, verifier>> /\ InTest
  <2>1. phase' # "verify" /\ ~Verified'
    BY <1>3 DEF InTest, Verified
  <2>2. phase = "body" => \A i \in 1..Len(invocations') : ~invocations'[i].mark
    <3> SUFFICES ASSUME phase = "body"
                 PROVE  \A i \in 1..Len(invocations') : ~invocations'[i].mark
      OBVIOUS
    <3>1. CASE UNCHANGED invocations
      BY <1>1, <3>1
    <3>2. ASSUME NEW m \in Mock, NEW e, invocation_add(m, e)
          PROVE  \A i \in 1..Len(invocations') : ~invocations'[i].mark
      <4> DEFINE new == [mock |-> m, expectation |-> e, mark |-> FALSE]
      <4>1. invocations' = Append(invocations, new) /\ ~new.mark
        BY <3>2 DEF invocation_add
      <4>2. invocations \in Seq(Invocation)
        BY <1>0 DEF StubbingTypes
      <4> HIDE DEF new
      <4>3. /\ Len(invocations') = Len(invocations) + 1 /\ Len(invocations) \in Nat
            /\ invocations'[Len(invocations) + 1] = new
            /\ \A i \in 1..Len(invocations) : invocations'[i] = invocations[i]
        BY <4>1, <4>2
      <4>4. \A i \in 1..Len(invocations') : i \in 1..Len(invocations) \/ i = Len(invocations) + 1
        BY <4>3
      <4> QED
        BY <1>1, <4>1, <4>3, <4>4
    <3>3. \/ UNCHANGED invocations \/ mock_setup \/ run_verifier
          \/ \E m \in Mock : \E e : invocation_add(m, e)
      <4>1. TakingStep \/ mock_return_default =>
              UNCHANGED invocations \/ \E m \in Mock : \E e : invocation_add(m, e)
        BY <1>0 DEF TakingStep, args_match, arg_handler_matched, mock_return,
           mock_return_wrong_size, mock_return_default, objects, StubbingTypes, CallTypes
      <4> QED
        BY <4>1, StubbingCases DEF StubbingStep, when, do_return, do_times, in_order_verify
    <3>4. ~mock_setup /\ ~run_verifier
      BY DEF mock_setup, run_verifier
    <3> QED
      BY <3>1, <3>2, <3>3, <3>4
  <2>3. phase' = "body" => verifier' = 0
    BY <1>1, <1>3
  <2> QED
    BY <1>0, <1>3, <2>1, <2>2, <2>3 DEF VerdictInv, VerdictIsRight
<1>4. CASE InTest /\ UNCHANGED verifier /\ phase' = AfterFailure
  <2>1. phase' # "verify" /\ phase' # "body"
    BY <1>4 DEF AfterFailure
  <2>2. ~Verified'
    BY <1>1, <1>4 DEF AfterFailure, Verified, InTest
  <2> QED
    BY <1>2, <2>1, <2>2
<1>5. CASE mock_setup
  <2>1. phase' = "body" /\ verifier' = 0 /\ invocations' = << >>
    BY <1>5 DEF mock_setup
  <2> QED
    BY <1>0, <2>1 DEF VerdictInv, VerdictIsRight, Verified
<1>6. CASE mock_teardown \/ FixtureTeardown \/ PluginTeardown
  BY <1>2, <1>6 DEF mock_teardown, FixtureTeardown, PluginTeardown, Verified
<1>7. CASE run_verifiers
  <2>1. /\ phase = "body" /\ phase' = "verify" /\ verifier' = 1
        /\ UNCHANGED <<invocations, verifiers>>
    BY <1>7 DEF run_verifiers, objects
  <2>2. Len(verifiers) \in Nat
    BY <1>0 DEF VerifyingTypes
  <2>3. \A i : ~AccountedBefore(verifier, i)'
    BY <2>1 DEF AccountedBefore
  <2> QED
    BY <1>0, <1>1, <2>1, <2>2, <2>3 DEF VerdictInv, VerdictIsRight, Verified
<1>8. CASE verifiers_done
  <2>1. /\ phase = "verify" /\ verifier > Len(verifiers) /\ phase' = "arm_teardown"
        /\ UNCHANGED <<invocations, verifiers, orders, verifier>>
    BY <1>8 DEF verifiers_done, objects
  <2>2. \A k \in 1..Len(verifiers) : Holds(k)' <=> Holds(k)
    <3>1. UNCHANGED <<verifiers, orders>> /\ invocations' = invocations
      BY <2>1
    <3> QED
      BY <1>0, <3>1, MarkingIsSilent
  <2>3. verifier = Len(verifiers) + 1 /\ Len(verifiers) \in Nat
    <3>1. verifier \in 1..(Len(verifiers) + 1) /\ verifier > Len(verifiers)
      BY <1>1, <2>1
    <3>2. Len(verifiers) \in Nat
      BY <1>0 DEF VerifyingTypes
    <3> QED
      BY <3>1, <3>2
  <2>4. verifier' \notin DOMAIN verifiers'
    BY <1>0, <2>1, <2>3 DEF VerifyingTypes
  <2>5. \A k \in 1..(verifier' - 1) : Holds(k)'
    BY <1>1, <2>1, <2>2, <2>3
  <2>6. phase' # "verify" /\ phase' # "body"
    BY <2>1
  <2> QED
    BY <1>0, <2>1, <2>3, <2>4, <2>5, <2>6 DEF VerdictInv, VerdictIsRight
<1>9. CASE run_verifier
  <2> DEFINE v == verifiers[verifier]
  <2>1. /\ phase = "verify" /\ verifier \in 1..Len(verifiers)
        /\ UNCHANGED <<verifiers, orders>>
    BY <1>0, <1>1, <1>9 DEF run_verifier, VerifyingTypes
  <2>2. /\ Len(invocations') = Len(invocations)
        /\ \A i \in 1..Len(invocations) :
             /\ invocations'[i].expectation = invocations[i].expectation
             /\ invocations'[i].mock = invocations[i].mock
             /\ invocations'[i].mark <=> invocations[i].mark \/ i \in Marks(v)
    BY <1>0, <1>9, RunVerifierMarks
  <2>3. DOMAIN invocations' = DOMAIN invocations
    BY <1>0, <2>2 DEF StubbingTypes
  <2>4. /\ \A u, i : i \in 1..Len(invocations) => (Accounts(u, i)' <=> Accounts(u, i))
        /\ \A k \in 1..Len(verifiers) : Holds(k)' <=> Holds(k)
    BY <1>0, <2>1, <2>2, <2>3, MarkingIsSilent
  <2>5. Satisfied(v) <=> Holds(verifier)
    BY <1>0, <1>1, <2>1, SatisfiedIsHolds
  <2>6. \A i \in 1..Len(invocations) : i \in Marks(v) <=> Accounts(v, i)
    BY <1>0, <2>1, MarksAreAccounts
  <2>7. \A k \in 1..(verifier - 1) : Holds(k)'
    BY <1>1, <2>1, <2>4
  <2>8. CASE Satisfied(v)
    <3>1. phase' = "verify" /\ verifier' = verifier + 1
      BY <1>9, <2>1, <2>8 DEF run_verifier
    <3>2. verifier' \in 1..(Len(verifiers') + 1) /\ verifier' - 1 = verifier
      BY <2>1, <3>1
    <3>3. ASSUME NEW i \in 1..Len(invocations')
          PROVE  invocations'[i].mark <=> AccountedBefore(verifier, i)'
      <4>1. invocations'[i].mark <=> AccountedBefore(verifier, i) \/ Accounts(v, i)
        BY <1>1, <2>1, <2>2, <2>6
      <4>2. AccountedBefore(verifier, i)' <=>
              \E j \in 1..verifier : Accounts(verifiers[j], i)
        <5>1. AccountedBefore(verifier, i)' <=>
                \E j \in 1..(verifier' - 1) : Accounts(verifiers[j], i)'
          BY DEF AccountedBefore
        <5>2. \A j \in 1..verifier : Accounts(verifiers[j], i)' <=> Accounts(verifiers[j], i)
          <6>1. \A u : Accounts(u, i)' <=> Accounts(u, i)
            BY <2>2, <2>4
          <6> QED
            BY <2>1, <6>1
        <5> QED
          BY <3>2, <5>1, <5>2
      <4>3. \A j \in 1..verifier : j \in 1..(verifier - 1) \/ j = verifier
        BY <2>1
      <4>4. \A j \in 1..(verifier - 1) : j \in 1..verifier
        BY <2>1
      <4>5. verifier \in 1..verifier
        BY <2>1
      <4> QED
        BY <4>1, <4>2, <4>3, <4>4, <4>5 DEF AccountedBefore
    <3>4. \A k \in 1..(verifier' - 1) : Holds(k)'
      <4>1. \A k \in 1..verifier : k \in 1..(verifier - 1) \/ k = verifier
        BY <2>1
      <4>2. Holds(verifier)
        BY <2>5, <2>8
      <4>3. ASSUME NEW k \in 1..verifier, k = verifier PROVE Holds(k)'
        BY <2>1, <2>4, <4>2, <4>3
      <4> QED
        BY <2>7, <3>2, <4>1, <4>3
    <3> QED
      BY <1>0, <3>1, <3>2, <3>3, <3>4 DEF VerdictInv, VerdictIsRight, Verified
  <2>9. CASE ~Satisfied(v)
    <3>1. phase' = "arm_teardown" /\ verifier' = verifier
      BY <1>9, <2>1, <2>9 DEF run_verifier, AfterFailure
    <3>2. ASSUME NEW k \in 1..Len(verifiers), k = verifier PROVE ~Holds(k)'
      BY <2>4, <2>5, <2>9, <3>2
    <3>3. ~Holds(verifier)'
      BY <2>1, <3>1, <3>2
    <3>4. \A k \in 1..(verifier' - 1) : Holds(k)'
      BY <2>7, <3>1
    <3> QED
      BY <1>0, <2>1, <3>1, <3>3, <3>4 DEF VerdictInv, VerdictIsRight
  <2> QED
    BY <2>8, <2>9
<1>10. CASE UNCHANGED vars
  <2>1. UNCHANGED <<phase, verifier, verifiers, orders, invocations>>
    BY <1>10 DEF vars, objects
  <2>2. \A order, n : EmbedsIn(order, n)' <=> EmbedsIn(order, n)
    BY <2>1 DEF EmbedsIn
  <2>3. \A k, i : AccountedBefore(k, i)' <=> AccountedBefore(k, i)
    BY <2>1, <2>2 DEF AccountedBefore, Accounts, Completes
  <2>4. \A k \in 1..Len(verifiers) : Holds(k)' <=> Holds(k)
    BY <1>0, <2>1, MarkingIsSilent
  <2>5. phase' = "verify" => \A k \in 1..(verifier' - 1) : Holds(k)'
    BY <1>0, <1>1, <2>1, <2>4 DEF VerifyingTypes
  <2>6. VerdictIsRight'
    <3>1. CASE phase = "arm_teardown" /\ verifier # 0
      <4>1. verifier \in 1..(Len(verifiers) + 1) /\ Len(verifiers) \in Nat
        BY <1>0, <1>1, <3>1 DEF Verified, VerifyingTypes
      <4>2. /\ \A k \in 1..(verifier - 1) : Holds(k)
            /\ verifier \in DOMAIN verifiers => ~Holds(verifier)
        BY <1>1, <3>1 DEF VerdictIsRight, Verified
      <4>3. \A k \in 1..(verifier' - 1) : Holds(k)'
        BY <2>1, <2>4, <4>1, <4>2
      <4>4. ASSUME NEW k \in 1..Len(verifiers), k = verifier PROVE ~Holds(k)'
        BY <1>0, <2>4, <4>2, <4>4 DEF VerifyingTypes
      <4>5. verifier' \in DOMAIN verifiers' => ~Holds(verifier)'
        BY <1>0, <2>1, <4>4 DEF VerifyingTypes
      <4> QED
        BY <4>3, <4>5 DEF VerdictIsRight
    <3>2. CASE ~(phase = "arm_teardown" /\ verifier # 0)
      BY <2>1, <3>2 DEF VerdictIsRight, Verified
    <3> QED
      BY <3>1, <3>2
  <2>7. verifier' = verifier /\ \A i : AccountedBefore(verifier, i)' <=> AccountedBefore(verifier, i)
    BY <2>1, <2>3 DEF AccountedBefore
  <2> QED
    BY <1>0, <1>1, <2>1, <2>5, <2>6, <2>7 DEF VerdictInv, Verified
<1> QED
  BY <1>3, <1>4, <1>5, <1>6, <1>7, <1>8, <1>9, <1>10, PhaseCases, <1>0 DEF StubbingTypes

\* The verifiers that ran were right and left the marks they should.
THEOREM VerdictInvHolds == Spec => []VerdictInv
<1>1. Init => VerdictInv
  BY InitStubbing DEF Init, VerdictInv, StubbingInv, StubbingTypes, VerifyingTypes,
     VerdictIsRight, Verified
<1>2. VerdictInv /\ [Next]_vars => VerdictInv'
  BY MockAssumption, VerdictInvStep
<1> QED
  BY <1>1, <1>2, PTL DEF Spec

\* The verifiers come to the right verdict, whatever the test registered and did;
\* that of verify is compared with the code's reading of it, exactly one call.
THEOREM VerdictsAreRight == Spec => []VerdictIsRight
<1>1. VerdictInv => VerdictIsRight
  BY DEF VerdictInv
<1> QED
  BY <1>1, VerdictInvHolds, PTL
=============================================================================
