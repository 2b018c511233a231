------------------------------ MODULE PFFloat ------------------------------
(***************************************************************************)
(* The floating point values and matchers of src/fp/pfstest-fp.c.          *)
(*                                                                         *)
(* A floating point number is an integer: itself if it is finite, numbers  *)
(* beyond MaxFinite for the infinities, the negative zero and NaN.  The    *)
(* operators below give them IEEE-754 arithmetic; a difference too large   *)
(* for a finite number is infinite.  Numbers are rounded when printed, to  *)
(* PrintedDigits digits (the 6 of printf's %g), not when subtracted.       *)
(*                                                                         *)
(* A value or matcher holds the pieces it prints with the printer of       *)
(* pfstest_fp_set_printer, and those it prints without.  A matcher holds   *)
(* the numbers its test accepts.                                           *)
(***************************************************************************)
EXTENDS Integers, Sequences, TLC

CONSTANTS
  MaxFinite,     \* the largest finite number
  PrintedDigits  \* significant digits printed

ASSUME FloatAssumption == MaxFinite \in Nat /\ PrintedDigits \in Nat \ {0}

Inf     == MaxFinite + 1
NegInf  == -Inf
NegZero == MaxFinite + 2
NaN     == MaxFinite + 3

Finite == (-MaxFinite)..MaxFinite \cup {NegZero}
Float  == NegInf..NaN

\* Where a number that is not NaN is on the extended number line.
Num(x) == IF x = NegZero THEN 0 ELSE x

Ordered(x, y) == NaN \notin {x, y}

Gt(x, y) == Ordered(x, y) /\ Num(x) > Num(y)
Le(x, y) == Ordered(x, y) /\ Num(x) <= Num(y)
Eq(x, y) == Ordered(x, y) /\ Num(x) = Num(y)

Neg(x) == CASE x = NaN     -> NaN
            [] x = NegZero -> 0
            [] x = 0       -> NegZero
            [] OTHER       -> -x

Sub(x, y) ==
  IF ~Ordered(x, y) \/ (x = y /\ x \notin Finite) THEN NaN
  ELSE IF x \notin Finite THEN x
  ELSE IF y \notin Finite THEN Neg(y)
  ELSE LET d == Num(x) - Num(y)
       IN  IF d > MaxFinite THEN Inf ELSE IF d < -MaxFinite THEN NegInf ELSE d

\* n to its leading digits: the nearest multiple of the power of ten that
\* leaves PrintedDigits of them, an even one if there are two.
ToPrintedDigits(n) ==
  LET power[m \in 0..n] ==
        IF m < 10 ^ PrintedDigits THEN 1 ELSE 10 * power[m \div 10]
      unit == power[n]
      q    == n \div unit
      rest == 2 * (n % unit)
  IN  unit * (IF rest > unit \/ (rest = unit /\ q % 2 = 1) THEN q + 1 ELSE q)

\* What the printer hook prints of a number.
Show(x) == CASE x = Inf -> "inf" [] x = NegInf -> "-inf" [] x = NegZero -> "-0"
             [] x = NaN -> "nan"
             [] x < 0   -> "-" \o ToString(ToPrintedDigits(-x))
             [] OTHER   -> ToString(ToPrintedDigits(x))

\* tolerance >= 0.0f ? tolerance : -tolerance
Magnitude(tolerance) == IF Le(0, tolerance) THEN tolerance ELSE Neg(tolerance)

-----------------------------------------------------------------------------
(* float *)

the_float(n) ==
  [number |-> n, shown |-> <<"the float ", Show(n)>>, hidden |-> <<"a float">>]

close_to_float(expected, tolerance) ==
  LET delta(n) == IF Gt(expected, n) THEN Sub(expected, n) ELSE Sub(n, expected)
  IN  [shown   |-> <<"a float within ", Show(Magnitude(tolerance)), " of ", Show(expected)>>,
       hidden  |-> <<"a float near the expected value">>,
       accepts |-> {n \in Float : Le(delta(n), Magnitude(tolerance))}]

floats_equal(a, b) == Eq(a, b)

an_inf_float ==
  [shown |-> <<"an inf float">>, hidden |-> <<"an inf float">>,
   accepts |-> {n \in Float : floats_equal(n, Inf)}]

a_neg_inf_float ==
  [shown |-> <<"a -inf float">>, hidden |-> <<"a -inf float">>,
   accepts |-> {n \in Float : floats_equal(n, NegInf)}]

a_nan_float ==
  [shown |-> <<"a nan float">>, hidden |-> <<"a nan float">>,
   accepts |-> {n \in Float : ~floats_equal(n, n)}]

-----------------------------------------------------------------------------
(* double *)

the_double(n) ==
  [number |-> n, shown |-> <<"the double ", Show(n)>>, hidden |-> <<"a double">>]

close_to_double(expected, tolerance) ==
  LET delta(n) == IF Gt(expected, n) THEN Sub(expected, n) ELSE Sub(n, expected)
  IN  [shown   |-> <<"a double within ", Show(Magnitude(tolerance)), " of ", Show(expected)>>,
       hidden  |-> <<"a double near the expected value">>,
       accepts |-> {n \in Float : Le(delta(n), Magnitude(tolerance))}]

doubles_equal(a, b) == Eq(a, b)

an_inf_double ==
  [shown |-> <<"an inf double">>, hidden |-> <<"an inf double">>,
   accepts |-> {n \in Float : doubles_equal(n, Inf)}]

a_neg_inf_double ==
  [shown |-> <<"a -inf double">>, hidden |-> <<"a -inf double">>,
   accepts |-> {n \in Float : doubles_equal(n, NegInf)}]

a_nan_double ==
  [shown |-> <<"a nan double">>, hidden |-> <<"a nan double">>,
   accepts |-> {n \in Float : ~doubles_equal(n, n)}]

-----------------------------------------------------------------------------

\* What is printed: set is whether pfstest_fp_set_printer has been called.
Printed(x, set) == IF set THEN x.shown ELSE x.hidden
=============================================================================
