----------------------------- MODULE PFNumbers -----------------------------
(***************************************************************************)
(* How src/core/pfstest-reporter.c prints numbers and escaped characters:  *)
(* each operator returns what it prints, as a sequence of characters.      *)
(* Arithmetic is that of pfstest_uintmax_t, modulo UintmaxMax + 1.  A      *)
(* character is given by its code and printed as a string.                 *)
(***************************************************************************)
EXTENDS Integers, Sequences, SequencesExt, TLC

CONSTANT UintmaxMax   \* PFSTEST_UINTMAX_MAX

ASSUME NumbersAssumption == UintmaxMax \in Nat /\ UintmaxMax % 2 = 1

Uintmax == 0..UintmaxMax

\* The characters that are escaped, and those that stand for them.
escape_char_map ==
  (7  :> "a") @@ (8  :> "b") @@ (12 :> "f") @@ (10 :> "n") @@ (13 :> "r") @@
  (9  :> "t") @@ (11 :> "v") @@ (92 :> "\\") @@ (39 :> "'") @@ (34 :> "\"") @@
  (63 :> "?")

\* A character that is printed as it is, named by its code.
Glyph(c) ==
  LET plain == {n \in DOMAIN escape_char_map : n \in {92, 39, 34, 63}}
      letters == (97 :> "a") @@ (98 :> "b") @@ (110 :> "n")
  IN  IF c \in plain THEN escape_char_map[c]
      ELSE IF c \in DOMAIN letters THEN letters[c] ELSE "char " \o ToString(c)

print_escaped_char(c) ==
  IF c \in DOMAIN escape_char_map THEN <<"\\", escape_char_map[c]>> ELSE <<Glyph(c)>>

digit_char(digit) ==
  <<"0", "1", "2", "3", "4", "5", "6", "7",
    "8", "9", "a", "b", "c", "d", "e", "f">>[digit + 1]

\* Variant: the divisor stops growing one step early.
print_uint_short(n, base, zpad) ==
  LET first[d \in Uintmax, digits \in Nat] ==
        IF n \div d > base THEN first[(d * base) % (UintmaxMax + 1), digits + 1]
        ELSE <<d, digits>>
      emit[d \in Uintmax] ==
        IF d = 0 THEN << >> ELSE <<digit_char((n \div d) % base)>> \o emit[d \div base]
      start == first[1, 1]
      zeros == IF zpad > start[2] THEN zpad - start[2] ELSE 0
  IN  [i \in 1..zeros |-> "0"] \o emit[start[1]]

\* The divisor grows to the place of the first digit, counting digits; then
\* zeros up to zpad, and the digits.
print_uint(n, base, zpad) ==
  LET first[d \in Uintmax, digits \in Nat] ==
        IF n \div d > base - 1
        THEN first[(d * base) % (UintmaxMax + 1), digits + 1]
        ELSE <<d, digits>>
      emit[d \in Uintmax] ==
        IF d = 0 THEN << >> ELSE <<digit_char((n \div d) % base)>> \o emit[d \div base]
      start == first[1, 1]
      zeros == IF zpad > start[2] THEN zpad - start[2] ELSE 0
  IN  [i \in 1..zeros |-> "0"] \o emit[start[1]]

\* The conversion to the unsigned type adds UintmaxMax + 1 to a negative number.
print_int(n) ==
  LET nabs == IF n < 0 THEN (UintmaxMax - (n % (UintmaxMax + 1)) + 1) % (UintmaxMax + 1)
              ELSE n
  IN  (IF n < 0 THEN <<"-">> ELSE << >>) \o print_uint(nabs, 10, 0)
=============================================================================
