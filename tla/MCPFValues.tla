----------------------------- MODULE MCPFValues -----------------------------
(***************************************************************************)
(* One-byte int and short, two-byte long, and values at the ends of the    *)
(* types and on both sides of the powers of the bases; an object that a    *)
(* pointer may stand for, and one too short for the expected value.        *)
(* One printed digit: 11 and 12 are different numbers that print alike.    *)
(***************************************************************************)
EXTENDS PFValues

Sizes ==
  ("short" :> 1) @@ ("int" :> 1) @@ ("long" :> 2) @@ ("size_t" :> 2) @@
  ("uint8_t" :> 1) @@ ("uint16_t" :> 2) @@ ("uintmax_t" :> 2) @@
  ("pfstest_bool" :> 1) @@ ("char" :> 1) @@ ("float" :> 3) @@ ("double" :> 4)

TwoNames == <<"RED", "GREEN">>

\* 97 is a letter, 92 the backslash, 34 the quote, 10 a new line
Objects == (4096 :> <<97, 92, 0>>) @@ (65535 :> <<7>>)

Calls(boxer, args, hexes) == [boxer : {boxer}, arg : args, hex : hexes]
Scalar(boxer, ns)    == Calls(boxer, {<<n>> : n \in ns}, {FALSE})
HexScalar(boxer, ns) == Calls(boxer, {<<n>> : n \in ns}, BOOLEAN)

Strings == {<< >>, <<97>>, <<97, 92>>, <<34, 10>>}

Floats == {0, 1, -12, 11, 12, Inf, NegInf, NegZero, NaN}

SmallInputs ==
  Scalar("the_short", {-128, 5}) \cup Scalar("the_int", {-128, 5}) \cup
  Scalar("the_long", {-32768, 5}) \cup
  HexScalar("the_uint", {5, 255}) \cup HexScalar("the_u16", {5, 4096}) \cup
  Scalar("the_enum", {-1, 1, 5}) \cup Scalar("the_bool", {0, 1, 2}) \cup
  Scalar("the_char", {39, 97}) \cup Scalar("the_pointer", {0, 4096, 65535}) \cup
  Calls("the_string", Strings, {FALSE}) \cup
  Calls("the_memory", {<< >>, <<97, 92>>, <<97, 93>>, <<5>>}, {FALSE}) \cup
  Calls("the_int_array", {<< >>, <<5>>, <<5, -128>>}, {FALSE}) \cup
  Calls("the_uint_array", {<< >>, <<5>>, <<5, 255>>}, BOOLEAN) \cup
  Calls("the_u16_array", {<<5>>, <<4096, 65535>>}, BOOLEAN) \cup
  Scalar("the_float", Floats) \cup Scalar("the_double", Floats) \cup
  Scalar("absurd", {2})

ManyInputs ==
  SmallInputs \cup
  Scalar("the_int", {-127, -100, -99, -10, -9, -1, 0, 9, 10, 99, 100, 127}) \cup
  Scalar("the_long", {-32767, -10000, 0, 9999, 10000, 32767}) \cup
  HexScalar("the_ushort", {0, 255}) \cup
  HexScalar("the_ulong", {0, 9, 10, 15, 16, 255, 256, 4095, 9999, 10000, 65535}) \cup
  HexScalar("the_size", {0, 4095, 65535}) \cup
  HexScalar("the_u8", {0, 15, 16, 255}) \cup HexScalar("the_u16", {0, 255, 65535}) \cup
  Scalar("the_enum", {0, 2}) \cup Scalar("the_char", {34, 92, 10, 200})

PgStrings == Strings

SomeMembers == {<< >>, <<5>>, <<999, 5>>, <<5, -128>>, <<5, 255>>, <<999, 999>>}

Close == {<<e, t>> : e \in {0, 1, Inf, NaN}, t \in {-1, 0, 1, Inf, NaN}}
=============================================================================
