------------------------------ MODULE PFValues ------------------------------
(***************************************************************************)
(* Boxed values, matchers and assert_that: src/matchers and src/fp.        *)
(*                                                                         *)
(* One assertion: a value is boxed, a matcher is made (from another boxed  *)
(* value, or not), in either order, and the matcher is tested.  Objects    *)
(* are bytes; a box points at a copy of what was boxed, or, if it is a     *)
(* pointer, at the object itself.  The arguments of the user's calls are   *)
(* sequences of integers (one for a scalar), named with the function that  *)
(* boxes them.  Running out of memory is left to the allocators' modules.  *)
(***************************************************************************)
EXTENDS PFNumbers, PFFloat, FiniteSets

CONSTANTS
  SizeOf,         \* sizeof, a function from the names of the types
  EnumNames,      \* the name_map of the_enum, without the NULL that ends it
  Object,         \* the user's objects: bytes by address
  ActualInput,    \* what may be boxed, as [boxer, arg, hex]: as actual values
  ExpectedInput,  \* ... and as expected ones
  PgString,       \* expected strings in program memory, as character codes
  MemberInput,    \* expected members, as sequences of integers; AnyMember: anything()
  AnyMember,
  CloseInput      \* arguments of close_to: <<expected, tolerance>>

Input == [boxer : STRING, arg : Seq(Int), hex : BOOLEAN]

ASSUME ValuesAssumption ==
  /\ \A t \in DOMAIN SizeOf : SizeOf[t] \in Nat \ {0}
  /\ 256 ^ SizeOf["uintmax_t"] = UintmaxMax + 1
  /\ EnumNames \in Seq(STRING)
  /\ DOMAIN Object \subseteq Nat \ {0}
  /\ ActualInput \cup ExpectedInput \subseteq Input

VARIABLES
  tags,        \* next_auto_tag, and the tags of values, matchers, argument handlers
  fp_printer,  \* whether pfstest_fp_set_printer has been called
  actual, expected, matcher, handler,   \* what has been made, or NULL
  outcome,     \* of the assertion
  said         \* history: the calls that made actual, expected and matcher

vars == <<tags, fp_printer, actual, expected, matcher, handler, outcome, said>>

-----------------------------------------------------------------------------
(* Tags *)

PFSTEST_TAG_AUTO == 0

\* Variant: the first tag given is the one that means none was given.
FirstTags_zero == [next |-> 0, value |-> PFSTEST_TAG_AUTO,
                   matcher |-> PFSTEST_TAG_AUTO, arg_handler |-> PFSTEST_TAG_AUTO]

FirstTags == [next |-> 1, value |-> PFSTEST_TAG_AUTO,
              matcher |-> PFSTEST_TAG_AUTO, arg_handler |-> PFSTEST_TAG_AUTO]

tagged_init(t, kind) ==
  IF t[kind] = PFSTEST_TAG_AUTO
  THEN [t EXCEPT ![kind] = t.next, !.next = @ + 1] ELSE t

-----------------------------------------------------------------------------
(* Boxes *)

NULL == 0
Copy == 1000000   \* the address of a block of the allocator

\* The size low bytes of n, the lowest first.
Bytes(n, size) == [i \in 1..size |-> (n \div 256 ^ (i - 1)) % 256]

Unsigned(bytes) == FoldRight(LAMBDA b, n : 256 * n + b, bytes, 0)

Signed(bytes) ==
  LET n == Unsigned(bytes) IN
  IF 2 * n < 256 ^ Len(bytes) THEN n ELSE n - 256 ^ Len(bytes)

no_aux == [base |-> 0, known_width |-> 0, zpad |-> 0, prefix |-> << >>]

default_unsigned_aux == [base |-> 10, known_width |-> 0, zpad |-> 0, prefix |-> << >>]

known_width_unsigned_aux(width) == [default_unsigned_aux EXCEPT !.known_width = width]

\* bytes is what is at data.
value_new(printer, data, bytes, size, aux) ==
  [printer |-> printer, data |-> data, bytes |-> bytes, size |-> size, aux |-> aux]

as_hex(v) ==
  LET aux == [v.aux EXCEPT !.base = 16, !.prefix = <<"0x">>]
  IN  [v EXCEPT !.aux = IF aux.known_width = 0 THEN aux
                        ELSE [aux EXCEPT !.zpad = 2 * aux.known_width]]

primitive_value(printer, n, type, aux) ==
  value_new(printer, Copy, Bytes(n, SizeOf[type]), SizeOf[type], aux)

signed_types   == ("the_short" :> "short") @@ ("the_int" :> "int") @@ ("the_long" :> "long")
unsigned_types == ("the_ushort" :> "short") @@ ("the_uint" :> "int") @@
                  ("the_ulong" :> "long") @@ ("the_size" :> "size_t")
stdint_types   == ("the_u8" :> "uint8_t") @@ ("the_u16" :> "uint16_t")

signed_value(name, n)   == primitive_value(name, n, signed_types[name], no_aux)
unsigned_value(name, n) ==
  primitive_value(name, n, unsigned_types[name], default_unsigned_aux)
unsigned_stdint_value(name, n) ==
  primitive_value(name, n, stdint_types[name],
                  known_width_unsigned_aux(SizeOf[stdint_types[name]]))

the_enum(e) == primitive_value("the_enum", e, "int", no_aux)

\* Variant: what the caller calls true is kept as it is.
the_bool_raw(b) == primitive_value("the_bool", b, "pfstest_bool", no_aux)

the_bool(b) ==
  primitive_value("the_bool", IF b # 0 THEN 1 ELSE 0, "pfstest_bool", no_aux)

the_char(c) == primitive_value("the_char", c, "char", no_aux)

the_string(s) == value_new("the_string", Copy, s \o <<0>>, Len(s) + 1, no_aux)

\* Nothing is copied: the value is at what p points at, and has no size.
the_pointer(p) ==
  value_new("the_pointer", p, IF p = NULL THEN << >> ELSE Object[p], 0, no_aux)

\* Bytes that are copied, unless there are none.
Copied(printer, bytes, aux) ==
  value_new(printer, IF bytes = << >> THEN NULL ELSE Copy, bytes, Len(bytes), aux)

the_memory(m) == Copied("the_memory", m, no_aux)

ArrayBytes(a, type) == FlattenSeq([i \in DOMAIN a |-> Bytes(a[i], SizeOf[type])])

the_int_array(a)  == Copied("the_int_array", ArrayBytes(a, "int"), no_aux)
the_uint_array(a) == Copied("the_uint_array", ArrayBytes(a, "int"), default_unsigned_aux)
the_u16_array(a)  ==
  Copied("the_u16_array", ArrayBytes(a, "uint16_t"),
         known_width_unsigned_aux(SizeOf["uint16_t"]))

\* The first byte stands for the representation, the others are zero.
Represented(n, size) == <<n>> \o [i \in 1..(size - 1) |-> 0]

FpBox(printer, x, type) ==
  value_new(printer, Copy, Represented(x.number, SizeOf[type]), SizeOf[type], no_aux)

\* A value the user makes with pfstest_value_new: a size, and no data.
Absurd(size) == value_new("absurd", NULL, << >>, size, no_aux)

Box(in) ==
  LET n == in.arg[1]
      v == CASE in.boxer \in DOMAIN signed_types   -> signed_value(in.boxer, n)
             [] in.boxer \in DOMAIN unsigned_types -> unsigned_value(in.boxer, n)
             [] in.boxer \in DOMAIN stdint_types   -> unsigned_stdint_value(in.boxer, n)
             [] in.boxer = "the_enum"       -> the_enum(n)
             [] in.boxer = "the_bool"       -> the_bool(n)
             [] in.boxer = "the_char"       -> the_char(n)
             [] in.boxer = "the_string"     -> the_string(in.arg)
             [] in.boxer = "the_pointer"    -> the_pointer(n)
             [] in.boxer = "the_memory"     -> the_memory(in.arg)
             [] in.boxer = "the_int_array"  -> the_int_array(in.arg)
             [] in.boxer = "the_uint_array" -> the_uint_array(in.arg)
             [] in.boxer = "the_u16_array"  -> the_u16_array(in.arg)
             [] in.boxer = "the_float"      -> FpBox("the_float", the_float(n), "float")
             [] in.boxer = "the_double"     -> FpBox("the_double", the_double(n), "double")
             [] in.boxer = "absurd"         -> Absurd(n)
  IN  IF in.hex THEN as_hex(v) ELSE v

-----------------------------------------------------------------------------
(* How values print *)

Label ==
  ("the_short" :> "the short ") @@ ("the_int" :> "the int ") @@
  ("the_long" :> "the long ") @@ ("the_ushort" :> "the ushort ") @@
  ("the_uint" :> "the uint ") @@ ("the_ulong" :> "the ulong ") @@
  ("the_size" :> "the size_t ") @@ ("the_u8" :> "the uint8_t ") @@
  ("the_u16" :> "the uint16_t ")

signed_printer(v) == <<Label[v.printer]>> \o print_int(Signed(v.bytes))

print_unsigned(n, aux) == aux.prefix \o print_uint(n, aux.base, aux.zpad)

unsigned_printer(v) == <<Label[v.printer]>> \o print_unsigned(Unsigned(v.bytes), v.aux)

the_enum_printer(v) ==
  LET e == Signed(v.bytes) IN
  <<"the enum ">> \o (IF e \in 0..(Len(EnumNames) - 1) THEN <<EnumNames[e + 1]>>
                      ELSE print_int(e) \o <<" [out of range]">>)

the_bool_printer(v) ==
  <<"the bool ", IF v.bytes[1] # 0 THEN "<true>" ELSE "<false>">>

the_char_printer(v) == <<"the char '">> \o print_escaped_char(v.bytes[1]) \o <<"'">>

\* The characters before the first NUL.
UntilNul(bytes) ==
  LET rest[i \in 1..Len(bytes)] ==
        IF bytes[i] = 0 THEN << >> ELSE <<bytes[i]>> \o rest[i + 1]
  IN  rest[1]

QuotedString(s) ==
  <<"the string \"">> \o FlattenSeq([i \in DOMAIN s |-> print_escaped_char(s[i])])
  \o <<"\"">>

the_string_printer(v) == QuotedString(UntilNul(v.bytes))

the_pointer_printer(v) ==
  <<"the pointer <">>
  \o (IF v.data = NULL THEN <<"NULL">> ELSE <<"0x">> \o print_uint(v.data, 16, 0))
  \o <<">">>

\* Pieces with commas between them.
Listed(pieces) ==
  FlattenSeq([i \in DOMAIN pieces |->
                pieces[i] \o (IF i < Len(pieces) THEN <<", ">> ELSE << >>)])

the_memory_printer(v) ==
  <<"the memory {">>
  \o Listed([i \in 1..v.size |-> <<"0x">> \o print_uint(v.bytes[i], 16, 2)])
  \o <<"}">>

\* The members of an array, as bytes.
Members(v, type) ==
  LET w == SizeOf[type]
  IN  [i \in 1..(v.size \div w) |-> SubSeq(v.bytes, (i - 1) * w + 1, i * w)]

the_int_array_printer(v) ==
  LET ms == Members(v, "int")
  IN  <<"{ ">> \o Listed([i \in DOMAIN ms |->
                    signed_printer(signed_value("the_int", Signed(ms[i])))]) \o <<" }">>

\* Each element prints as the array has been told to.
the_uint_array_printer(v) ==
  LET ms == Members(v, "int")
      elem(i) == [unsigned_value("the_uint", Unsigned(ms[i])) EXCEPT !.aux = v.aux]
  IN  <<"{ ">> \o Listed([i \in DOMAIN ms |-> unsigned_printer(elem(i))]) \o <<" }">>

the_u16_array_printer(v) ==
  LET ms == Members(v, "uint16_t")
      elem(i) == [unsigned_stdint_value("the_u16", Unsigned(ms[i])) EXCEPT !.aux = v.aux]
  IN  <<"{ ">> \o Listed([i \in DOMAIN ms |-> unsigned_printer(elem(i))]) \o <<" }">>

value_print(v) ==
  CASE v.printer \in DOMAIN signed_types -> signed_printer(v)
    [] v.printer \in DOMAIN unsigned_types \cup DOMAIN stdint_types -> unsigned_printer(v)
    [] v.printer = "the_enum"       -> the_enum_printer(v)
    [] v.printer = "the_bool"       -> the_bool_printer(v)
    [] v.printer = "the_char"       -> the_char_printer(v)
    [] v.printer = "the_string"     -> the_string_printer(v)
    [] v.printer = "the_pointer"    -> the_pointer_printer(v)
    [] v.printer = "the_memory"     -> the_memory_printer(v)
    [] v.printer = "the_int_array"  -> the_int_array_printer(v)
    [] v.printer = "the_uint_array" -> the_uint_array_printer(v)
    [] v.printer = "the_u16_array"  -> the_u16_array_printer(v)
    [] v.printer = "the_float"      -> Printed(the_float(v.bytes[1]), fp_printer)
    [] v.printer = "the_double"     -> Printed(the_double(v.bytes[1]), fp_printer)
    [] v.printer = "absurd"         -> <<"absurd ", ToString(v.size)>>

-----------------------------------------------------------------------------
(* Matchers: a test returns "match" or "mismatch", or "stray" if it reads  *)
(* what is not there.                                                      *)

matcher_new(test, data) == [test |-> test, data |-> data]

Match(b) == IF b THEN "match" ELSE "mismatch"

memcmp(a, b, size) ==
  IF size > Len(a) \/ size > Len(b) THEN "stray"
  ELSE Match(SubSeq(a, 1, size) = SubSeq(b, 1, size))

\* Variant: sizes must agree only if the expected one is known.
equal_to_test_swapped(e, a) ==
  IF (e.data = NULL /\ e.size # 0) \/ (a.data = NULL /\ a.size # 0)
  THEN Match(a.data = e.data /\ a.size = e.size)
  ELSE IF e.size # a.size /\ e.size # 0 THEN "mismatch"
  ELSE IF e.size = 0 \/ a.data = NULL THEN Match(e.data = a.data)
  ELSE memcmp(e.bytes, a.bytes, e.size)

equal_to_test(e, a) ==
  IF (e.data = NULL /\ e.size # 0) \/ (a.data = NULL /\ a.size # 0)
  THEN Match(a.data = e.data /\ a.size = e.size)
  ELSE IF e.size # a.size /\ a.size # 0 THEN "mismatch"
  ELSE IF e.size = 0 \/ a.data = NULL THEN Match(e.data = a.data)
  ELSE memcmp(e.bytes, a.bytes, e.size)

\* strcmp of bytes with the codes s and their NUL
matches_the_pg_string_test(s, a) ==
  LET cmp[i \in 1..(Len(s) + 1)] ==
        IF i > Len(a.bytes) THEN "stray"
        ELSE IF a.bytes[i] # (s \o <<0>>)[i] THEN "mismatch"
        ELSE IF i <= Len(s) THEN cmp[i + 1] ELSE "match"
  IN  cmp[1]

\* The matchers a member of an array may have.
member_test(m, a) ==
  IF m.test = "equal_to" THEN equal_to_test(m.data, a) ELSE "match"

box_int_members(a)  ==
  LET ms == Members(a, "int")
  IN  [i \in DOMAIN ms |-> signed_value("the_int", Signed(ms[i]))]
box_uint_members(a) ==
  LET ms == Members(a, "int")
  IN  [i \in DOMAIN ms |-> unsigned_value("the_uint", Unsigned(ms[i]))]

\* The matchers take the boxed members one by one until one does not match.
submatchers_match_value_array(ms, values) ==
  LET match[i \in 1..(Len(ms) + 1)] ==
        IF i > Len(ms) THEN "match"
        ELSE IF i > Len(values) THEN "stray"
        ELSE IF member_test(ms[i], values[i]) = "match" THEN match[i + 1]
        ELSE member_test(ms[i], values[i])
  IN  match[1]

members_match_test(m, a) ==
  IF Len(a.bytes) < a.size THEN "stray"
  ELSE submatchers_match_value_array(m.data,
         IF m.test = "int_members" THEN box_int_members(a) ELSE box_uint_members(a))

\* The tests of PFFloat, on what a pointer to type finds in the box.
fp_test(m, a, type) ==
  IF SizeOf[type] > Len(a.bytes) THEN "stray" ELSE Match(a.bytes[1] \in m.data.accepts)

matches(m, a) ==
  CASE m.test = "equal_to"      -> equal_to_test(m.data, a)
    [] m.test = "pg_string"     -> matches_the_pg_string_test(m.data, a)
    [] m.test = "anything"      -> "match"
    [] m.test \in {"int_members", "uint_members"} -> members_match_test(m, a)
    [] m.test \in {"float", "double"} -> fp_test(m, a, m.test)
    [] m.test = "value"         -> "wild"

member_printer(m) == IF m.test = "equal_to" THEN value_print(m.data) ELSE <<"anything">>

members_match_printer(m) ==
  <<"{ ">> \o Listed([i \in DOMAIN m.data |-> member_printer(m.data[i])]) \o <<" }">>

matcher_print(m) ==
  CASE m.test = "equal_to"  -> value_print(m.data)
    [] m.test = "pg_string" -> QuotedString(m.data)
    [] m.test = "anything"  -> <<"anything">>
    [] m.test \in {"int_members", "uint_members"} -> members_match_printer(m)
    [] m.test \in {"float", "double"} -> Printed(m.data, fp_printer)

-----------------------------------------------------------------------------
(* One assertion *)

Unmade == [tag |-> -1]   \* NULL

Undecided == [verdict |-> "none", expected |-> << >>, actual |-> << >>]

Init ==
  /\ tags = FirstTags
  /\ fp_printer = FALSE
  /\ actual = Unmade /\ expected = Unmade /\ matcher = Unmade /\ handler = Unmade
  /\ outcome = Undecided
  /\ said = [actual |-> << >>, expected |-> << >>, matcher |-> << >>]

Open == outcome = Undecided

Tagged(x, t, kind) == x @@ [tag |-> t[kind]]

fp_set_printer ==
  /\ Open /\ ~fp_printer /\ actual = Unmade /\ matcher = Unmade /\ handler = Unmade
  /\ fp_printer' = TRUE
  /\ UNCHANGED <<tags, actual, expected, matcher, handler, outcome, said>>

BoxActual(in) ==
  /\ Open /\ actual = Unmade
  /\ tags' = tagged_init(tags, "value")
  /\ actual' = Tagged(Box(in), tags', "value")
  /\ said' = [said EXCEPT !.actual = in]
  /\ UNCHANGED <<fp_printer, expected, matcher, handler, outcome>>

BoxExpected(in) ==
  /\ Open /\ expected = Unmade /\ matcher = Unmade
  /\ tags' = tagged_init(tags, "value")
  /\ expected' = Tagged(Box(in), tags', "value")
  /\ said' = [said EXCEPT !.expected = in]
  /\ UNCHANGED <<fp_printer, actual, matcher, handler, outcome>>

\* pfstest_arg_handler_new, on behalf of a mock
new_arg_handler ==
  /\ Open /\ handler = Unmade /\ actual = Unmade /\ ~fp_printer
  /\ tags' = tagged_init(tags, "arg_handler")
  /\ handler' = [tag |-> tags'.arg_handler]
  /\ UNCHANGED <<fp_printer, actual, expected, matcher, outcome, said>>

NewMatcher(m, call) ==
  /\ Open /\ matcher = Unmade
  /\ tags' = tagged_init(tags, "matcher")
  /\ matcher' = Tagged(m, tags', "matcher")
  /\ said' = [said EXCEPT !.matcher = call]
  /\ UNCHANGED <<fp_printer, actual, expected, handler, outcome>>

equal_to ==
  /\ expected # Unmade
  /\ NewMatcher(matcher_new("equal_to", expected), <<"equal_to">>)

\* is() of the expected value, of a matcher, or of an argument handler
is_at_location(x, isMatcher) ==
  /\ Open /\ said.matcher \notin {<<"is">>, <<"is", "anything">>}
  /\ x # Unmade
  /\ \/ /\ x.tag = tags.matcher
        /\ matcher' = IF isMatcher THEN x ELSE Tagged(matcher_new("value", x), tags, "matcher")
        /\ UNCHANGED <<tags, outcome>>
     \/ /\ x.tag # tags.matcher /\ x.tag = tags.value
        /\ tags' = tagged_init(tags, "matcher")
        /\ matcher' = Tagged(matcher_new("equal_to", x), tags', "matcher")
        /\ UNCHANGED outcome
     \/ /\ x.tag \notin {tags.matcher, tags.value}
        /\ outcome' = [Undecided EXCEPT !.verdict = "is() of something else"]
        /\ UNCHANGED <<tags, matcher>>
  /\ UNCHANGED <<fp_printer, actual, expected, handler>>

IsValue   == /\ matcher = Unmade /\ is_at_location(expected, FALSE)
             /\ said' = [said EXCEPT !.matcher = <<"equal_to">>]
IsMatcher == /\ said.matcher = <<"anything">> /\ is_at_location(matcher, TRUE)
             /\ said' = [said EXCEPT !.matcher = <<"is", "anything">>]
IsHandler == /\ matcher = Unmade /\ is_at_location(handler, FALSE)
             /\ said' = [said EXCEPT !.matcher = <<"is">>]

matches_the_pg_string ==
  \E s \in PgString : NewMatcher(matcher_new("pg_string", s), <<"pg_string", s>>)

anything == NewMatcher(matcher_new("anything", NULL), <<"anything">>)

\* The arguments are made first: boxes, and matchers for them.
package_all_matcher_args(ms, boxer) ==
  [i \in DOMAIN ms |->
     IF ms[i] = AnyMember THEN matcher_new("anything", NULL)
     ELSE matcher_new("equal_to", Box([boxer |-> boxer, arg |-> <<ms[i]>>, hex |-> FALSE]))]

MembersMatch(test, boxer) ==
  \E ms \in MemberInput :
    LET boxed == \E i \in DOMAIN ms : ms[i] # AnyMember
        t     == IF boxed THEN tagged_init(tags, "value") ELSE tags
    IN  /\ Open /\ matcher = Unmade /\ expected = Unmade
        /\ tags' = tagged_init(t, "matcher")
        /\ matcher' = Tagged(matcher_new(test, package_all_matcher_args(ms, boxer)),
                             tags', "matcher")
        /\ said' = [said EXCEPT !.matcher = <<test, ms>>]
        /\ UNCHANGED <<fp_printer, actual, expected, handler, outcome>>

int_members_match  == MembersMatch("int_members", "the_int")
uint_members_match == MembersMatch("uint_members", "the_uint")

FpMatcher(type, x, call) == expected = Unmade /\ NewMatcher(matcher_new(type, x), call)

fp_matcher ==
  \/ \E c \in CloseInput :
       \/ FpMatcher("float", close_to_float(c[1], c[2]), <<"float", "close", c>>)
       \/ FpMatcher("double", close_to_double(c[1], c[2]), <<"double", "close", c>>)
  \/ FpMatcher("float", an_inf_float, <<"float", "inf">>)
  \/ FpMatcher("float", a_neg_inf_float, <<"float", "-inf">>)
  \/ FpMatcher("float", a_nan_float, <<"float", "nan">>)
  \/ FpMatcher("double", an_inf_double, <<"double", "inf">>)
  \/ FpMatcher("double", a_neg_inf_double, <<"double", "-inf">>)
  \/ FpMatcher("double", a_nan_double, <<"double", "nan">>)

\* What a failed assertion prints.
assert_that_printer(m, a) ==
  [verdict |-> "fail", expected |-> matcher_print(m), actual |-> value_print(a)]

assert_that ==
  /\ Open
  /\ outcome' =
       CASE actual = Unmade  -> [Undecided EXCEPT !.verdict = "NULL value"]
         [] actual # Unmade /\ matcher = Unmade ->
              [Undecided EXCEPT !.verdict = "NULL matcher"]
         [] OTHER ->
              LET result == matches(matcher, actual) IN
              CASE result = "match"    -> [Undecided EXCEPT !.verdict = "pass"]
                [] result = "mismatch" -> assert_that_printer(matcher, actual)
                [] OTHER               -> [Undecided EXCEPT !.verdict = result]
  /\ UNCHANGED <<tags, fp_printer, actual, expected, matcher, handler, said>>

Next ==
  \/ fp_set_printer \/ new_arg_handler
  \/ \E in \in ActualInput : BoxActual(in)
  \/ \E in \in ExpectedInput : BoxExpected(in)
  \/ equal_to \/ IsValue \/ IsMatcher \/ IsHandler
  \/ matches_the_pg_string \/ anything
  \/ int_members_match \/ uint_members_match \/ fp_matcher
  \/ assert_that

Spec == Init /\ [][Next]_vars

-----------------------------------------------------------------------------
(* What printed values say *)

\* Numerals of n in base: with width digits, or without superfluous zeros.
IsNumeral(digits, n, base, width) ==
  LET value(c) == CHOOSE d \in 0..15 : digit_char(d) = c IN
  /\ digits # << >>
  /\ \A i \in DOMAIN digits : \E d \in 0..(base - 1) : digit_char(d) = digits[i]
  /\ FoldLeft(LAMBDA m, c : base * m + value(c), 0, digits) = n
  /\ IF width # 0 THEN Len(digits) = width
     ELSE Len(digits) > 1 => digits[1] # "0"

IsSignedNumeral(text, n) ==
  IF n < 0 THEN text # << >> /\ text[1] = "-" /\ IsNumeral(Tail(text), -n, 10, 0)
  ELSE IsNumeral(text, n, 10, 0)

IsInteger(text, boxer, n, hex) ==
  LET rest  == Tail(text)
      width == IF boxer \in DOMAIN stdint_types
               THEN 2 * SizeOf[stdint_types[boxer]] ELSE 0
  IN  /\ text # << >> /\ text[1] = Label[boxer]
      /\ IF boxer \in DOMAIN signed_types THEN IsSignedNumeral(rest, n)
         ELSE IF hex THEN Head(rest) = "0x" /\ IsNumeral(Tail(rest), n, 16, width)
         ELSE IsNumeral(rest, n, 10, 0)

IntegerBoxers == DOMAIN signed_types \cup DOMAIN unsigned_types \cup DOMAIN stdint_types

\* The text without its first and last piece, cut at the commas.
Cut(text) ==
  LET cut(ps, c) == IF c = ", " THEN Append(ps, << >>)
                    ELSE [ps EXCEPT ![Len(ps)] = Append(@, c)]
      inner == SubSeq(text, 2, Len(text) - 1)
  IN  IF inner = << >> THEN << >> ELSE FoldLeft(cut, << << >> >>, inner)

ElementBoxer == ("the_int_array" :> "the_int") @@ ("the_uint_array" :> "the_uint") @@
                ("the_u16_array" :> "the_u16")

\* The codes that escaped characters stand for.
Unescaped(text) ==
  LET escaped(c) == CHOOSE code \in DOMAIN escape_char_map : escape_char_map[code] = c
      plain(c)   == CHOOSE code \in 0..255 : Glyph(code) = c
      read(r, c) == IF r.after THEN [codes |-> Append(r.codes, escaped(c)), after |-> FALSE]
                    ELSE IF c = "\\" THEN [r EXCEPT !.after = TRUE]
                    ELSE [r EXCEPT !.codes = Append(@, plain(c))]
      inner == SubSeq(text, 2, Len(text) - 1)
  IN  FoldLeft(read, [codes |-> << >>, after |-> FALSE], inner).codes

\* The text says what was boxed.
SaysWhatWasBoxed(in, text) ==
  LET n == in.arg[1]
      pieces == Cut(text)
  IN  CASE in.boxer \in IntegerBoxers -> IsInteger(text, in.boxer, n, in.hex)
        [] in.boxer = "the_enum" ->
             IF 0 <= n /\ n < Len(EnumNames) THEN text = <<"the enum ", EnumNames[n + 1]>>
             ELSE /\ Last(text) = " [out of range]"
                  /\ IsSignedNumeral(SubSeq(text, 2, Len(text) - 1), n)
        [] in.boxer = "the_bool" -> Last(text) = IF n = 0 THEN "<false>" ELSE "<true>"
        [] in.boxer \in {"the_char", "the_string"} -> Unescaped(text) = in.arg
        [] in.boxer = "the_memory" ->
             /\ Len(pieces) = Len(in.arg)
             /\ \A i \in DOMAIN pieces : /\ Head(pieces[i]) = "0x"
                                         /\ IsNumeral(Tail(pieces[i]), in.arg[i], 16, 2)
        [] in.boxer \in DOMAIN ElementBoxer ->
             /\ Len(pieces) = Len(in.arg)
             /\ \A i \in DOMAIN pieces :
                  IsInteger(pieces[i], ElementBoxer[in.boxer], in.arg[i], in.hex)
        [] OTHER -> TRUE

\* What a boxed value prints tells it: numbers read back in decimal or
\* hexadecimal, with the digits their width calls for, the least and the
\* largest ones too; strings and characters read back through their escapes,
\* arrays and memory element by element, enums by name while in range.
PrintedReadsBack ==
  (actual # Unmade /\ matcher = Unmade /\ Open) =>
    SaysWhatWasBoxed(said.actual, value_print(actual))

-----------------------------------------------------------------------------
(* What assertions mean *)

\* The bytes that a call boxes; none for a pointer and for an empty block.
Extent(in) ==
  CASE in.boxer \in {"the_pointer"}      -> 0
    [] in.boxer = "absurd"               -> in.arg[1]
    [] in.boxer = "the_string"           -> Len(in.arg) + 1
    [] in.boxer = "the_memory"           -> Len(in.arg)
    [] in.boxer \in {"the_int_array", "the_uint_array"} -> SizeOf["int"] * Len(in.arg)
    [] in.boxer = "the_u16_array"        -> SizeOf["uint16_t"] * Len(in.arg)
    [] OTHER -> Box(in).size

\* Whether the arguments of two calls of one boxer stand for the same value.
SameArgument(e, a) ==
  IF e.boxer = "the_bool" THEN (e.arg[1] = 0) <=> (a.arg[1] = 0) ELSE e.arg = a.arg

\* Calls that box bytes, with those bytes.
Plain(in)    == in.boxer \in {"the_memory", "the_string"}
Contents(in) == IF in.boxer = "the_string" THEN in.arg \o <<0>> ELSE in.arg

ObjectAt(in) == IF in.arg[1] = NULL THEN << >> ELSE Object[in.arg[1]]

\* Values that can be compared without knowing how types are represented, and
\* without reading past the end of an object.
Comparable(e, a) ==
  \/ e.boxer = a.boxer
  \/ a.boxer = "the_pointer" /\ Plain(e) /\
       (a.arg[1] = NULL \/ Extent(e) <= Len(ObjectAt(a)))
  \/ "the_pointer" \notin {e.boxer, a.boxer} /\ Extent(e) # Extent(a)
  \/ e.boxer = "the_pointer"

\* A pointer as the actual value stands for what it points at.
AreEqual(e, a) ==
  CASE e.boxer = a.boxer -> SameArgument(e, a)
    [] e.boxer # a.boxer /\ e.boxer = "the_pointer" -> e.arg[1] = NULL /\ Extent(a) = 0
    [] e.boxer # a.boxer /\ a.boxer = "the_pointer" ->
         IF Extent(e) = 0 THEN a.arg[1] = NULL
         ELSE a.arg[1] # NULL /\ IsPrefix(Contents(e), ObjectAt(a))
    [] OTHER -> FALSE

\* x is within tolerance of wanted: NaN is near nothing, and only an infinite
\* tolerance covers the distance between infinite and finite.
IsClose(x, wanted, tolerance) ==
  /\ NaN \notin {x, wanted, tolerance}
  /\ LET far == x \notin Finite \/ wanted \notin Finite
         distance == Num(x) - Num(wanted)
         bound == IF Num(tolerance) < 0 THEN -Num(tolerance) ELSE Num(tolerance)
     IN  IF far THEN x # wanted /\ bound = Inf
         ELSE -bound <= distance /\ distance <= bound

FpMeans(call, x) ==
  CASE call[2] = "close" -> IsClose(x, call[3][1], call[3][2])
    [] call[2] = "inf"   -> x = Inf
    [] call[2] = "-inf"  -> x = NegInf
    [] call[2] = "nan"   -> x = NaN

MembersBoxer == ("int_members" :> "the_int_array") @@ ("uint_members" :> "the_uint_array")
FpBoxer      == ("float" :> "the_float") @@ ("double" :> "the_double")

\* The calls the documentation of the matchers covers.
WellUsed(call, a) ==
  CASE call[1] = "equal_to" -> Comparable(said.expected, a)
    [] call[1] = "pg_string" ->
         a.boxer = "the_string" \/ (a.boxer = "the_pointer" /\ 0 \in ToSet(ObjectAt(a)))
    [] call[1] \in DOMAIN MembersBoxer ->
         a.boxer = MembersBoxer[call[1]] /\ Len(call[2]) <= Len(a.arg)
    [] call[1] \in DOMAIN FpBoxer -> a.boxer = FpBoxer[call[1]]
    [] OTHER -> TRUE

Accepts(call, a) ==
  CASE call[1] = "equal_to"  -> AreEqual(said.expected, a)
    [] call[1] = "pg_string" ->
         IF a.boxer = "the_string" THEN a.arg = call[2]
         ELSE IsPrefix(call[2] \o <<0>>, ObjectAt(a))
    [] call[1] \in DOMAIN MembersBoxer ->
         \A i \in DOMAIN call[2] : call[2][i] \in {AnyMember, a.arg[i]}
    [] call[1] \in DOMAIN FpBoxer -> FpMeans(call, a.arg[1])
    [] OTHER -> TRUE

Tested == outcome.verdict \in {"pass", "fail", "stray", "wild"}

\* An assertion passes exactly if the matcher means the value that was boxed,
\* and never reads what is not there, whichever was made first and whether or
\* not the matcher went through is(), which knows values from matchers by tags
\* that are given out as they are needed.
AssertIsRight ==
  (Tested /\ WellUsed(said.matcher, said.actual)) =>
    outcome.verdict = IF Accepts(said.matcher, said.actual) THEN "pass" ELSE "fail"

\* Finite numbers apart by no more than the last of the digits printed.
AgreeInDigits(x, y) ==
  LET size(n) == IF n < 0 THEN -n ELSE n IN
  /\ {x, y} \subseteq Finite
  /\ Num(x) * Num(y) > 0
  /\ size(x - y) * 10 ^ (PrintedDigits - 1) <= Max({size(x), size(y)})

\* Floating point numbers that may print alike.
MayLookAlike(e, a) ==
  /\ e.boxer = a.boxer
  /\ e.boxer \in {"the_float", "the_double"}
  /\ fp_printer => AgreeInDigits(e.arg[1], a.arg[1])

\* A failed assertion prints an expectation that differs from the actual value,
\* whatever was compared with what.  Only two numbers of one floating point type
\* may look alike: any two without a printer, and with the one of
\* src/fp/pfstest-fp-printf.c those that agree in the digits it prints.
FailureShowsDifference ==
  outcome.verdict = "fail" =>
    \/ outcome.expected # outcome.actual
    \/ said.matcher[1] = "equal_to" /\ MayLookAlike(said.expected, said.actual)

\* The documentation of int_members_match: each member of an array boxed by
\* the_int_array is tested with a matcher from the list.  The list is not empty,
\* nor longer than the array.
EveryMemberIsTested ==
  (/\ outcome.verdict = "pass"
   /\ said.matcher[1] = "int_members" /\ said.actual.boxer = "the_int_array"
   /\ Len(said.matcher[2]) \in 1..Len(said.actual.arg))
    => Len(said.matcher[2]) = Len(said.actual.arg)

\* Values, matchers and argument handlers have tags of their own, given out once.
TypeOK ==
  /\ tags.next \in 1..4
  /\ \A k \in {"value", "matcher", "arg_handler"} : tags[k] \in 0..(tags.next - 1)
  /\ Cardinality({tags.value, tags.matcher, tags.arg_handler} \ {PFSTEST_TAG_AUTO})
       = tags.next - 1
  /\ \A v \in {actual, expected} : v = Unmade \/ v.tag = tags.value
  /\ matcher = Unmade \/ matcher.tag = tags.matcher
  /\ handler = Unmade \/ handler.tag = tags.arg_handler
  /\ fp_printer \in BOOLEAN
=============================================================================
