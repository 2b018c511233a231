------------------------------ MODULE PFReport ------------------------------
(***************************************************************************)
(* What the reporters write: the standard and the verbose reporter of      *)
(* src/reporters/pfstest-reporters-standard.c, and the one that writes     *)
(* XML.  The events they get are those PFRunner emits: a test is ignored,  *)
(* or fails any number of times (in its body, its fixture, a plugin), each *)
(* failure with a message that is printed character by character.          *)
(*                                                                         *)
(* A character is a string: a real one, or a word of fixed text without a  *)
(* newline, which print_char treats as its first letter.  The writer the   *)
(* reporter was given always succeeds.                                     *)
(***************************************************************************)
EXTENDS Integers, Sequences, SequencesExt, FiniteSets, TLC

CONSTANTS
  Suite,        \* the tests that run, as <<[name, file], ...>>
  Char,         \* the characters of messages
  File, Line,   \* where failures are: the characters of a name and a number
  MaxFailures,  \* failures in one test (bound)
  MaxChars      \* characters of all messages together (bound)

ASSUME ReportAssumption ==
  /\ Suite \in Seq([name : Seq(STRING), file : Seq(STRING)])
  /\ Char \subseteq STRING
  /\ File \subseteq Seq(STRING)
  /\ Line \subseteq Seq(STRING)
  /\ {MaxFailures, MaxChars} \subseteq Nat

VARIABLES
  rep,     \* the reporter object, with what it has written so far in rep.out
  at,      \* how far the run is
  story    \* history: what happened to each test that has started

vars == <<rep, at, story>>

NL     == "\n"
INDENT == "    "

\* reporter->char_writer
Write(r, c) == [r EXCEPT !.out = Append(@, c)]

-----------------------------------------------------------------------------
(* Characters *)

std_print_char(r, c) ==
  LET padded == IF r.indent /\ r.fresh_line /\ c # NL THEN Write(r, INDENT) ELSE r
  IN  Write([padded EXCEPT !.fresh_line = (c = NL)], c)

elem_references == {"<", ">", "&"}
attr_references == elem_references \cup {"\""}

Reference(c) == CASE c = "<" -> "&lt;" [] c = ">" -> "&gt;"
                  [] c = "&" -> "&amp;" [] c = "\"" -> "&quot;"

print_escaped_char(ref_table, c) == IF c \in ref_table THEN Reference(c) ELSE c

\* Variant: one table of references for the text and for attributes.
xml_print_char_one_table(r, c) ==
  LET padded  == IF r.in_message /\ r.fresh_line /\ c # NL THEN Write(r, INDENT) ELSE r
      written == IF r.in_message \/ r.in_attribute
                 THEN print_escaped_char(elem_references, c) ELSE c
  IN  Write([padded EXCEPT !.fresh_line = (c = NL)], written)

xml_print_char(r, c) ==
  LET padded  == IF r.in_message /\ r.fresh_line /\ c # NL THEN Write(r, INDENT) ELSE r
      written == IF r.in_message THEN print_escaped_char(elem_references, c)
                 ELSE IF r.in_attribute THEN print_escaped_char(attr_references, c)
                 ELSE c
  IN  Write([padded EXCEPT !.fresh_line = (c = NL)], written)

\* the dispatcher pfstest_reporter_print_char
print_char(r, c) ==
  IF r.vtable = "xml" THEN xml_print_char(r, c) ELSE std_print_char(r, c)

print_pg_str(r, s) == FoldLeft(print_char, r, s)

get_fresh_line(r) == IF r.fresh_line THEN r ELSE print_char(r, NL)

-----------------------------------------------------------------------------
(* The standard and the verbose reporter *)

colors == {"bold", "red", "green", "yellow", "very red"}

\* The escape sequences pass by print_char.
colorizer_start(r, color) == IF r.colorizer = "ansi" THEN Write(r, color) ELSE r

colorizer_reset(r) == IF r.colorizer = "ansi" THEN Write(r, "reset") ELSE r

Colored(r, color, s) == colorizer_reset(print_pg_str(colorizer_start(r, color), s))

Verbose(r) == r.vtable = "verbose"

Context(t) == t.file \o <<":">> \o t.name \o <<" ">>

print_context(r) == print_pg_str(get_fresh_line(r), Context(r.test))

\* a title, underlined
Banner == <<"PFSTest", NL, "===", NL>>

std_run_started(r) ==
  print_pg_str([r EXCEPT !.passed = 0, !.failed = 0, !.ignored = 0], Banner)

std_test_started(r, t) ==
  LET s == [r EXCEPT !.test_failed = FALSE, !.test_ignored = FALSE, !.test = t]
  IN  IF Verbose(r) THEN print_context(s) ELSE s

std_test_ignored(r) ==
  LET s == [r EXCEPT !.test_ignored = TRUE, !.ignored = @ + 1]
  IN  IF Verbose(r) THEN print_char(Colored(s, "yellow", <<"IGNORED">>), NL)
      ELSE print_char(s, "I")

\* Variant: the verbose reporter names the test before every failure.
std_test_failed_message_start_renamed(r, file, line) ==
  LET failed  == Colored(print_context(r), "red", <<"FAIL">>)
      located == Colored(print_pg_str(failed, <<NL, INDENT, "Location: ">>),
                         "bold", file \o <<":">> \o line)
  IN  [print_char(located, NL) EXCEPT !.indent = TRUE]

\* The verbose reporter has printed the context when the test started.
std_test_failed_message_start(r, file, line) ==
  LET named   == IF Verbose(r) /\ ~r.test_failed THEN r ELSE print_context(r)
      failed  == Colored(named, "red", <<"FAIL">>)
      located == Colored(print_pg_str(failed, <<NL, INDENT, "Location: ">>),
                         "bold", file \o <<":">> \o line)
  IN  [print_char(located, NL) EXCEPT !.indent = TRUE]

std_test_failed_message_complete(r) ==
  LET s == IF r.test_failed THEN r
           ELSE [r EXCEPT !.failed = @ + 1, !.test_failed = TRUE]
  IN  [print_char(s, NL) EXCEPT !.indent = FALSE]

std_test_complete(r) ==
  LET s == [r EXCEPT !.passed = @ + 1]
  IN  IF r.test_ignored \/ r.test_failed THEN r
      ELSE IF Verbose(r) THEN print_char(Colored(s, "green", <<"PASS">>), NL)
      ELSE print_char(s, ".")

\* print_int and a word, in color if the count calls for it
Count(r, n, word, color, lit) ==
  LET s == <<ToString(n), word>>
  IN  IF lit THEN Colored(r, color, s) ELSE print_pg_str(r, s)

std_run_complete(r) ==
  LET begun   == print_pg_str(r, <<NL, "Run complete. ">>)
      passed  == Count(begun, r.passed, " passed", "green",
                       r.passed > 0 /\ r.failed = 0)
      failed  == Count(print_char(passed, ", "), r.failed, " failed", "very red",
                       r.failed > 0)
      ignored == Count(print_char(failed, ", "), r.ignored, " ignored", "yellow",
                       r.ignored > 0)
  IN  print_char(ignored, NL)

-----------------------------------------------------------------------------
(* The XML reporter *)

xml_run_started(r) ==
  print_pg_str([r EXCEPT !.in_message = FALSE, !.in_attribute = FALSE, !.failed = FALSE],
    <<"<?xml?>", NL, "<", "testsuite version=", "\"", "1.0", "\"", ">", NL>>)

\* a string that is escaped as the value of an attribute
Attribute(r, s) ==
  [print_pg_str([r EXCEPT !.in_attribute = TRUE], s) EXCEPT !.in_attribute = FALSE]

xml_test_started(r, t) ==
  LET s == [r EXCEPT !.test_ignored = FALSE, !.test_failed = FALSE,
                     !.in_message = FALSE, !.in_attribute = FALSE]
      named == print_pg_str(s, <<"  ", "<", "test name=", "\"">> \o t.name
                                 \o <<"\"", " file=", "\"">>)
  IN  print_pg_str(Attribute(named, t.file), <<"\"", " result=", "\"">>)

xml_test_ignored(r) == [r EXCEPT !.test_ignored = TRUE]

xml_test_failed_message_start(r, file, line) ==
  LET s == print_pg_str([r EXCEPT !.test_failed = TRUE],
                        <<"fail", "\"", " fail_file=", "\"">>)
      located == print_pg_str(Attribute(s, file),
                   <<"\"", " fail_line=", "\"">> \o line \o <<"\"", ">", NL>>)
  IN  [located EXCEPT !.in_message = TRUE]

\* Variant: the reporter stays in the message.
xml_test_failed_message_complete_open(r) == [r EXCEPT !.failed = TRUE]

xml_test_failed_message_complete(r) ==
  [r EXCEPT !.in_message = FALSE, !.failed = TRUE]

xml_test_complete(r) ==
  LET s == [r EXCEPT !.in_message = FALSE]
  IN  print_pg_str(IF ~r.test_ignored /\ r.test_failed THEN get_fresh_line(s) ELSE s,
        IF r.test_ignored     THEN <<"ignored", "\"", " /", ">", NL>>
        ELSE IF r.test_failed THEN <<"  ", "<", "/test", ">", NL>>
        ELSE                       <<"pass", "\"", " /", ">", NL>>)

xml_run_complete(r) == print_pg_str(r, <<"<", "/testsuite", ">", NL>>)

return_value(r) ==
  LET failed == IF r.vtable = "xml" THEN r.failed ELSE r.failed # 0
  IN  IF failed THEN "EXIT_FAILURE" ELSE "EXIT_SUCCESS"

-----------------------------------------------------------------------------
(* The reporters as pfstest_reporter_..._new makes them: what the          *)
(* constructor leaves alone has any value, for the memory is not cleared.  *)

NoTest == [name |-> << >>, file |-> << >>]

Builtin == [vtable : {"standard", "verbose"}, colorizer : {"null", "ansi"},
            passed : 0..1, failed : {0}, ignored : {0},
            test_failed : BOOLEAN, test_ignored : BOOLEAN,
            fresh_line : {TRUE}, indent : {FALSE}, test : {NoTest}, out : {<< >>}]

Xml == [vtable : {"xml"}, failed : BOOLEAN,
        test_ignored : BOOLEAN, test_failed : BOOLEAN, fresh_line : BOOLEAN,
        in_message : BOOLEAN, in_attribute : BOOLEAN, out : {<< >>}]

Init ==
  /\ rep \in Builtin \cup Xml
  /\ at = "new"
  /\ story = << >>

IsXml == rep.vtable = "xml"

run_started ==
  /\ at = "new"
  /\ at' = "between"
  /\ rep' = IF IsXml THEN xml_run_started(rep) ELSE std_run_started(rep)
  /\ UNCHANGED story

test_started ==
  LET t == Suite[Len(story) + 1] IN
  /\ at = "between"
  /\ Len(story) < Len(Suite)
  /\ at' = "test"
  /\ rep' = IF IsXml THEN xml_test_started(rep, t) ELSE std_test_started(rep, t)
  /\ story' = Append(story, [ignored |-> FALSE, failures |-> << >>])

current == Len(story)

test_ignored ==
  /\ at = "test"
  /\ story[current].failures = << >>
  /\ at' = "ignored"
  /\ rep' = IF IsXml THEN xml_test_ignored(rep) ELSE std_test_ignored(rep)
  /\ story' = [story EXCEPT ![current].ignored = TRUE]

test_failed_message_start(file, line) ==
  /\ at = "test"
  /\ Len(story[current].failures) < MaxFailures
  /\ at' = "message"
  /\ rep' = IF IsXml THEN xml_test_failed_message_start(rep, file, line)
            ELSE std_test_failed_message_start(rep, file, line)
  /\ story' = [story EXCEPT ![current].failures =
                 Append(@, [file |-> file, line |-> line, text |-> << >>])]

CharsPrinted ==
  LET chars[i \in 0..Len(story)] ==
        IF i = 0 THEN 0
        ELSE FoldLeft(LAMBDA n, f : n + Len(f.text), chars[i - 1], story[i].failures)
  IN  chars[Len(story)]

\* One character of what the printer of the failure prints.
print_message(c) ==
  /\ at = "message"
  /\ CharsPrinted < MaxChars
  /\ rep' = print_char(rep, c)
  /\ story' = [story EXCEPT ![current].failures[Len(story[current].failures)].text =
                 Append(@, c)]
  /\ UNCHANGED at

test_failed_message_complete ==
  /\ at = "message"
  /\ at' = "test"
  /\ rep' = IF IsXml THEN xml_test_failed_message_complete(rep)
            ELSE std_test_failed_message_complete(rep)
  /\ UNCHANGED story

test_complete ==
  /\ at \in {"test", "ignored"}
  /\ at' = "between"
  /\ rep' = IF IsXml THEN xml_test_complete(rep) ELSE std_test_complete(rep)
  /\ UNCHANGED story

run_complete ==
  /\ at = "between"
  /\ at' = "end"
  /\ rep' = IF IsXml THEN xml_run_complete(rep) ELSE std_run_complete(rep)
  /\ UNCHANGED story

Next ==
  \/ run_started \/ test_started \/ test_ignored
  \/ \E file \in File, line \in Line : test_failed_message_start(file, line)
  \/ \E c \in Char : print_message(c)
  \/ test_failed_message_complete \/ test_complete \/ run_complete

Spec == Init /\ [][Next]_vars

-----------------------------------------------------------------------------
(* Reading back what was written *)

\* The lines of a sequence of characters, without the empty ones.
Lines(s) ==
  LET add(ls, c) == IF c = NL THEN Append(ls, << >>)
                    ELSE [ls EXCEPT ![Len(ls)] = Append(@, c)]
  IN  SelectSeq(FoldLeft(add, << << >> >>, s), LAMBDA l : l # << >>)

\* The lines; a line of marks ("..I.") counts as one line for every mark.
Items(s) ==
  LET items(l) == IF ToSet(l) \subseteq {".", "I"}
                  THEN [i \in DOMAIN l |-> <<l[i]>>] ELSE <<l>>
      ls == Lines(s)
  IN  FlattenSeq([i \in DOMAIN ls |-> items(ls[i])])

\* How the test i of the story reads in the standard and the verbose report.
TestItems(i) ==
  LET named(mark) == Context(Suite[i]) \o <<mark>>
      indented(l)    == <<INDENT>> \o l
      failure(f) ==
        LET ls == Lines(f.text)
        IN  <<named("FAIL"), <<INDENT, "Location: ">> \o f.file \o <<":">> \o f.line>>
            \o [j \in DOMAIN ls |-> indented(ls[j])]
      failures == story[i].failures
  IN  IF story[i].ignored
      THEN <<IF Verbose(rep) THEN named("IGNORED") ELSE <<"I">>>>
      ELSE IF failures = << >>
      THEN <<IF Verbose(rep) THEN named("PASS") ELSE <<".">>>>
      ELSE FlattenSeq([j \in DOMAIN failures |-> failure(failures[j])])

Ignored == {i \in DOMAIN story : story[i].ignored}
Failed  == {i \in DOMAIN story : story[i].failures # << >>}
Passed  == DOMAIN story \ (Ignored \cup Failed)

Summary ==
  <<"Run complete. ", ToString(Cardinality(Passed)), " passed", ", ",
    ToString(Cardinality(Failed)), " failed", ", ",
    ToString(Cardinality(Ignored)), " ignored">>

\* Every color is switched off again before the next one and before the line ends.
ColorsAlternate ==
  LET ansi == colors \cup {"reset"}
      s == SelectSeq(rep.out, LAMBDA c : c \in ansi \cup {NL})
  IN  \A i \in DOMAIN s :
        /\ s[i] \in colors => i < Len(s) /\ s[i + 1] = "reset"
        /\ s[i] = "reset"  => i > 1 /\ s[i - 1] \in colors

ExitStatusIsRight == return_value(rep) = "EXIT_FAILURE" <=> Failed # {}

\* Whatever happened in the tests so far, and whatever the messages contain,
\* the standard and the verbose report name every test that failed and only
\* those, with every failure, its place and the lines of its message indented
\* below it, one mark or line for every other test, the right totals and exit
\* status, and no color left on.
StandardReadsBack ==
  (~IsXml /\ at \in {"between", "end"}) =>
    /\ LET plain == SelectSeq(rep.out, LAMBDA c : c \notin colors \cup {"reset"})
       IN  Items(plain) = Lines(Banner)
             \o FlattenSeq([i \in DOMAIN story |-> TestItems(i)])
             \o (IF at = "end" THEN <<Summary>> ELSE << >>)
    /\ ColorsAlternate
    /\ ExitStatusIsRight

\* A reader of XML: between tags, in a tag, or in the value of an attribute.
Closes == ("/test" :> "test name=") @@ ("/testsuite" :> "testsuite version=")

Unescape(c) == CASE c = "&lt;" -> "<" [] c = "&gt;" -> ">"
                 [] c = "&amp;" -> "&" [] c = "&quot;" -> "\"" [] OTHER -> c

OpenElement(p) == IF p.open = << >> THEN "none" ELSE Last(p.open)

\* The tag p.words with the values p.values has ended.
ReadTag(p) ==
  LET name == p.words[1]
      q    == [p EXCEPT !.mode = "content"]
      r    == IF name # "test name=" THEN q
              ELSE [q EXCEPT !.tests = Append(@,
                      [words |-> p.words, values |-> p.values, text |-> << >>])]
  IN  IF name \in DOMAIN Closes
      THEN IF OpenElement(p) = Closes[name] THEN [r EXCEPT !.open = Front(@)]
           ELSE [r EXCEPT !.mode = "error"]
      ELSE IF Last(p.words) = " /" THEN r
      ELSE [r EXCEPT !.open = Append(@, name)]

ReadXml(p, c) ==
  CASE p.mode = "content" /\ c = "<" -> [p EXCEPT !.mode = "tag", !.words = << >>,
                                                  !.values = << >>]
    [] p.mode = "content" /\ c \notin {"<", "&"} ->
         IF OpenElement(p) # "test name=" THEN p
         ELSE [p EXCEPT !.tests[Len(p.tests)].text = Append(@, Unescape(c))]
    [] p.mode = "tag" /\ c = "\""  -> [p EXCEPT !.mode = "value",
                                                !.values = Append(@, << >>)]
    [] p.mode = "tag" /\ c = ">" /\ p.words # << >> -> ReadTag(p)
    [] p.mode = "tag" /\ c \notin {"\"", ">", "<", "&"} ->
         [p EXCEPT !.words = Append(@, c)]
    [] p.mode = "value" /\ c = "\"" -> [p EXCEPT !.mode = "tag"]
    [] p.mode = "value" /\ c \notin {"\"", "<", "&"} ->
         [p EXCEPT !.values[Len(p.values)] = Append(@, Unescape(c))]
    [] OTHER -> [p EXCEPT !.mode = "error"]

ReadBack ==
  FoldLeft(ReadXml, [mode |-> "content", words |-> << >>, values |-> << >>,
                     open |-> << >>, tests |-> << >>], rep.out)

\* What a failure after the first adds to the text of the element.
TextOfLater(f) ==
  <<"fail", "\"", " fail_file=", "\"">> \o f.file \o
  <<"\"", " fail_line=", "\"">> \o f.line \o <<"\"", ">", NL>> \o f.text

\* The element of the test i of the story.
IsElementOf(e, i) ==
  LET failures == story[i].failures
      f        == failures[1]
      outcome  == << IF story[i].ignored THEN "ignored" ELSE "pass" >>
      about    == <<Suite[i].name, Suite[i].file>>
      message  == <<NL>> \o f.text
                  \o FlattenSeq([j \in DOMAIN Tail(failures) |-> TextOfLater(failures[j + 1])])
      text     == SelectSeq(e.text, LAMBDA c : c # INDENT)
  IN  IF failures = << >>
      THEN /\ e.words = <<"test name=", " file=", " result=", " /">>
           /\ e.values = about \o << outcome >>
      ELSE /\ e.words = <<"test name=", " file=", " result=", " fail_file=", " fail_line=">>
           /\ e.values = about \o << <<"fail">>, f.file, f.line >>
           /\ text \in {message \o end : end \in {<<"  ">>, <<NL, "  ">>}}

\* Whatever names of files and messages contain, the XML report is well formed
\* and reads back as the tests that ran, each with its result and the place and
\* the message of its first failure; the places and messages of later ones are
\* in its text, whole and in order; the exit status agrees.
XmlReadsBack ==
  (IsXml /\ at \in {"between", "end"}) =>
    LET doc == ReadBack IN
    /\ doc.mode = "content"
    /\ doc.open = IF at = "end" THEN << >> ELSE <<"testsuite version=">>
    /\ Len(doc.tests) = Len(story)
    /\ \A i \in DOMAIN story : IsElementOf(doc.tests[i], i)
    /\ ExitStatusIsRight

\* The flags that choose between indented, escaped and raw output fit where the
\* run is; the reporter's counts are those of tests.
TypeOK ==
  /\ at \in {"new", "between", "test", "ignored", "message", "end"}
  /\ Len(story) <= Len(Suite)
  /\ \A i \in DOMAIN story : story[i].ignored => story[i].failures = << >>
  /\ rep.vtable \in {"standard", "verbose", "xml"}
  /\ rep.fresh_line \in BOOLEAN
  /\ at # "new" =>
       /\ IF IsXml THEN ~rep.in_attribute /\ (rep.in_message <=> at = "message")
          ELSE rep.indent <=> at = "message"
       /\ ~IsXml => {rep.passed, rep.failed, rep.ignored} \subseteq 0..Len(Suite)
=============================================================================
