----------------------------- MODULE MCPFReport -----------------------------
(***************************************************************************)
(* Two tests, the second in a file whose name needs escaping; messages of  *)
(* up to three characters, of those that end lines, that mean something in *)
(* XML, and that look like the mark of a passed test.                      *)
(***************************************************************************)
EXTENDS PFReport

TwoTests == <<[name |-> <<"one">>, file |-> <<"a.c">>],
              [name |-> <<"two">>, file |-> <<"b", "\"", "<">>]>>

TrickyChars == {".", NL, "<"}

TrickyFiles == {<<"\"", "&">>}

SomeLines == {<<"7">>}
=============================================================================
