------------------------------- MODULE PFCli --------------------------------
(***************************************************************************)
(* src/cli/pfstest-cli.c: pfstest_main parses argv word by word and then   *)
(* prints its usage, prints the registration commands, or runs the         *)
(* registered tests with the reporter and the filters it was asked for.    *)
(***************************************************************************)
EXTENDS Naturals, Sequences, FiniteSets

CONSTANTS
  Word,       \* words that are no flag
  MaxArgs,    \* (bound) words on the command line, the program's name included
  NULL

Flags      == {"-v", "-c", "-x", "-r"}    \* parse_flag
ValueFlags == {"-f", "-n"}                \* parse_value

ASSUME CliAssumption ==
  /\ Word \cap (Flags \cup ValueFlags) = {}
  /\ NULL \notin Word \cup Flags \cup ValueFlags

Words == Word \cup Flags \cup ValueFlags

VARIABLES
  argv,    \* the words, without the NULL that ends them
  argp,    \* index of the word the parser looks at
  args,    \* pfstest_arguments_t
  outcome  \* what pfstest_main goes on to do

vars == <<argv, argp, args, outcome>>

field ==
  [f \in Flags \cup ValueFlags |->
     CASE f = "-v" -> "verbose" [] f = "-c" -> "color" [] f = "-x" -> "xml"
       [] f = "-r" -> "print_register_commands"
       [] f = "-f" -> "filter_file" [] f = "-n" -> "filter_name"]

reset_args ==
  [verbose |-> FALSE, xml |-> FALSE, color |-> FALSE,
   print_register_commands |-> FALSE, filter_file |-> NULL, filter_name |-> NULL]

Init ==
  /\ argv \in UNION {[1..n -> Words] : n \in 0..MaxArgs}
  /\ argp = IF argv = << >> THEN 1 ELSE 2
  /\ args = reset_args
  /\ outcome = "parsing"

\* argv[i], the terminating NULL included
At(i) == IF i <= Len(argv) THEN argv[i] ELSE NULL

Parsing == outcome = "parsing" /\ argp <= Len(argv)

\* Variant: the word is looked at again.
parse_flag_stays ==
  /\ Parsing
  /\ argv[argp] \in Flags
  /\ args' = [args EXCEPT ![field[argv[argp]]] = TRUE]
  /\ UNCHANGED <<argv, argp, outcome>>

parse_flag ==
  /\ Parsing
  /\ argv[argp] \in Flags
  /\ args' = [args EXCEPT ![field[argv[argp]]] = TRUE]
  /\ argp' = argp + 1
  /\ UNCHANGED <<argv, outcome>>

\* Variant: the value is missing and is skipped all the same.
parse_value_blind ==
  /\ Parsing
  /\ argv[argp] \in ValueFlags
  /\ args' = [args EXCEPT ![field[argv[argp]]] = At(argp + 1)]
  /\ argp' = argp + 2
  /\ UNCHANGED <<argv, outcome>>

parse_value ==
  /\ Parsing
  /\ argv[argp] \in ValueFlags
  /\ At(argp + 1) # NULL
  /\ args' = [args EXCEPT ![field[argv[argp]]] = At(argp + 1)]
  /\ argp' = argp + 2
  /\ UNCHANGED <<argv, outcome>>

\* A value is missing, or the word is no flag.
parse_error ==
  /\ Parsing
  /\ \/ argv[argp] \in ValueFlags /\ At(argp + 1) = NULL
     \/ argv[argp] \in Word
  /\ outcome' = "usage"
  /\ UNCHANGED <<argv, argp, args>>

\* Variant: the two rules in the other order.
sanitize_args_swapped(a) ==
  [a EXCEPT !.verbose = (@ /\ ~a.xml) \/ a.filter_name # NULL]

sanitize_args(a) ==
  [a EXCEPT !.verbose = (@ \/ a.filter_name # NULL) /\ ~a.xml]

pfstest_main ==
  /\ outcome = "parsing"
  /\ argp > Len(argv)
  /\ args' = IF argv = << >> THEN args ELSE sanitize_args(args)
  /\ outcome' = IF args'.print_register_commands THEN "register_commands"
                ELSE IF args'.verbose THEN "verbose"
                ELSE IF args'.xml THEN "xml" ELSE "standard"
  /\ UNCHANGED <<argv, argp>>

Decided == outcome # "parsing" /\ UNCHANGED vars

Next == parse_flag \/ parse_value \/ parse_error \/ pfstest_main \/ Decided

Spec == Init /\ [][Next]_vars

\* pfstest_main is one thread and waits for nothing.
FairSpec == Spec /\ WF_vars(Next)

-----------------------------------------------------------------------------
(***************************************************************************)
(* The parser never looks behind the NULL at the end of argv.              *)
(***************************************************************************)
StaysInArgv == argp <= Len(argv) + 1

(***************************************************************************)
(* The reference: the flags of a command line are the words at a set of    *)
(* positions such that every other word is the value of the flag before.   *)
(***************************************************************************)
AreFlagsOf(P, words) ==
  /\ \A i \in 2..Len(words) :
       i \in P <=> ~(i - 1 \in P /\ words[i - 1] \in ValueFlags)
  /\ \A i \in P :
       \/ words[i] \in Flags
       \/ words[i] \in ValueFlags /\ i < Len(words)

Has(P, flag) == \E i \in P : argv[i] = flag

Given(P, flag, value) ==
  IF ~Has(P, flag) THEN value = NULL
  ELSE \E i \in P : /\ argv[i] = flag
                    /\ argv[i + 1] = value
                    /\ \A j \in P : argv[j] = flag => j <= i

Means(P) ==
  /\ Given(P, "-f", args.filter_file)
  /\ Given(P, "-n", args.filter_name)
  /\ args.color = Has(P, "-c")
  /\ outcome =
       IF Has(P, "-r") THEN "register_commands"
       ELSE IF Has(P, "-x") THEN "xml"
       ELSE IF Has(P, "-v") \/ Has(P, "-n") THEN "verbose" ELSE "standard"

(***************************************************************************)
(* pfstest_main does what the command line means: a word that follows -f   *)
(* or -n is its value, even if it looks like a flag, the last of several   *)
(* -f or -n counts, -n asks for the verbose reporter and -x overrides it   *)
(* and -v; and it prints its usage when the words mean nothing.            *)
(***************************************************************************)
DoesWhatArgvMeans ==
  outcome # "parsing" =>
    IF outcome = "usage" THEN \A P \in SUBSET (2..Len(argv)) : ~AreFlagsOf(P, argv)
    ELSE \E P \in SUBSET (2..Len(argv)) : AreFlagsOf(P, argv) /\ Means(P)

(***************************************************************************)
(* Every command line is decided.                                          *)
(***************************************************************************)
ParsingEnds == <>(outcome # "parsing")
=============================================================================
