----------------------------- MODULE PFCliProofs -----------------------------
(***************************************************************************)
(* Proofs about the command line parser, for command lines of any length   *)
(* and any words.                                                          *)
(***************************************************************************)
EXTENDS PFCli, TLAPS, Integers

Arguments ==
  [verbose : BOOLEAN, xml : BOOLEAN, color : BOOLEAN,
   print_register_commands : BOOLEAN,
   filter_file : Words \cup {NULL}, filter_name : Words \cup {NULL}]

Outcomes == {"parsing", "usage", "register_commands", "verbose", "xml", "standard"}

\* The variables, and the parser's place in argv.
CliTypes ==
  /\ argv \in Seq(Words)
  /\ args \in Arguments
  /\ outcome \in Outcomes
  /\ argp \in Nat
  /\ argp <= Len(argv) + 1
  /\ IF argv = << >> THEN argp = 1 ELSE argp >= 2

\* P are the places of the flags before argp, and argv[argp] is not a value.
Parsed(P) ==
  /\ P \subseteq 2..(argp - 1)
  /\ \A i \in 2..(argp - 1) :
       i \in P <=> ~(i - 1 \in P /\ argv[i - 1] \in ValueFlags)
  /\ \A i \in P : argv[i] \in Flags \cup ValueFlags
  /\ argp - 1 \in P => argv[argp - 1] \notin ValueFlags

\* The arguments say what the flags at P ask for.
Asked(P) ==
  /\ Given(P, "-f", args.filter_file)
  /\ Given(P, "-n", args.filter_name)
  /\ args.color = Has(P, "-c")
  /\ args.verbose = Has(P, "-v")
  /\ args.xml = Has(P, "-x")
  /\ args.print_register_commands = Has(P, "-r")

\* There is no other way to read the words before argp.
OnlyReading(P) ==
  \A Q \in SUBSET (2..Len(argv)) :
    AreFlagsOf(Q, argv) => \A i \in 2..(argp - 1) : i \in Q <=> i \in P

(***************************************************************************)
(* The inductive invariant: what has been parsed is the one way to read the*)
(* words before argp, and the arguments are what these words ask for.      *)
(***************************************************************************)
CliInv ==
  /\ CliTypes
  /\ outcome = "parsing" => \E P : Parsed(P) /\ Asked(P) /\ OnlyReading(P)
  /\ DoesWhatArgvMeans


-----------------------------------------------------------------------------
(* Lemmas about the words of a command line *)

\* The field of args each flag stands for.
LEMMA Fields ==
  /\ field["-v"] = "verbose" /\ field["-c"] = "color" /\ field["-x"] = "xml"
  /\ field["-r"] = "print_register_commands"
  /\ field["-f"] = "filter_file" /\ field["-n"] = "filter_name"
  BY DEF field, Flags, ValueFlags

\* One more flag.
LEMMA HasAdded ==
  ASSUME NEW P, NEW p, NEW f
  PROVE  Has(P \cup {p}, f) <=> Has(P, f) \/ argv[p] = f
  BY DEF Has

\* Another word does not change the value given last.
LEMMA GivenKept ==
  ASSUME NEW P, NEW p, NEW f, NEW value, argv[p] # f, Given(P, f, value)
  PROVE  Given(P \cup {p}, f, value)
<1>1. Has(P \cup {p}, f) <=> Has(P, f)
  BY HasAdded
<1> QED
  BY <1>1 DEF Given

\* The value given last is the one behind the flag just read.
LEMMA GivenAdded ==
  ASSUME NEW p \in Nat, NEW P \in SUBSET (2..(p - 1)), NEW f, argv[p] = f
  PROVE  Given(P \cup {p}, f, argv[p + 1])
<1>1. Has(P \cup {p}, f)
  BY HasAdded
<1>2. \A j \in P \cup {p} : j <= p
  OBVIOUS
<1> QED
  BY <1>1, <1>2 DEF Given

\* The word after a flag that was parsed is in argv if it is the flag's value.
LEMMA ValueIsThere ==
  ASSUME CliTypes, NEW P, Parsed(P), NEW i \in P, argv[i] \in ValueFlags
  PROVE  i + 1 \in 1..Len(argv) /\ argv[i + 1] \in Words
<1>1. i \in 2..(argp - 1) /\ i # argp - 1 /\ argp \in Nat /\ argp <= Len(argv) + 1
  BY DEF Parsed, CliTypes
<1>2. i + 1 \in 1..Len(argv)
  BY <1>1 DEF CliTypes
<1> QED
  BY <1>2 DEF CliTypes

\* If the words have a meaning, the parser is at a flag of it.
LEMMA ParserIsAtFlag ==
  ASSUME CliTypes, NEW P, Parsed(P), OnlyReading(P), argp <= Len(argv),
         NEW Q \in SUBSET (2..Len(argv)), AreFlagsOf(Q, argv)
  PROVE  argp \in Q
<1>1. argp \in 2..Len(argv)
  BY DEF CliTypes
<1>2. argp \in Q <=> ~(argp - 1 \in Q /\ argv[argp - 1] \in ValueFlags)
  BY <1>1 DEF AreFlagsOf
<1>3. CASE argp = 2
  <2>1. argp - 1 \notin 2..Len(argv)
    BY <1>3
  <2> QED
    BY <1>2, <2>1
<1>4. CASE argp # 2
  <2>1. argp - 1 \in 2..(argp - 1)
    BY <1>1, <1>4
  <2>2. argp - 1 \in Q <=> argp - 1 \in P
    BY <2>1 DEF OnlyReading
  <2> QED
    BY <1>2, <2>2 DEF Parsed
<1> QED
  BY <1>3, <1>4

\* One more flag is read, with its value if it takes one.
LEMMA FlagRead ==
  ASSUME CliAssumption, CliTypes, NEW P, Parsed(P), OnlyReading(P),
         argp <= Len(argv), UNCHANGED argv,
         NEW R, R = P \cup {argp},
         \/ argv[argp] \in Flags /\ argp' = argp + 1
         \/ argv[argp] \in ValueFlags /\ argp' = argp + 2
  PROVE  Parsed(R)' /\ OnlyReading(R)'
<1>1. /\ argp \in 2..Len(argv) /\ Len(argv) \in Nat
      /\ Flags \cap ValueFlags = {}
  BY DEF CliTypes, Flags, ValueFlags
<1>2. /\ P \subseteq 2..(argp - 1)
      /\ \A i \in 2..(argp - 1) :
           i \in P <=> ~(i - 1 \in P /\ argv[i - 1] \in ValueFlags)
      /\ \A i \in P : argv[i] \in Flags \cup ValueFlags
      /\ argp - 1 \in P => argv[argp - 1] \notin ValueFlags
  BY DEF Parsed
<1>3. \A i \in 2..(argp - 1) : i \in R <=> i \in P
  BY <1>1
<1>4. \A i \in 2..(argp - 1) : i - 1 \in R <=> i - 1 \in P
  BY <1>1
<1>5. argp \in R /\ (argp - 1 \in R <=> argp - 1 \in P)
  BY <1>1
<1>6. /\ R \subseteq 2..argp
      /\ \A i \in 2..argp : i \in R <=> ~(i - 1 \in R /\ argv[i - 1] \in ValueFlags)
      /\ \A i \in R : argv[i] \in Flags \cup ValueFlags
  <2>1. \A i \in 2..argp : i \in 2..(argp - 1) \/ i = argp
    BY <1>1
  <2> QED
    BY <1>1, <1>2, <1>3, <1>4, <1>5, <2>1
<1>7. \A Q \in SUBSET (2..Len(argv)) :
        AreFlagsOf(Q, argv) => \A i \in 2..argp : i \in Q <=> i \in R
  <2> SUFFICES ASSUME NEW Q \in SUBSET (2..Len(argv)), AreFlagsOf(Q, argv),
                      NEW i \in 2..argp
               PROVE  i \in Q <=> i \in R
    OBVIOUS
  <2>1. CASE i = argp
    BY <1>5, <2>1, ParserIsAtFlag
  <2>2. CASE i # argp
    <3>1. i \in 2..(argp - 1)
      BY <1>1, <2>2
    <3> QED
      BY <1>3, <3>1 DEF OnlyReading
  <2> QED
    BY <2>1, <2>2
<1>8. CASE argv[argp] \in Flags /\ argp' = argp + 1
  <2>1. argp' - 1 = argp /\ argv[argp] \notin ValueFlags
    BY <1>1, <1>8
  <2>2. Parsed(R)'
    BY <1>6, <2>1 DEF Parsed
  <2>3. OnlyReading(R)'
    BY <1>7, <2>1 DEF OnlyReading
  <2> QED
    BY <2>2, <2>3
<1>9. CASE argv[argp] \in ValueFlags /\ argp' = argp + 2
  <2>1. argp' - 1 = argp + 1 /\ argp + 1 \notin R
    BY <1>1, <1>6, <1>9
  <2>2. \A i \in 2..(argp + 1) : i \in 2..argp \/ i = argp + 1
    BY <1>1
  <2>3. \A i \in 2..(argp + 1) : i \in R <=> ~(i - 1 \in R /\ argv[i - 1] \in ValueFlags)
    <3> SUFFICES ASSUME NEW i \in 2..(argp + 1)
                 PROVE  i \in R <=> ~(i - 1 \in R /\ argv[i - 1] \in ValueFlags)
      OBVIOUS
    <3>1. CASE i = argp + 1
      <4>1. i - 1 = argp
        BY <1>1, <3>1
      <4> QED
        BY <1>5, <1>9, <2>1, <3>1, <4>1
    <3> QED
      BY <1>6, <2>2, <3>1
  <2>4. R \subseteq 2..(argp + 1)
    BY <1>1, <1>6
  <2>5. Parsed(R)'
    BY <1>6, <2>1, <2>3, <2>4 DEF Parsed
  <2>6. ASSUME NEW Q \in SUBSET (2..Len(argv)), AreFlagsOf(Q, argv)
        PROVE  argp + 1 \notin Q
    <3>1. argp \in Q
      BY <2>6, ParserIsAtFlag
    <3>2. CASE argp + 1 \in 2..Len(argv)
      <4>1. argp + 1 \in Q <=> ~(argp \in Q /\ argv[argp] \in ValueFlags)
        <5>1. (argp + 1) - 1 = argp
          BY <1>1
        <5> QED
          BY <2>6, <3>2, <5>1 DEF AreFlagsOf
      <4> QED
        BY <1>9, <3>1, <4>1
    <3> QED
      BY <3>2
  <2>7. OnlyReading(R)'
    BY <1>7, <2>1, <2>2, <2>6 DEF OnlyReading
  <2> QED
    BY <2>5, <2>7
<1> QED
  BY <1>8, <1>9

\* What the words asked for before, and the field the new flag sets.
LEMMA AskedAfter ==
  ASSUME CliTypes, NEW P, Parsed(P), Asked(P), NEW R, R = P \cup {argp},
         UNCHANGED argv, argp <= Len(argv),
         args'.filter_file = IF argv[argp] = "-f" THEN argv[argp + 1] ELSE args.filter_file,
         args'.filter_name = IF argv[argp] = "-n" THEN argv[argp + 1] ELSE args.filter_name,
         args'.color = (args.color \/ argv[argp] = "-c"),
         args'.verbose = (args.verbose \/ argv[argp] = "-v"),
         args'.xml = (args.xml \/ argv[argp] = "-x"),
         args'.print_register_commands = (args.print_register_commands \/ argv[argp] = "-r")
  PROVE  Asked(R)'
<1>1. argp \in Nat /\ P \in SUBSET (2..(argp - 1))
  BY DEF CliTypes, Parsed
<1>2. Given(R, "-f", args'.filter_file) /\ Given(R, "-n", args'.filter_name)
  <2>1. Given(P, "-f", args.filter_file) /\ Given(P, "-n", args.filter_name)
    BY DEF Asked
  <2> QED
    BY <1>1, <2>1, GivenKept, GivenAdded
<1>3. Given(R, "-f", args.filter_file)' /\ Given(R, "-n", args.filter_name)'
  BY <1>2 DEF Given, Has
<1>4. \A f : Has(R, f)' <=> Has(P, f) \/ argv[argp] = f
  <2>1. \A f : Has(R, f)' <=> Has(R, f)
    BY DEF Has
  <2> QED
    BY <2>1, HasAdded
<1>5. /\ args'.color = Has(R, "-c")' /\ args'.verbose = Has(R, "-v")'
      /\ args'.xml = Has(R, "-x")' /\ args'.print_register_commands = Has(R, "-r")'
  <2>1. /\ args.color = Has(P, "-c") /\ args.verbose = Has(P, "-v")
        /\ args.xml = Has(P, "-x") /\ args.print_register_commands = Has(P, "-r")
    BY DEF Asked
  <2>2. \A f : Has(R, f)' \in BOOLEAN
    BY DEF Has
  <2>3. \A f : Has(R, f)' = (Has(P, f) \/ argv[argp] = f)
    BY <1>4, <2>2, Zenon
  <2> QED
    BY <2>1, <2>3, Zenon
<1> QED
  BY <1>3, <1>5 DEF Asked

\* A flag sets its field and no other.
LEMMA FlagSets ==
  ASSUME CliTypes, parse_flag
  PROVE  /\ args' \in Arguments
         /\ args'.filter_file = args.filter_file /\ args'.filter_name = args.filter_name
         /\ args'.color = (args.color \/ argv[argp] = "-c")
         /\ args'.verbose = (args.verbose \/ argv[argp] = "-v")
         /\ args'.xml = (args.xml \/ argv[argp] = "-x")
         /\ args'.print_register_commands =
              (args.print_register_commands \/ argv[argp] = "-r")
<1>1. args \in Arguments
  BY DEF CliTypes
<1>2. CASE argv[argp] = "-v"
  <2>1. args' = [args EXCEPT !.verbose = TRUE]
    BY <1>2, Fields DEF parse_flag
  <2> QED
    BY <1>1, <1>2, <2>1 DEF Arguments
<1>3. CASE argv[argp] = "-c"
  <2>1. args' = [args EXCEPT !.color = TRUE]
    BY <1>3, Fields DEF parse_flag
  <2> QED
    BY <1>1, <1>3, <2>1 DEF Arguments
<1>4. CASE argv[argp] = "-x"
  <2>1. args' = [args EXCEPT !.xml = TRUE]
    BY <1>4, Fields DEF parse_flag
  <2> QED
    BY <1>1, <1>4, <2>1 DEF Arguments
<1>5. CASE argv[argp] = "-r"
  <2>1. args' = [args EXCEPT !.print_register_commands = TRUE]
    BY <1>5, Fields DEF parse_flag
  <2> QED
    BY <1>1, <1>5, <2>1 DEF Arguments
<1> QED
  BY <1>2, <1>3, <1>4, <1>5 DEF parse_flag, Flags

\* What parse_value changes: the field of its flag, to the word behind it.
LEMMA ValueSets ==
  ASSUME CliTypes, parse_value, argv[argp + 1] \in Words, argp + 1 <= Len(argv)
  PROVE  /\ args' \in Arguments
         /\ args'.filter_file = IF argv[argp] = "-f" THEN argv[argp + 1] ELSE args.filter_file
         /\ args'.filter_name = IF argv[argp] = "-n" THEN argv[argp + 1] ELSE args.filter_name
         /\ args'.color = args.color /\ args'.verbose = args.verbose
         /\ args'.xml = args.xml
         /\ args'.print_register_commands = args.print_register_commands
<1>1. args \in Arguments /\ At(argp + 1) = argv[argp + 1]
  BY DEF CliTypes, At
<1>2. CASE argv[argp] = "-f"
  <2>1. args' = [args EXCEPT !.filter_file = argv[argp + 1]]
    BY <1>1, <1>2, Fields DEF parse_value
  <2> QED
    BY <1>1, <1>2, <2>1 DEF Arguments
<1>3. CASE argv[argp] = "-n"
  <2>1. args' = [args EXCEPT !.filter_name = argv[argp + 1]]
    BY <1>1, <1>3, Fields DEF parse_value
  <2> QED
    BY <1>1, <1>3, <2>1 DEF Arguments
<1> QED
  BY <1>2, <1>3 DEF parse_value, ValueFlags

\* A word that is missing is the NULL at the end of argv, and nothing else is.
LEMMA OnlyTheEndIsNULL ==
  ASSUME CliAssumption, CliTypes, argp <= Len(argv)
  PROVE  At(argp + 1) = NULL <=> argp = Len(argv)
<1>1. Len(argv) \in Nat /\ argp \in Nat
  BY DEF CliTypes
<1>2. argp + 1 <= Len(argv) => argv[argp + 1] \in Words
  BY <1>1 DEF CliTypes
<1>3. NULL \notin Words
  BY DEF CliAssumption, Words
<1> QED
  BY <1>1, <1>2, <1>3 DEF At

(***************************************************************************)
(* When the parser got to the end, it has read the command line the way    *)
(* the reference reads it.                                                 *)
(***************************************************************************)
LEMMA ReadToTheEnd ==
  ASSUME CliTypes, argp > Len(argv), NEW P, Parsed(P)
  PROVE  P \in SUBSET (2..Len(argv)) /\ AreFlagsOf(P, argv)
<1>1. CASE argv = << >>
  <2>1. argp = 1 /\ Len(argv) = 0
    BY <1>1 DEF CliTypes
  <2>2. P = {}
    BY <2>1 DEF Parsed
  <2> QED
    BY <2>1, <2>2 DEF AreFlagsOf
<1>2. CASE argv # << >>
  <2>1. argp - 1 = Len(argv) /\ Len(argv) \in Nat
    BY DEF CliTypes
  <2>2. /\ P \subseteq 2..Len(argv)
        /\ \A i \in 2..Len(argv) :
             i \in P <=> ~(i - 1 \in P /\ argv[i - 1] \in ValueFlags)
        /\ \A i \in P : argv[i] \in Flags \cup ValueFlags
        /\ Len(argv) \in P => argv[Len(argv)] \notin ValueFlags
    BY <2>1 DEF Parsed
  <2>3. \A i \in P : argv[i] \in Flags \/ (argv[i] \in ValueFlags /\ i < Len(argv))
    BY <2>1, <2>2
  <2> QED
    BY <2>2, <2>3 DEF AreFlagsOf
<1> QED
  BY <1>1, <1>2

\* sanitize_args changes verbose only.
LEMMA SanitizedIs ==
  ASSUME NEW a \in Arguments
  PROVE  /\ sanitize_args(a) \in Arguments
         /\ sanitize_args(a).filter_file = a.filter_file
         /\ sanitize_args(a).filter_name = a.filter_name
         /\ sanitize_args(a).color = a.color
         /\ sanitize_args(a).xml = a.xml
         /\ sanitize_args(a).print_register_commands = a.print_register_commands
         /\ sanitize_args(a).verbose = ((a.verbose \/ a.filter_name # NULL) /\ ~a.xml)
<1> DEFINE v == (a.verbose \/ a.filter_name # NULL) /\ ~a.xml
<1>1. v \in BOOLEAN
  BY DEF Arguments
<1>2. sanitize_args(a) = [a EXCEPT !.verbose = v]
  BY DEF sanitize_args
<1> HIDE DEF v
<1>3. sanitize_args(a).verbose = v
  BY <1>2 DEF Arguments
<1> QED
  BY <1>1, <1>2, <1>3 DEF Arguments, v

\* -n was given if there is a name to filter by.
LEMMA NameGiven ==
  ASSUME CliAssumption, CliTypes, NEW P, Parsed(P), Asked(P)
  PROVE  args.filter_name # NULL <=> Has(P, "-n")
<1>1. Given(P, "-n", args.filter_name)
  BY DEF Asked
<1>2. ASSUME Has(P, "-n") PROVE args.filter_name # NULL
  <2>1. PICK i \in P : argv[i] = "-n" /\ argv[i + 1] = args.filter_name
    BY <1>1, <1>2 DEF Given
  <2>2. argv[i + 1] \in Words
    BY <2>1, ValueIsThere DEF ValueFlags
  <2> QED
    BY <2>1, <2>2 DEF CliAssumption, Words
<1> QED
  BY <1>1, <1>2 DEF Given

\* At the end of the command line pfstest_main does what it means.
LEMMA MainDoesIt ==
  ASSUME CliAssumption, CliTypes, NEW P, Parsed(P), Asked(P), pfstest_main
  PROVE  args' \in Arguments /\ outcome' \in Outcomes /\ DoesWhatArgvMeans'
<1>1. /\ argp > Len(argv) /\ UNCHANGED <<argv, argp>> /\ args \in Arguments
      /\ args' = IF argv = << >> THEN args ELSE sanitize_args(args)
  BY DEF pfstest_main, CliTypes
<1>2. P \in SUBSET (2..Len(argv)) /\ AreFlagsOf(P, argv)
  BY <1>1, ReadToTheEnd
<1>3. args.filter_name # NULL <=> Has(P, "-n")
  BY NameGiven
<1>4. /\ args.color = Has(P, "-c")
      /\ args.verbose = Has(P, "-v") /\ args.xml = Has(P, "-x")
      /\ args.print_register_commands = Has(P, "-r")
  BY DEF Asked
<1>5. argv = << >> => ~Has(P, "-v") /\ ~Has(P, "-n")
  BY <1>2 DEF Has
<1>6. /\ args' \in Arguments
      /\ args'.filter_file = args.filter_file
      /\ args'.filter_name = args.filter_name
      /\ args'.color = args.color
      /\ args'.xml = args.xml
      /\ args'.print_register_commands = args.print_register_commands
  BY <1>1, SanitizedIs
<1>7. args'.verbose <=> (Has(P, "-v") \/ Has(P, "-n")) /\ ~Has(P, "-x")
  <2>1. CASE argv = << >>
    BY <1>1, <1>4, <1>5, <2>1
  <2>2. CASE argv # << >>
    <3>1. args'.verbose = ((args.verbose \/ args.filter_name # NULL) /\ ~args.xml)
      BY <1>1, <2>2, SanitizedIs
    <3> QED
      BY <1>3, <1>4, <3>1
  <2> QED
    BY <2>1, <2>2
<1>8. outcome' = IF args'.print_register_commands THEN "register_commands"
                 ELSE IF args'.verbose THEN "verbose"
                 ELSE IF args'.xml THEN "xml" ELSE "standard"
  BY DEF pfstest_main
<1>9. outcome' =
        IF Has(P, "-r") THEN "register_commands"
        ELSE IF Has(P, "-x") THEN "xml"
        ELSE IF Has(P, "-v") \/ Has(P, "-n") THEN "verbose" ELSE "standard"
  <2>1. /\ args'.print_register_commands <=> Has(P, "-r")
        /\ args'.xml <=> Has(P, "-x")
    BY <1>4, <1>6
  <2>2. CASE Has(P, "-r")
    BY <1>8, <2>1, <2>2
  <2>3. CASE ~Has(P, "-r") /\ Has(P, "-x")
    BY <1>7, <1>8, <2>1, <2>3
  <2>4. CASE ~Has(P, "-r") /\ ~Has(P, "-x")
    BY <1>7, <1>8, <2>1, <2>4
  <2> QED
    BY <2>2, <2>3, <2>4
<1>10. outcome' \in Outcomes /\ outcome' # "usage"
  BY <1>9 DEF Outcomes
<1>11. \A f : Has(P, f)' = Has(P, f)
  BY <1>1 DEF Has
<1>12. Given(P, "-f", args.filter_file)' /\ Given(P, "-n", args.filter_name)'
  <2>1. Given(P, "-f", args'.filter_file) /\ Given(P, "-n", args'.filter_name)
    BY <1>6 DEF Asked
  <2> QED
    BY <1>1, <2>1 DEF Given, Has
<1>13. args'.color = Has(P, "-c")'
  BY <1>4, <1>6, <1>11, Zenon
<1>14. outcome' =
        IF Has(P, "-r")' THEN "register_commands"
        ELSE IF Has(P, "-x")' THEN "xml"
        ELSE IF Has(P, "-v")' \/ Has(P, "-n")' THEN "verbose" ELSE "standard"
  BY <1>9, <1>11
<1>15. Means(P)'
  BY <1>12, <1>13, <1>14 DEF Means
<1>16. P \in SUBSET (2..Len(argv')) /\ AreFlagsOf(P, argv')
  BY <1>1, <1>2
<1> QED
  BY <1>6, <1>10, <1>15, <1>16 DEF DoesWhatArgvMeans

\* Every step of the parser and of main keeps the invariant.
LEMMA CliInvStep ==
  ASSUME CliAssumption, CliInv, [Next]_vars
  PROVE  CliInv'
<1>0. CliTypes
  BY DEF CliInv
<1>1. ASSUME outcome = "parsing"
      PROVE  \E P : Parsed(P) /\ Asked(P) /\ OnlyReading(P)
  BY <1>1 DEF CliInv
<1>2. CASE parse_flag
  <2>1. /\ outcome = "parsing" /\ outcome' = outcome /\ argp <= Len(argv)
        /\ argv[argp] \in Flags /\ argp' = argp + 1 /\ UNCHANGED argv
    BY <1>2 DEF parse_flag, Parsing
  <2>2. PICK P : Parsed(P) /\ Asked(P) /\ OnlyReading(P)
    BY <1>1, <2>1
  <2>3. argv[argp] # "-f" /\ argv[argp] # "-n"
    BY <2>1 DEF Flags
  <2> DEFINE R == P \cup {argp}
  <2>4. \E S : S = R
    OBVIOUS
  <2>5. PICK S : S = P \cup {argp}
    BY <2>4
  <2>6. Parsed(S)' /\ OnlyReading(S)'
    BY <1>0, <2>1, <2>2, <2>5, FlagRead
  <2>7. Asked(S)'
    BY <1>0, <1>2, <2>1, <2>2, <2>3, <2>5, FlagSets, AskedAfter
  <2>8. CliTypes'
    BY <1>0, <1>2, <2>1, FlagSets DEF CliTypes
  <2>9. DoesWhatArgvMeans'
    BY <2>1 DEF DoesWhatArgvMeans
  <2> QED
    BY <2>6, <2>7, <2>8, <2>9 DEF CliInv
<1>3. CASE parse_value
  <2>1. /\ outcome = "parsing" /\ outcome' = outcome /\ argp <= Len(argv)
        /\ argv[argp] \in ValueFlags /\ argp' = argp + 2 /\ UNCHANGED argv
        /\ At(argp + 1) # NULL
    BY <1>3 DEF parse_value, Parsing
  <2>2. PICK P : Parsed(P) /\ Asked(P) /\ OnlyReading(P)
    BY <1>1, <2>1
  <2>3. /\ argv[argp] # "-c" /\ argv[argp] # "-v"
        /\ argv[argp] # "-x" /\ argv[argp] # "-r"
    BY <2>1 DEF ValueFlags
  <2>4. \E S : S = P \cup {argp}
    OBVIOUS
  <2>5. PICK S : S = P \cup {argp}
    BY <2>4
  <2>6. Parsed(S)' /\ OnlyReading(S)'
    BY <1>0, <2>1, <2>2, <2>5, FlagRead
  <2>7. argp + 1 <= Len(argv) /\ argv[argp + 1] \in Words
    BY <1>0, <2>1, OnlyTheEndIsNULL DEF CliTypes
  <2>8. /\ args' \in Arguments
        /\ args'.filter_file = IF argv[argp] = "-f" THEN argv[argp + 1] ELSE args.filter_file
        /\ args'.filter_name = IF argv[argp] = "-n" THEN argv[argp + 1] ELSE args.filter_name
        /\ args'.color = args.color /\ args'.verbose = args.verbose
        /\ args'.xml = args.xml
        /\ args'.print_register_commands = args.print_register_commands
    BY <1>0, <1>3, <2>7, ValueSets
  <2>9. /\ args.color \in BOOLEAN /\ args.verbose \in BOOLEAN /\ args.xml \in BOOLEAN
        /\ args.print_register_commands \in BOOLEAN
    BY <1>0 DEF CliTypes, Arguments
  <2>10. /\ args'.color = (args.color \/ argv[argp] = "-c")
         /\ args'.verbose = (args.verbose \/ argv[argp] = "-v")
         /\ args'.xml = (args.xml \/ argv[argp] = "-x")
         /\ args'.print_register_commands =
              (args.print_register_commands \/ argv[argp] = "-r")
    BY <2>3, <2>8, <2>9
  <2>11. Asked(S)'
    BY <1>0, <2>1, <2>2, <2>5, <2>8, <2>10, AskedAfter
  <2>12. CliTypes'
    BY <1>0, <2>1, <2>7, <2>8 DEF CliTypes
  <2>13. DoesWhatArgvMeans'
    BY <2>1 DEF DoesWhatArgvMeans
  <2> QED
    BY <2>6, <2>11, <2>12, <2>13 DEF CliInv
<1>4. CASE parse_error
  <2>1. /\ outcome = "parsing" /\ outcome' = "usage" /\ argp <= Len(argv)
        /\ UNCHANGED <<argv, argp, args>>
        /\ \/ argv[argp] \in ValueFlags /\ At(argp + 1) = NULL
           \/ argv[argp] \in Word
    BY <1>4 DEF parse_error, Parsing
  <2>2. PICK P : Parsed(P) /\ OnlyReading(P)
    BY <1>1, <2>1
  <2>3. ASSUME NEW Q \in SUBSET (2..Len(argv)), AreFlagsOf(Q, argv)
        PROVE  FALSE
    <3>1. argp \in Q
      BY <1>0, <2>1, <2>2, <2>3, ParserIsAtFlag
    <3>2. \/ argv[argp] \in Flags
          \/ argv[argp] \in ValueFlags /\ argp < Len(argv)
      BY <2>3, <3>1 DEF AreFlagsOf
    <3>3. argv[argp] \notin Word
      BY <3>2 DEF CliAssumption
    <3>4. At(argp + 1) = NULL <=> argp = Len(argv)
      BY <1>0, <2>1, OnlyTheEndIsNULL
    <3>5. Flags \cap ValueFlags = {}
      BY DEF Flags, ValueFlags
    <3> QED
      BY <1>0, <2>1, <3>2, <3>3, <3>4, <3>5 DEF CliTypes
  <2>4. DoesWhatArgvMeans'
    BY <2>1, <2>3 DEF DoesWhatArgvMeans
  <2>5. CliTypes'
    BY <1>0, <2>1 DEF CliTypes, Outcomes
  <2> QED
    BY <2>1, <2>4, <2>5 DEF CliInv
<1>5. CASE pfstest_main
  <2>1. outcome = "parsing" /\ UNCHANGED <<argv, argp>>
    BY <1>5 DEF pfstest_main
  <2>2. PICK P : Parsed(P) /\ Asked(P)
    BY <1>1, <2>1
  <2>3. args' \in Arguments /\ outcome' \in Outcomes /\ DoesWhatArgvMeans'
    BY <1>0, <1>5, <2>2, MainDoesIt
  <2>4. outcome' # "parsing"
    BY <1>5 DEF pfstest_main
  <2> QED
    BY <1>0, <2>1, <2>3, <2>4 DEF CliInv, CliTypes
<1>6. CASE UNCHANGED vars
  <2>1. /\ argv' = argv /\ argp' = argp /\ args' = args /\ outcome' = outcome
    BY <1>6 DEF vars
  <2>2. CliTypes'
    BY <1>0, <2>1 DEF CliTypes
  <2>3. \A P, f : Has(P, f)' = Has(P, f)
    BY <2>1 DEF Has
  <2>4. \A P, f, value : Given(P, f, value)' = Given(P, f, value)
    BY <2>1, <2>3 DEF Given
  <2>5. \A P : Means(P) => Means(P)'
    BY <2>1, <2>3, <2>4 DEF Means, Given
  <2>6. \A P : Asked(P) => Asked(P)'
    BY <2>1, <2>3, <2>4 DEF Asked, Given
  <2>7. \A P : Parsed(P) => Parsed(P)'
    BY <2>1 DEF Parsed
  <2>8. \A P : OnlyReading(P) => OnlyReading(P)'
    BY <2>1 DEF OnlyReading
  <2>9. DoesWhatArgvMeans'
    BY <2>1, <2>5 DEF CliInv, DoesWhatArgvMeans
  <2> QED
    BY <1>1, <2>1, <2>2, <2>6, <2>7, <2>8, <2>9 DEF CliInv
<1> QED
  BY <1>2, <1>3, <1>4, <1>5, <1>6 DEF Next, Decided

\* The invariant holds of args as reset_args leaves them.
LEMMA CliInvInit ==
  ASSUME CliAssumption, Init
  PROVE  CliInv
<1>1. PICK n \in 0..MaxArgs : argv \in [1..n -> Words]
  BY DEF Init
<1>2. argv \in Seq(Words) /\ Len(argv) = n /\ n \in Nat
  BY <1>1
<1>3. argv = << >> <=> n = 0
  BY <1>1, <1>2
<1>4. args \in Arguments
  BY DEF Init, reset_args, Arguments
<1>5. CliTypes
  BY <1>2, <1>3, <1>4 DEF Init, CliTypes, Outcomes
<1>6. Parsed({})
  BY DEF Init, Parsed
<1>7. \A f : ~Has({}, f)
  BY DEF Has
<1>8. Asked({})
  <2>1. \A f : Has({}, f) = FALSE
    BY DEF Has
  <2>2. Given({}, "-f", args.filter_file) /\ Given({}, "-n", args.filter_name)
    BY <1>7 DEF Init, reset_args, Given
  <2>3. /\ args.color = FALSE /\ args.verbose = FALSE /\ args.xml = FALSE
        /\ args.print_register_commands = FALSE
    BY DEF Init, reset_args
  <2> QED
    BY <2>1, <2>2, <2>3, Zenon DEF Asked
<1>9. OnlyReading({})
  BY DEF Init, OnlyReading
<1> QED
  BY <1>5, <1>6, <1>8, <1>9 DEF CliInv, Init, DoesWhatArgvMeans

\* What args holds follows from the words read, for every command line.
THEOREM CliInvHolds == Spec => []CliInv
<1>1. Init => CliInv
  BY CliAssumption, CliInvInit
<1>2. CliInv /\ [Next]_vars => CliInv'
  BY CliAssumption, CliInvStep
<1> QED
  BY <1>1, <1>2, PTL DEF Spec

\* The parser never looks behind the end of argv, however long argv is.
THEOREM ParserStaysInArgv == Spec => []StaysInArgv
<1>1. CliInv => StaysInArgv
  BY DEF CliInv, CliTypes, StaysInArgv
<1> QED
  BY <1>1, CliInvHolds, PTL

\* What pfstest_main does is what the command line means, for every command line.
THEOREM MainDoesWhatArgvMeans == Spec => []DoesWhatArgvMeans
<1>1. CliInv => DoesWhatArgvMeans
  BY DEF CliInv
<1> QED
  BY <1>1, CliInvHolds, PTL

(***************************************************************************)
(* Every step of the parser moves on through argv, no further than the     *)
(* NULL that ends it, or ends the parsing for good.                        *)
(***************************************************************************)
MovesOn ==
  /\ outcome = "parsing"
  /\ argv' = argv
  /\ \/ outcome' = "parsing" /\ argp < argp' /\ argp' <= Len(argv) + 1
     \/ outcome' # "parsing"

(***************************************************************************)
(* ParsingEnds rests on this variant: no word is looked at twice, so the   *)
(* parser takes at most Len(argv) steps before pfstest_main decides.       *)
(***************************************************************************)
THEOREM ParserMovesOn == Spec => [][MovesOn]_vars
<1>1. CliInv /\ [Next]_vars => [MovesOn]_vars
  <2> SUFFICES ASSUME CliTypes, Next
               PROVE  MovesOn \/ UNCHANGED vars
    BY DEF CliInv
  <2>0. argp \in Nat /\ Len(argv) \in Nat
    BY DEF CliTypes
  <2>1. CASE parse_flag
    BY <2>0, <2>1 DEF parse_flag, Parsing, MovesOn
  <2>2. CASE parse_value
    <3>1. argp <= Len(argv) /\ outcome = "parsing" /\ At(argp + 1) # NULL
          /\ argp' = argp + 2 /\ argv' = argv /\ outcome' = outcome
      BY <2>2 DEF parse_value, Parsing
    <3>2. argp + 1 <= Len(argv)
      BY <3>1 DEF At
    <3> QED
      BY <2>0, <3>1, <3>2 DEF MovesOn
  <2>3. CASE parse_error
    BY <2>3 DEF parse_error, Parsing, MovesOn
  <2>4. CASE pfstest_main
    <3>1. outcome = "parsing" /\ argv' = argv
      BY <2>4 DEF pfstest_main
    <3>2. outcome' # "parsing"
      BY <2>4 DEF pfstest_main
    <3> QED
      BY <3>1, <3>2 DEF MovesOn
  <2>5. CASE Decided
    BY <2>5 DEF Decided
  <2> QED
    BY <2>1, <2>2, <2>3, <2>4, <2>5 DEF Next
<1>2. CliInv /\ [Next]_vars => CliInv'
  BY CliAssumption, CliInvStep
<1>3. Init => CliInv
  BY CliAssumption, CliInvInit
<1> QED
  BY <1>1, <1>2, <1>3, PTL DEF Spec
=============================================================================
