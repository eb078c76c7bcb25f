------------------------------ MODULE ArgStack ------------------------------
(***************************************************************************)
(* From the command line to the files of the service (main.c, args.c,      *)
(* atoi.c): getopts walks over argv, main parses the arguments of -c and   *)
(* -s on the way and pushes file names on a bounded stack, the stack is    *)
(* turned over and service_init pops it.  A string is a value; what the    *)
(* code tells apart in it is in the sets and tables below.                 *)
(***************************************************************************)
EXTENDS Integers, CronParse

CONSTANTS
  Names,          \* arguments that are not options, "current" among them
  Empty,          \* the empty argument, one of them
  Number,         \* Number[n]: what the numeral n among them stands for
  IntMax,         \* INT_MAX
  FileStackSize,  \* FILE_STACK_SIZE
  Inputs          \* command lines, with the cron strings some names stand for

Flags     == {"-d"}
WithArg   == {"-c", "-s"}
EndsHere  == {"-v", "-h", "-x"}    \* version, usage, and usage for an illegal option
Arguments == Names \cup Flags \cup WithArg \cup EndsHere \cup {"--"}
Null      == "NULL"

ASSUME ArgStackAssumption ==
  /\ FileStackSize \in Nat \ {0} /\ IntMax \in Nat
  /\ {"current", Empty} \subseteq Names /\ DOMAIN Number \subseteq Names \ {Empty}
  /\ \A n \in DOMAIN Number : Number[n] \in Int
  /\ Names \cap (Flags \cup WithArg \cup EndsHere \cup {"--", Null}) = {}
  /\ \A input \in Inputs : /\ input.argv \in Seq(Arguments)
                           /\ DOMAIN input.texts \subseteq Names \ {Empty}
                           /\ \A n \in DOMAIN input.texts :
                                input.texts[n] \in Seq(Numerals \cup Marks)

VARIABLES
  argv,           \* the arguments
  texts,          \* texts[n]: the cron string written n in argv
  av, ac,         \* getopts_t: position of the next one, how many are left
  stack, top,     \* __stack, __top
  seconds, cron,  \* args_t: n_seconds, whether there is a cron_str
  pc, popped      \* files that service_init got

argVars == <<argv, texts, av, ac, stack, top, seconds, cron, pc, popped>>
vars    == <<argVars, cronVars>>

At(i) == IF i \in DOMAIN argv THEN argv[i] ELSE Null

\* Faulty variant: the last slot is thought to be free.
PushPast(f) ==
  IF top < FileStackSize
  THEN top' = top + 1 /\ stack' = [stack EXCEPT ![top + 1] = f]
  ELSE UNCHANGED <<stack, top>>

\* filename_stack_push: a name that does not fit is dropped without a word.
Push(f) ==
  IF top < FileStackSize - 1
  THEN top' = top + 1 /\ stack' = [stack EXCEPT ![top + 1] = f]
  ELSE UNCHANGED <<stack, top>>

Advance(n) == av' = av + n /\ ac' = ac - n

-----------------------------------------------------------------------------
(* One turn of the loop of main around getopts_next.                       *)

\* Without an argument main prints the usage and exits.
NoArguments ==
  /\ pc = "options" /\ argv = <<>>
  /\ pc' = "exit"
  /\ UNCHANGED <<argv, texts, av, ac, stack, top, seconds, cron, popped, cronVars>>

EndOfOptions ==
  /\ pc = "options" /\ argv # <<>> /\ (ac = 0 \/ At(av) = "--")
  /\ pc' = "rest"
  /\ UNCHANGED <<argv, texts, av, ac, stack, top, seconds, cron, popped, cronVars>>

File ==
  /\ pc = "options" /\ ac > 0 /\ At(av) \in Names
  /\ Advance(1)
  /\ IF top = FileStackSize THEN UNCHANGED <<stack, top>>
     ELSE Push(IF At(av) = "current" THEN "./" ELSE At(av))
  /\ UNCHANGED <<argv, texts, seconds, cron, pc, popped, cronVars>>

Flag ==
  /\ pc = "options" /\ ac > 0 /\ At(av) \in Flags
  /\ Advance(1)
  /\ UNCHANGED <<argv, texts, stack, top, seconds, cron, pc, popped, cronVars>>

\* -c and -s take the next argument, whatever it is.
HasArg(opt) == pc = "options" /\ ac > 1 /\ At(av) = opt

TextOf(a) == IF a = Empty THEN <<>>
             ELSE IF a \in DOMAIN texts THEN texts[a] ELSE <<"x">>

CronArg ==
  /\ HasArg("-c")
  /\ Advance(2)
  /\ cron' = TRUE
  /\ pc' = "cron"
  /\ StartCron(TextOf(At(av + 1)))
  /\ UNCHANGED <<argv, texts, stack, top, seconds, popped>>

\* main is inside of cron_check, and then goes on.
ParseCron == pc = "cron" /\ CronNext /\ UNCHANGED argVars

CronParsed ==
  /\ pc = "cron" /\ where = "done"
  /\ pc' = "options"
  /\ UNCHANGED <<argv, texts, av, ac, stack, top, seconds, cron, popped, cronVars>>

\* atoi32 stops at INT_MAX, and one further for a negative number.
ParsesTo(a) ==
  a \in DOMAIN Number /\ Number[a] \in (-(IntMax + 1))..IntMax

\* Faulty variant: the sign is lost.
AsPositive(n) == IF n < 0 THEN -n ELSE n
\* The int32_t that atoi32 writes, read as a uint32_t.
AsUnsigned(n) == n % (2 * (IntMax + 1))

\* uint32_parse looks at what atoi32 left unread: that is nothing of a numeral, nor
\* of the empty argument, for which atoi32 returns before it writes a result.
Accepted(a) == a = Empty \/ ParsesTo(a)

\* Faulty variant: the empty argument counts as 0.
EmptyIsZero(a) == IF a = Empty THEN 0 ELSE AsUnsigned(Number[a])
SecondsAfter(a) == IF a = Empty THEN seconds ELSE AsUnsigned(Number[a])

SecondsArg ==
  /\ HasArg("-s")
  /\ Advance(2)
  /\ IF Accepted(At(av + 1))
     THEN seconds' = SecondsAfter(At(av + 1)) /\ UNCHANGED pc
     ELSE pc' = "exit" /\ UNCHANGED seconds
  /\ UNCHANGED <<argv, texts, stack, top, cron, popped, cronVars>>

\* No argument left (opts.fail), or an option that ends the program
Stops ==
  /\ pc = "options" /\ ac > 0
  /\ At(av) \in EndsHere \/ (At(av) \in WithArg /\ ac = 1)
  /\ Advance(1)
  /\ pc' = "exit"
  /\ UNCHANGED <<argv, texts, stack, top, seconds, cron, popped, cronVars>>

-----------------------------------------------------------------------------
(* The end of main.                                                        *)

\* while (*opts.av++ && *opts.av): what follows "--"
Rest ==
  /\ pc = "rest"
  /\ av' = av + 1
  /\ IF At(av) # Null /\ At(av + 1) # Null
     THEN Push(At(av + 1)) /\ UNCHANGED pc
     ELSE pc' = "reverse" /\ UNCHANGED <<stack, top>>
  /\ UNCHANGED <<argv, texts, ac, seconds, cron, popped, cronVars>>

\* Faulty variant: slots 0 to top - 1.
ReversedFromZero ==
  [i \in DOMAIN stack |-> IF i <= top THEN stack[top - i] ELSE stack[i]]

\* stack_reverse_in_place: slots 1 to top
Reversed ==
  [i \in DOMAIN stack |-> IF i \in 1..top THEN stack[top + 1 - i] ELSE stack[i]]

\* "-s, -c are not compatible": a number of 0 counts as none.
Reverse ==
  /\ pc = "reverse"
  /\ stack' = Reversed
  /\ pc' = IF seconds # 0 /\ cron THEN "exit" ELSE "service"
  /\ UNCHANGED <<argv, texts, av, ac, top, seconds, cron, popped, cronVars>>

\* filename_stack_pop, called by service_init until it returns NULL
Pop ==
  /\ pc = "service"
  /\ IF top > 0
     THEN top' = top - 1 /\ popped' = Append(popped, stack[top]) /\ UNCHANGED pc
     ELSE pc' = "served" /\ UNCHANGED <<top, popped>>
  /\ UNCHANGED <<argv, texts, av, ac, stack, seconds, cron, cronVars>>

-----------------------------------------------------------------------------

Init ==
  /\ \E input \in Inputs : argv = input.argv /\ texts = input.texts
  /\ av = 1 /\ ac = Len(argv)
  /\ stack = [i \in 0..FileStackSize - 1 |-> Null] /\ top = 0
  /\ seconds = 0 /\ cron = FALSE /\ pc = "options" /\ popped = <<>>
  /\ CronInit

Next == \/ NoArguments \/ EndOfOptions \/ File \/ Flag
        \/ CronArg \/ ParseCron \/ CronParsed \/ SecondsArg
        \/ Stops \/ Rest \/ Reverse \/ Pop

Spec == Init /\ [][Next]_vars

\* main runs.
FairSpec == Spec /\ WF_vars(Next)

-----------------------------------------------------------------------------
(* The usage, "[-vsh] [-c CRON_STR] [FILES] ...", read as a whole.         *)

\* The positions of the options and files, from i on.
PlacesFrom[i \in 1..(Len(argv) + 2)] ==
  IF i > Len(argv) \/ At(i) = "--" THEN {}
  ELSE {i} \cup PlacesFrom[IF At(i) \in WithArg THEN i + 2 ELSE i + 1]

Places  == PlacesFrom[1]
DashDash == {i \in DOMAIN argv : argv[i] = "--" /\ Places \subseteq 1..(i - 1)
               /\ (i - 1 \in Places => argv[i - 1] \notin WithArg)}

\* Files are the arguments that are no options, no argument of one, and
\* everything after the first "--" that is none either.
IsFile(i) == \/ i \in Places /\ argv[i] \in Names
             \/ \E d \in DashDash : i > d
FileName(i) == IF i \in Places /\ argv[i] = "current" THEN "./" ELSE argv[i]
NthFile(n) == CHOOSE i \in DOMAIN argv :
                IsFile(i) /\ Cardinality({j \in 1..i : IsFile(j)}) = n
FilesGiven == [n \in 1..Cardinality({i \in DOMAIN argv : IsFile(i)}) |->
                 FileName(NthFile(n))]

Uses(opt) == {i \in Places : argv[i] = opt}
\* The uses of -s that name a number: an empty argument is taken and says nothing.
Numbered  == {i \in Uses("-s") : argv[i + 1] # Empty}
LastArg(uses) == argv[1 + CHOOSE i \in uses : \A j \in uses : j <= i]

-----------------------------------------------------------------------------
(* Properties.                                                             *)

\* The counters of getopts and the stack stay within their bounds: ac, which
\* is unsigned, does not wrap although an option with an argument counts twice.
ArgStackTypeOK ==
  /\ CronTypeOK
  /\ argv \in Seq(Arguments)
  /\ ac \in 0..Len(argv) /\ av \in 1..(Len(argv) + 2)
  /\ DOMAIN stack = 0..FileStackSize - 1 /\ top \in 0..FileStackSize - 1
  /\ seconds \in 0..(2 * IntMax + 1) /\ cron \in BOOLEAN
  /\ pc \in {"options", "cron", "rest", "reverse", "service", "served", "exit"}

\* main.c:36: the files are consumed in the same order as they were given; the
\* first FILE_STACK_SIZE - 1 of them, and none that was not given.
FilesInOrder ==
  /\ popped # <<>> => popped = SubSeq(FilesGiven, 1, Len(popped))
  /\ pc = "served" =>
       \/ popped = FilesGiven
       \/ Len(popped) = FileStackSize - 1 /\ Len(FilesGiven) >= FileStackSize

\* main.c:81: the service starts with the number of the last -s that names one,
\* 0 if none does (an empty argument is accepted and leaves the number as it was,
\* atoi.c:23), and after cron_check has read the string of the last -c to its end,
\* whatever options with arguments came before them.  The tables are those of
\* that string, by MeansWhatItSays, unless it is empty: cron_check then leaves them
\* as an earlier -c did (cron-parse.c:151), and nothing is said of them here.
OptionsAsGiven ==
  pc = "service" =>
    /\ seconds = IF Numbered = {} THEN 0
                 ELSE Number[LastArg(Numbered)] % (2 * (IntMax + 1))
    /\ cron = (Uses("-c") # {})
    /\ cron => text = TextOf(LastArg(Uses("-c")))
    /\ where = (IF cron THEN "done" ELSE "idle")

\* The command line is dealt with, unless a cron string has a step of 0.
MainGoesOn == <>(pc \in {"served", "exit"} \/ Hangs)
=============================================================================
