----------------------------- MODULE MCArgStack -----------------------------
(***************************************************************************)
(* Command lines of no to four options and files, with a stack of three    *)
(* names; and cron strings of many forms, over fields of a few values and  *)
(* bytes of four bits.                                                     *)
(***************************************************************************)
EXTENDS ArgStack

Q == INSTANCE SequencesExt

MCNames  == {"", "f", "g", "current", "c1", "0", "-4", "5"}
MCNumber == [n \in {"0", "-4", "5"} |-> CASE n = "0" -> 0 [] n = "5" -> 5
                                           [] n = "-4" -> -4]
MCValue  == [n \in {"0", "1", "2", "3", "5", "7", "13", "15", "16"} |->
               CASE n = "0" -> 0   [] n = "1" -> 1   [] n = "2" -> 2
                 [] n = "3" -> 3   [] n = "5" -> 5   [] n = "7" -> 7
                 [] n = "13" -> 13 [] n = "15" -> 15 [] n = "16" -> 16]

MCFieldMin  == <<0, 0, 1, 1, 0>>
MCFieldMax  == <<4, 2, 3, 2, 6>>
MCFieldSize == <<5, 3, 4, 3, 8>>

\* Up to three words of a command line, with empty arguments as a file, a cron
\* string and a number, and four without the options that are not needed to fill
\* the stack.
MCWords == {<<"f">>, <<"">>, <<"current">>, <<"-d">>, <<"-h">>, <<"--">>, <<"-c">>,
            <<"-c", "c1">>, <<"-c", "">>, <<"-s", "5">>, <<"-s", "-4">>,
            <<"-s", "0">>, <<"-s", "">>}
MCTexts == [n \in {"c1", "0"} |->
              CASE n = "c1" -> <<"2", ",", "0">> [] n = "0" -> <<"0">>]
MCCommandLines ==
  {[argv |-> Q!FlattenSeq(words), texts |-> MCTexts] :
     words \in UNION {[1..n -> MCWords] : n \in 0..3}
                \cup [1..4 -> {<<"f">>, <<"g">>, <<"--">>, <<"-c", "c1">>}]}

\* Digits that stand side by side would be one numeral.
Digits == {"0", "1", "2", "3", "5", "7"}
Apart(t) == \A n \in 1..(Len(t) - 1) :
              /\ t[n] \in DOMAIN MCValue => t[n + 1] \notin DOMAIN MCValue
              /\ t[n] = "*" => t[n + 1] \notin DOMAIN MCValue \ Digits

MCShort == {t \in UNION {[1..n -> {"*", "-", "/", ",", " ", ";", "x", "2", "16"}] :
                            n \in 1..4} : Apart(t)}

\* Ranges with a step, in the minutes, the days of the month and of the week.
Before(f) == Q!FlattenSeq([n \in 1..(f - 1) |-> <<"*", " ">>])
MCRanges == {Before(f) \o <<a, "-", b, "/", s>> :
               f \in {1, 3, 5}, a, b, s \in DOMAIN MCValue \ {"1", "5"}}

\* Lists, entries and the prefixes.
MCMixed == {<<p, a, ",", b, " ", c, ";", d, " ", "*", "/", e>> :
              p \in {"L", "Z", " "}, a, b \in {"0", "3", "16"},
              c, d, e \in {"1", "2"}}
MCDays == {Before(5) \o <<a>> : a \in DOMAIN MCValue}

MCCronLines == {[argv |-> <<"-c", "c1">>, texts |-> [n \in {"c1"} |-> t]] :
                  t \in MCShort \cup MCRanges \cup MCMixed \cup MCDays}
MCInputs == MCCommandLines \cup MCCronLines
MCDayInputs == {[argv |-> <<"-c", "c1">>, texts |-> [n \in {"c1"} |-> t]] :
                  t \in MCDays}
=============================================================================
