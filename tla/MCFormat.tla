------------------------------ MODULE MCFormat ------------------------------
(***************************************************************************)
(* Formats of a few characters, integers of eight bits, buffers of up to     *)
(* five characters.                                                        *)
(***************************************************************************)
EXTENDS Format

MCPrintable == [n \in {97} |-> "a"]

Number(n)  == [n |-> n, s |-> <<>>]
MCInts     == {Number(n) : n \in {-128, -9, 0, 7, 10, 127}}
MCChars    == {Number(n) : n \in {97, 10, 127}}
MCStrings  == {[n |-> 1, s |-> <<"u", "v">>], [n |-> 0, s |-> <<>>]}
MCPointers == {Number(n) : n \in {0, 20}}
ArgsFor(conv) == CASE conv \in {"d", "x"} -> MCInts [] conv = "c" -> MCChars
                   [] conv = "s" -> MCStrings [] conv = "p" -> MCPointers

\* One field between other characters, two fields, and none.
MCCalls ==
  UNION {{[format |-> front \o <<"%", conv>> \o back, args |-> <<a>>] :
            front \in {<<>>, <<"x", "%">>}, a \in ArgsFor(conv),
            back \in {<<>>, <<"d">>}} : conv \in Convs}
  \cup {[format |-> <<"%", c[1], "%", c[2]>>, args |-> <<a, b>>] :
          c \in {<<"d", "s">>, <<"s", "d">>}, a, b \in {[n |-> 1, s |-> <<"u">>]}}
  \cup {[format |-> f, args |-> <<>>] :
          f \in {<<>>, <<"%">>, <<"%", "%">>, <<"u", "v", "w">>,
                 <<"u", "v", "w", "x", "y", "z", "%">>}}
=============================================================================
