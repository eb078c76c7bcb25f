------------------------------- MODULE Format -------------------------------
(***************************************************************************)
(* stringf.c: formatting into a buffer of limited size.  A format is read  *)
(* from left to right; each literal character and each field is a step     *)
(* that writes what fits and counts the rest.  Five functions share this;  *)
(* ssavef and fputstr, which the logs and fs_target_print use, each have a *)
(* static buffer that keeps what earlier calls left in it.                 *)
(***************************************************************************)
EXTENDS Integers, Sequences, FiniteSets

CONSTANTS
  Calls,      \* formats with their arguments
  DstSizes,   \* the sizes given to cpyf and slcpyf
  IobufMax,   \* IOBUF_MAX
  IntMax,     \* INT_MAX
  Printable,  \* the characters: Printable[n] has the code n
  Junk,       \* what a buffer of the caller holds
  MaxCalls    \* bound: how many calls are made

Functions == {"cpyf", "scpyf", "slcpyf", "ssavef", "fputstr"}
Sized     == {"cpyf", "slcpyf"}
Static    == {"ssavef", "fputstr"}
Convs     == {"d", "s", "c", "x", "p"}
NUL       == "\\0"
Digit     == <<"0", "1", "2", "3", "4", "5", "6", "7", "8", "9",
               "a", "b", "c", "d", "e", "f">>

\* An integer n; or the address n of a string s, NULL being 0.
Arg == [n : Int, s : Seq(STRING)]

FieldsOf(format) == {k \in DOMAIN format :
                       /\ format[k] = "%" /\ k + 1 \in DOMAIN format
                       /\ format[k + 1] \in Convs}

\* The argument of the field at k of the format.
ArgAt(c, k) == c.args[Cardinality({j \in FieldsOf(c.format) : j <= k})]

\* A call gives an argument of its range to each field, an address to %p.
ASSUME FormatAssumption ==
  /\ IobufMax \in Nat \ {0} /\ IntMax \in Nat /\ MaxCalls \in Nat
  /\ DstSizes \subseteq 0..IobufMax
  /\ DOMAIN Printable \subseteq 32..126
  /\ \A c \in Calls :
       /\ c.format \in Seq(STRING) /\ c.args \in Seq(Arg)
       /\ Cardinality(FieldsOf(c.format)) = Len(c.args)
       /\ \A n \in DOMAIN c.args : c.args[n].n \in (-(IntMax + 1))..IntMax
       /\ \A k \in FieldsOf(c.format) : c.format[k + 1] = "p" => ArgAt(c, k).n >= 0

VARIABLES
  fn, call, dstsize, \* the function called, with what
  ptr, ap,           \* the next character, the next argument
  len, disc,         \* t_iobuf: characters written, characters left out
  data,              \* data[f]: the buffer f works in
  pc, ret,           \* ret: what the function returns
  given,             \* what ssavef stores in *dst, or fputstr gives to write
  calls,             \* number of calls made
  before             \* history: the buffer when the function was called

vars == <<fn, call, dstsize, ptr, ap, len, disc, data, pc, ret, given, calls,
          before>>

Cells == 0..IobufMax     \* one more than any function may use
Nothing == <<>>
NoCall  == [format |-> <<>>, args |-> <<>>]

-----------------------------------------------------------------------------
(* What a field writes.                                                    *)

Least(m, n) == IF m < n THEN m ELSE n

\* The loop  nbr[--i] = n % base; n /= base
Numeral(base) ==
  LET digits[n \in Nat] ==
        IF n < base THEN <<Digit[n + 1]>>
        ELSE digits[n \div base] \o <<Digit[(n % base) + 1]>>
  IN  digits

UIntSize == 2 * (IntMax + 1)

\* Faulty variant: the number is not negated.
NotNegated(n) == n % UIntSize

\* c * -1 overflows for INT_MIN; the negation of the machine, read as a
\* uint32_t, is then its magnitude.
Magnitude(n) == IF n < 0 THEN (-n) % UIntSize ELSE n

Decimal(n) == (IF n < 0 THEN <<"-">> ELSE <<>>) \o Numeral(10)[Magnitude(n)]
Hex(n)  == Numeral(16)[n % UIntSize]
Ptr(n)  == <<"0", "x">> \o Numeral(16)[n]
Str(a)  == IF a.n = 0 THEN <<"(", "n", "u", "l", "l", ")">> ELSE a.s
Chr(c)  == IF c \in DOMAIN Printable THEN <<Printable[c]>>
           ELSE <<"\\", Digit[((c \div 16) % 16) + 1], Digit[(c % 16) + 1]>>

Text(conv, a) ==
  CASE conv = "d" -> Decimal(a.n) [] conv = "x" -> Hex(a.n) [] conv = "p" -> Ptr(a.n)
    [] conv = "c" -> Chr(a.n) [] conv = "s" -> Str(a)

-----------------------------------------------------------------------------
(* The calls.                                                              *)

Cap(f, size) == CASE f \in Sized -> size
                  [] f \in {"scpyf", "ssavef"} -> IobufMax - 1
                  [] f = "fputstr" -> IobufMax
cap == Cap(fn, dstsize)

Begin ==
  /\ pc = "idle" /\ calls < MaxCalls
  /\ calls' = calls + 1
  /\ fn' \in Functions /\ call' \in Calls
  /\ dstsize' \in IF fn' \in Sized THEN DstSizes ELSE {IobufMax}
  /\ ptr' = 1 /\ ap' = 1 /\ len' = 0 /\ disc' = 0
  /\ before' = data[fn']
  /\ pc' = "format"
  /\ UNCHANGED <<data, ret, given>>

\* Faulty variant: one character too many fits.
FitsOneMore(n) == Least(n, cap + 1 - len)
Fits(n) == Least(n, cap - len)

\* iob_write
Write(src) ==
  LET k == Fits(Len(src))
  IN  /\ data' = [data EXCEPT ![fn] = [n \in Cells |->
                    IF n \in len..(len + k - 1) THEN src[n - len + 1] ELSE @[n]]]
      /\ len' = len + k
      /\ disc' = disc + Len(src) - k

Literal ==
  /\ pc = "format"
  /\ ptr \in DOMAIN call.format
  /\ call.format[ptr] # "%"
  /\ Write(<<call.format[ptr]>>)
  /\ ptr' = ptr + 1
  /\ UNCHANGED <<fn, call, dstsize, ap, pc, ret, given, calls, before>>

Field ==
  /\ pc = "format"
  /\ ptr \in FieldsOf(call.format)
  /\ Write(Text(call.format[ptr + 1], call.args[ap]))
  /\ ptr' = ptr + 2 /\ ap' = ap + 1
  /\ UNCHANGED <<fn, call, dstsize, pc, ret, given, calls, before>>

\* "%" before any other character stands for itself, and so does that one.
NoField ==
  /\ pc = "format"
  /\ ptr \in DOMAIN call.format \ FieldsOf(call.format)
  /\ call.format[ptr] = "%"
  /\ Write(<<"%">>)
  /\ ptr' = ptr + 1
  /\ UNCHANGED <<fn, call, dstsize, ap, pc, ret, given, calls, before>>

-----------------------------------------------------------------------------
(* What each function does at the end.                                     *)

Formatted(f) == pc = "format" /\ fn = f /\ ptr \notin DOMAIN call.format

Returns(n) ==
  /\ ret' = n
  /\ pc' = "done"
  /\ UNCHANGED <<fn, call, dstsize, ptr, ap, len, disc, calls, before>>

Cpyf == Formatted("cpyf") /\ Returns(len + disc) /\ UNCHANGED <<data, given>>

Scpyf ==
  /\ Formatted("scpyf")
  /\ data' = [data EXCEPT ![fn][len] = NUL]
  /\ Returns(len + disc)
  /\ UNCHANGED given

\* Faulty variant: the end is written behind the text even if that is full.
LastAlways == len
Last == IF len = dstsize THEN len - 1 ELSE len

Slcpyf ==
  /\ Formatted("slcpyf")
  /\ data' = IF dstsize = 0 THEN data ELSE [data EXCEPT ![fn][Last] = NUL]
  /\ Returns(len + disc)
  /\ UNCHANGED given

Taken(n) == [k \in 1..n |-> data[fn][k - 1]]

\* malloc may fail.
Ssavef ==
  /\ Formatted("ssavef")
  /\ \/ given' = Append(Taken(len), NUL) /\ Returns(len + disc)
     \/ given' = Nothing /\ Returns(-1)
  /\ UNCHANGED data

Fputstr ==
  /\ Formatted("fputstr")
  /\ given' = Taken(len)
  /\ \E n \in -1..len : Returns(n)
  /\ UNCHANGED data

Untouched == [f \in Functions |-> [n \in Cells |->
                IF f \in Static THEN NUL ELSE Junk]]

\* Only the static buffers outlive the call.
Return ==
  /\ pc = "done"
  /\ pc' = "idle"
  /\ fn' = "cpyf" /\ call' = NoCall /\ dstsize' = 0 /\ ptr' = 1 /\ ap' = 1
  /\ len' = 0 /\ disc' = 0 /\ ret' = 0 /\ given' = Nothing
  /\ data' = [f \in Functions |-> IF f \in Static THEN data[f] ELSE Untouched[f]]
  /\ before' = Untouched["cpyf"]
  /\ UNCHANGED calls

Init ==
  /\ fn = "cpyf" /\ call = NoCall /\ dstsize = 0 /\ ptr = 1 /\ ap = 1
  /\ len = 0 /\ disc = 0 /\ ret = 0 /\ given = Nothing
  /\ data = Untouched /\ before = Untouched["cpyf"]
  /\ calls = 0 /\ pc = "idle"

Next == \/ Begin \/ Literal \/ Field \/ NoField
        \/ Cpyf \/ Scpyf \/ Slcpyf \/ Ssavef \/ Fputstr \/ Return

Spec == Init /\ [][Next]_vars

-----------------------------------------------------------------------------
(* The whole text, as printf would give it.                                *)

\* Power(base)[k] is base^k.
Power(base) ==
  LET power[k \in Nat] == IF k = 0 THEN 1 ELSE base * power[k - 1]
  IN  power

\* The digits of n from its value: the kth from the right counts base^k.
Width(n, base) == CHOOSE w \in 1..(n + 1) :
                    /\ Power(base)[w] > n
                    /\ \A v \in 1..(w - 1) : Power(base)[v] <= n
Digits(n, base) ==
  [k \in 1..Width(n, base) |->
     Digit[((n \div Power(base)[Width(n, base) - k]) % base) + 1]]

Meant(conv, a) ==
  CASE conv = "d" /\ a.n >= 0 -> Digits(a.n, 10)
    [] conv = "d" /\ a.n < 0 -> <<"-">> \o Digits(-a.n, 10)
    [] conv = "x" -> Digits(IF a.n < 0 THEN a.n + UIntSize ELSE a.n, 16)
    [] conv = "p" -> <<"0", "x">> \o Digits(a.n, 16)
    [] OTHER -> Text(conv, a)

\* What the nth character of the format stands for.
PieceAt(c, n) ==
  IF n \in FieldsOf(c.format) THEN Meant(c.format[n + 1], ArgAt(c, n))
  ELSE IF n - 1 \in FieldsOf(c.format) THEN <<>> ELSE <<c.format[n]>>

\* What the first n characters stand for.
TextTo(c) ==
  LET upTo[n \in 0..Len(c.format)] ==
        IF n = 0 THEN <<>> ELSE upTo[n - 1] \o PieceAt(c, n)
  IN  upTo

WholeText == TextTo(call)[Len(call.format)]

Beginning(n) == SubSeq(WholeText, 1, Least(n, Len(WholeText)))

-----------------------------------------------------------------------------
(* Properties.                                                             *)

\* What iob_write counts stays within the buffer, for every format; the reading
\* of the format and of the arguments stays within them.
FormatTypeOK ==
  /\ fn \in Functions /\ dstsize \in 0..IobufMax
  /\ ptr \in 1..(Len(call.format) + 1) /\ ap \in 1..(Len(call.args) + 1)
  /\ len \in 0..cap /\ disc \in Nat /\ ret \in Int
  /\ \A f \in Functions : DOMAIN data[f] = Cells
  /\ pc \in {"idle", "format", "done"} /\ calls \in 0..MaxCalls

\* "a maximum of 'dstsize' bytes ... truncated" (stringf.h:32): a function
\* writes the beginning of the text that fits and counts what does not; it
\* leaves the memory behind alone, and what fputstr prints has nothing of
\* earlier calls in it.  What slcpyf returns is the length of the whole text, as
\* strlcpy does (stringf.h:65); so it is of cpyf and scpyf for a text that fits.  For
\* one that is cut nothing is said of these two: they return the same, and stringf.h:42
\* and 54 say "number of bytes written".
WritesWhatFits ==
  (pc = "done") =>
    /\ \A n \in 0..(cap - 1) :
         (fn # "slcpyf" \/ n < dstsize - 1) /\ n < Len(WholeText)
           => data[fn][n] = WholeText[n + 1]
    /\ \A n \in Cells :
         n > Len(WholeText) \/ n > cap \/ (n = cap /\ fn # "scpyf")
           => data[fn][n] = before[n]
    /\ fn = "slcpyf" => ret = Len(WholeText)
    /\ fn \in {"cpyf", "scpyf"} /\ Len(WholeText) <= cap => ret = Len(WholeText)
    /\ fn = "fputstr" => given = Beginning(IobufMax)

\* The string in the buffer, if it ends there.
IsString(s) ==
  /\ \A n \in DOMAIN s : data[fn][n - 1] = s[n]
  /\ data[fn][Len(s)] = NUL

\* "Behaves as strlcpy ... Null termination is guaranteed unless dstsize is 0"
\* (stringf.h:59), and likewise for scpyf and ssavef.
EndsWithNUL ==
  pc = "done" =>
    /\ fn = "slcpyf" /\ dstsize > 0 => IsString(Beginning(dstsize - 1))
    /\ fn = "scpyf" => IsString(Beginning(IobufMax - 1))
    /\ fn = "ssavef" =>
         \/ ret = -1 /\ given = Nothing
         \/ ret = Len(WholeText) /\ given = Append(Beginning(IobufMax - 1), NUL)
=============================================================================
