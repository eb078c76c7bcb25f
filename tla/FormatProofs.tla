---------------------------- MODULE FormatProofs ----------------------------
(***************************************************************************)
(* Theorems about formatting: whatever the format, the arguments and the   *)
(* size of the buffer, it holds the beginning of the text.                 *)
(***************************************************************************)
EXTENDS Format, FiniteSetTheorems, SequenceTheorems, WellFoundedInduction, TLAPS

-----------------------------------------------------------------------------
(* Arithmetic.                                                             *)

\* The inclusion of finite sets is well-founded; of 0..n it is the order of Nat.
LEMMA Smallest ==
  ASSUME NEW T, T \subseteq Nat, T # {}
  PROVE  \E m \in T : \A n \in T : m <= n
<1> DEFINE U == {0..n : n \in T}
           R == StrictSubsetOrdering(Nat)
<1>1. \A n \in Nat : 0..n \in FiniteSubsetsOf(Nat)
  BY FS_Interval DEF FiniteSubsetsOf
<1>2. U \subseteq FiniteSubsetsOf(Nat) /\ U # {}
  BY <1>1
<1>3. \E x \in U : \A y \in U : ~(<<y, x>> \in R)
  <2> HIDE DEF U, R
  <2>1. IsWellFoundedOn(R, FiniteSubsetsOf(Nat))
    BY FS_StrictSubsetOrderingWellFounded DEF R
  <2> QED BY <1>2, <2>1, WFMin
<1>4. PICK m \in T : \A n \in T : <<0..n, 0..m>> \notin R
  BY <1>3
<1>5. ASSUME NEW n \in T, n < m PROVE FALSE
  <2>1. 0..n \subseteq 0..m /\ 0..n # 0..m /\ 0..n \subseteq Nat /\ 0..m \subseteq Nat
    <3>1. m \in 0..m /\ m \notin 0..n
      BY <1>5
    <3> QED BY <1>5, <3>1
  <2> QED BY <1>4, <2>1, <1>5 DEF StrictSubsetOrdering
<1> QED BY <1>4, <1>5

\* What holds at 0 and goes on from n to n + 1 holds everywhere.
LEMMA Climb ==
  ASSUME NEW S, 0 \in S, \A n \in Nat : n \in S => n + 1 \in S
  PROVE  Nat \subseteq S
<1> DEFINE T == Nat \ S
<1>1. SUFFICES ASSUME T # {} PROVE FALSE
  OBVIOUS
<1>2. PICK m \in T : \A n \in T : m <= n
  BY <1>1, Smallest
<1>3. m # 0 /\ m - 1 \in Nat
  BY <1>2
<1>4. m - 1 \in S
  BY <1>2, <1>3
<1>5. QED BY <1>2, <1>3, <1>4

Bases == {10, 16}

LEMMA Quotient ==
  ASSUME NEW n \in Nat, NEW b \in Bases
  PROVE  /\ n \div b \in Nat /\ n % b \in 0..(b - 1)
         /\ n = b * (n \div b) + (n % b)
         /\ n >= b => n \div b \in 1..(n - 1)
<1>1. CASE b = 10
  BY <1>1
<1>2. CASE b = 16
  BY <1>2
<1>3. QED BY <1>1, <1>2 DEF Bases

LEMMA DivideUnique ==
  ASSUME NEW p \in Nat \ {0}, NEW q \in Nat, NEW r \in 0..(p - 1),
         NEW n \in Nat, n = p * q + r
  PROVE  n \div p = q
<1>1. PICK k \in Nat, s \in 0..(p - 1) : k = n \div p /\ n = p * k + s
  OBVIOUS
<1>2. n = p * k + s /\ s \in 0..(p - 1)
  BY <1>1
<1>3. ASSUME k < q PROVE FALSE
  <2>1. p * (k + 1) <= p * q
    BY <1>3
  <2>2. p * (k + 1) = p * k + p
    OBVIOUS
  <2>3. p * k \in Nat /\ p * q \in Nat
    OBVIOUS
  <2>4. QED BY <1>2, <2>1, <2>2, <2>3
<1>4. ASSUME q < k PROVE FALSE
  <2>1. p * (q + 1) <= p * k
    BY <1>4
  <2>2. p * (q + 1) = p * q + p
    OBVIOUS
  <2>3. p * k \in Nat /\ p * q \in Nat
    OBVIOUS
  <2>4. QED BY <1>2, <2>1, <2>2, <2>3
<1>5. QED BY <1>1, <1>3, <1>4

\* Dividing by b * p is dividing by b and then by p.
LEMMA DivideTwice ==
  ASSUME NEW n \in Nat, NEW b \in Bases, NEW p \in Nat \ {0}
  PROVE  n \div (b * p) = (n \div b) \div p
<1>1. PICK q \in Nat, r \in 0..(b - 1) : q = n \div b /\ n = b * q + r
  BY Quotient
<1>2. PICK k \in Nat, s \in 0..(p - 1) : k = q \div p /\ q = p * k + s
  OBVIOUS
<1>3. b * s + r \in 0..(b * p - 1) /\ b * p \in Nat \ {0}
  <2>1. CASE b = 10
    BY <2>1
  <2>2. CASE b = 16
    BY <2>2
  <2>3. QED BY <2>1, <2>2 DEF Bases
<1>4. n = (b * p) * k + (b * s + r)
  <2>1. b \in Nat
    BY DEF Bases
  <2>2. b * (p * k + s) = (b * p) * k + b * s
    <3>1. CASE b = 10
      BY <3>1
    <3>2. CASE b = 16
      BY <3>2
    <3>3. QED BY <3>1, <3>2 DEF Bases
  <2>3. b * s \in Nat /\ (b * p) * k \in Nat
    BY <2>1
  <2>4. PICK x \in Nat, y \in Nat : x = (b * p) * k /\ y = b * s
    BY <2>3
  <2>5. n = x + y + r
    BY <1>1, <1>2, <2>2, <2>4
  <2>6. QED BY <2>4, <2>5, <2>1
<1>5. n \div (b * p) = k
  <2> DEFINE m == b * p
             t == b * s + r
  <2>1. m \in Nat \ {0} /\ t \in 0..(m - 1) /\ n = m * k + t
    BY <1>3, <1>4
  <2> HIDE DEF m, t
  <2>2. n \div m = k
    BY <2>1, DivideUnique
  <2>3. QED BY <2>2 DEF m
<1>6. QED BY <1>1, <1>2, <1>5

-----------------------------------------------------------------------------
(* Recursive functions exist.                                              *)

Iteration(f, S, e, n, step) ==
  /\ f \in [0..n -> S] /\ f[0] = e
  /\ \A i \in 1..n : f[i] = step[i][f[i - 1]]

LEMMA Iterates ==
  ASSUME NEW S, NEW e \in S, NEW n \in Nat, NEW step \in [1..n -> [S -> S]]
  PROVE  \E f : Iteration(f, S, e, n, step)
<1> DEFINE Up(f, k) == /\ f \in [0..k -> S] /\ f[0] = e
                       /\ \A i \in 1..k : f[i] = step[i][f[i - 1]]
           Good == {k \in Nat : k <= n => \E f : Up(f, k)}
<1>1. 0 \in Good
  <2> DEFINE f == [i \in 0..0 |-> e]
  <2>1. f \in [0..0 -> S] /\ f[0] = e /\ 1..0 = {}
    OBVIOUS
  <2> HIDE DEF f
  <2>2. Up(f, 0)
    BY <2>1
  <2>3. QED BY <2>2
<1>2. ASSUME NEW k \in Nat, k \in Good PROVE k + 1 \in Good
  <2>1. SUFFICES ASSUME k + 1 <= n PROVE \E f : Up(f, k + 1)
    OBVIOUS
  <2>2. PICK f : Up(f, k)
    BY <1>2, <2>1
  <2> DEFINE g == [i \in 0..(k + 1) |-> IF i <= k THEN f[i] ELSE step[k + 1][f[k]]]
  <2>3. step[k + 1] \in [S -> S] /\ f[k] \in S
    BY <2>1, <2>2
  <2>4. g \in [0..(k + 1) -> S]
    BY <2>2, <2>3
  <2>5. (\A i \in 0..k : g[i] = f[i]) /\ g[k + 1] = step[k + 1][f[k]]
    OBVIOUS
  <2> HIDE DEF g
  <2>6. ASSUME NEW i \in 1..(k + 1) PROVE g[i] = step[i][g[i - 1]]
    <3>1. CASE i <= k
      <4>1. i \in 1..k /\ i \in 0..k /\ i - 1 \in 0..k
        BY <3>1
      <4>2. f[i] = step[i][f[i - 1]]
        BY <2>2, <4>1
      <4>3. QED BY <2>5, <4>1, <4>2
    <3>2. CASE i = k + 1
      <4>1. i - 1 = k /\ k \in 0..k
        BY <3>2
      <4>2. QED BY <2>5, <3>2, <4>1
    <3>3. QED BY <3>1, <3>2
  <2>7. g[0] = e
    BY <2>2, <2>5
  <2>8. Up(g, k + 1)
    BY <2>4, <2>6, <2>7
  <2>9. QED BY <2>8
<1> HIDE DEF Good
<1>3. n \in Good
  BY <1>1, <1>2, Climb
<1>4. QED BY <1>3 DEF Good, Iteration

-----------------------------------------------------------------------------
(* Powers.                                                                 *)

Powers(f, b, S) ==
  /\ f \in [S -> Nat] /\ f[0] = 1
  /\ \A k \in S : k # 0 => f[k] = b * f[k - 1]

LEMMA PowersUpTo ==
  ASSUME NEW b \in Nat, NEW n \in Nat
  PROVE  \E f : Powers(f, b, 0..n)
<1> DEFINE times == [x \in Nat |-> b * x]
           step  == [i \in 1..n |-> times]
<1>1. times \in [Nat -> Nat] /\ \A x \in Nat : times[x] = b * x
  <2>1. \A x \in Nat : b * x \in Nat
    OBVIOUS
  <2>2. QED BY <2>1
<1> HIDE DEF times
<1>2. step \in [1..n -> [Nat -> Nat]] /\ \A i \in 1..n : step[i] = times
  BY <1>1
<1> HIDE DEF step
<1>3. PICK f \in [0..n -> Nat] :
         f[0] = 1 /\ \A i \in 1..n : f[i] = step[i][f[i - 1]]
  <2> DEFINE one == 1
             numbers == Nat
  <2>1. one \in numbers /\ step \in [1..n -> [numbers -> numbers]]
    BY <1>2
  <2> HIDE DEF one, numbers
  <2>2. \E f : Iteration(f, numbers, one, n, step)
    BY <2>1, Iterates
  <2>3. QED BY <2>2 DEF Iteration, one, numbers
<1>4. ASSUME NEW k \in 0..n, k # 0 PROVE f[k] = b * f[k - 1]
  <2>1. k \in 1..n /\ k - 1 \in 0..n
    BY <1>4
  <2>2. QED BY <1>1, <1>2, <1>3, <2>1
<1>5. QED BY <1>3, <1>4 DEF Powers

LEMMA PowersAgree ==
  ASSUME NEW b \in Nat, NEW m \in Nat, NEW n \in Nat, NEW f, NEW g,
         Powers(f, b, 0..m), Powers(g, b, 0..n)
  PROVE  \A k \in 0..m : k <= n => f[k] = g[k]
<1> DEFINE Good == {k \in Nat : k <= m /\ k <= n => f[k] = g[k]}
<1>1. 0 \in Good
  BY DEF Powers
<1>2. ASSUME NEW k \in Nat, k \in Good PROVE k + 1 \in Good
  <2>1. SUFFICES ASSUME k + 1 <= m, k + 1 <= n PROVE f[k + 1] = g[k + 1]
    OBVIOUS
  <2>2. k + 1 \in 0..m /\ k + 1 \in 0..n /\ k + 1 # 0 /\ (k + 1) - 1 = k
    BY <2>1
  <2>3. f[k] = g[k]
    BY <1>2, <2>1
  <2>4. f[k + 1] = b * f[k] /\ g[k + 1] = b * g[k]
    BY <2>2 DEF Powers
  <2>5. QED BY <2>3, <2>4
<1> HIDE DEF Good
<1>3. Nat \subseteq Good
  BY <1>1, <1>2, Climb
<1>4. QED BY <1>3 DEF Good

LEMMA PowerRule ==
  ASSUME NEW b \in Nat
  PROVE  Powers(Power(b), b, Nat)
<1> DEFINE Part(n) == CHOOSE f : Powers(f, b, 0..n)
           V(f, k) == IF k = 0 THEN 1 ELSE b * f[k - 1]
           whole   == [k \in Nat |-> Part(k)[k]]
<1>1. \A n \in Nat : Powers(Part(n), b, 0..n)
  BY PowersUpTo
<1> HIDE DEF Part
<1>2. \A k \in Nat : whole[k] = Part(k)[k]
  OBVIOUS
<1>3. \A k \in Nat : whole[k] \in Nat
  BY <1>1, <1>2 DEF Powers
<1>4. ASSUME NEW k \in Nat PROVE whole[k] = V(whole, k)
  <2>1. CASE k = 0
    BY <1>1, <1>2, <2>1 DEF Powers
  <2>2. CASE k # 0
    <3>1. k - 1 \in Nat /\ k \in 0..k /\ k - 1 \in 0..k /\ k - 1 \in 0..(k - 1)
      BY <2>2
    <3>2. Part(k)[k] = b * Part(k)[k - 1]
      BY <1>1, <2>2, <3>1 DEF Powers
    <3>3. Part(k - 1)[k - 1] = Part(k)[k - 1]
      BY <1>1, <3>1, PowersAgree
    <3>4. QED BY <1>2, <2>2, <3>1, <3>2, <3>3
  <2>3. QED BY <2>1, <2>2
<1>5. whole = [k \in Nat |-> V(whole, k)]
  BY <1>4
<1> HIDE DEF whole
<1>6. Power(b) = [k \in Nat |-> V(Power(b), k)]
  <2>1. Power(b) = CHOOSE f : f = [k \in Nat |-> V(f, k)]
    BY DEF Power
  <2> HIDE DEF V
  <2>2. QED BY <1>5, <2>1
<1>7. \A k \in Nat : Power(b)[k] = V(Power(b), k)
  BY <1>6
<1>8. Power(b) \in [Nat -> Nat]
  <2> DEFINE Good == {k \in Nat : Power(b)[k] \in Nat}
  <2>1. 0 \in Good
    BY <1>7
  <2>2. ASSUME NEW k \in Nat, k \in Good PROVE k + 1 \in Good
    <3>1. Power(b)[k + 1] = b * Power(b)[k]
      BY <1>7
    <3>2. QED BY <2>2, <3>1
  <2> HIDE DEF Good
  <2>3. Nat \subseteq Good
    BY <2>1, <2>2, Climb
  <2>4. \A k \in Nat : Power(b)[k] \in Nat
    BY <2>3 DEF Good
  <2>5. Power(b) = [k \in Nat |-> Power(b)[k]]
    BY <1>6, <1>7
  <2>6. QED BY <2>4, <2>5
<1>9. QED BY <1>7, <1>8 DEF Powers

-----------------------------------------------------------------------------
(* Digits.                                                                 *)

\* All there may be in a text or in a buffer.
Chars == UNION {STRING, {Digit[i] : i \in 1..16},
                {Printable[n] : n \in DOMAIN Printable},
                {"0", "x", "-", "(", "n", "u", "l", ")", "\\", "%", NUL, Junk}}

LEMMA DigitShape == \A i \in 1..16 : Digit[i] \in Chars
BY DEF Chars

LEMMA OneChar ==
  ASSUME NEW S, NEW x \in S
  PROVE  <<x>> \in Seq(S) /\ Len(<<x>>) = 1 /\ <<x>>[1] = x
OBVIOUS

LEMMA Grows ==
  ASSUME NEW b \in Bases
  PROVE  /\ Power(b)[0] = 1
         /\ \A k \in Nat : /\ Power(b)[k] \in Nat \ {0} /\ Power(b)[k] > k
                           /\ Power(b)[k + 1] = b * Power(b)[k]
<1>1. b \in Nat
  BY DEF Bases
<1> DEFINE P == Power(b)
<1>2. P \in [Nat -> Nat] /\ P[0] = 1
      /\ \A k \in Nat : k # 0 => P[k] = b * P[k - 1]
  BY <1>1, PowerRule DEF Powers
<1> HIDE DEF P
<1>3. ASSUME NEW k \in Nat PROVE P[k + 1] = b * P[k]
  <2>1. k + 1 \in Nat /\ k + 1 # 0 /\ (k + 1) - 1 = k
    OBVIOUS
  <2>2. QED BY <1>2, <2>1
<1> DEFINE Good == {k \in Nat : P[k] > k}
<1>4. 0 \in Good
  BY <1>2
<1>5. ASSUME NEW k \in Nat, k \in Good PROVE k + 1 \in Good
  <2>1. P[k] \in Nat /\ P[k] >= k + 1 /\ P[k + 1] = b * P[k]
    BY <1>2, <1>3, <1>5
  <2>2. CASE b = 10
    BY <2>1, <2>2
  <2>3. CASE b = 16
    BY <2>1, <2>3
  <2>4. QED BY <2>2, <2>3 DEF Bases
<1> HIDE DEF Good
<1>6. Nat \subseteq Good
  BY <1>4, <1>5, Climb
<1>7. \A k \in Nat : P[k] \in Nat /\ P[k] > k
  BY <1>2, <1>6 DEF Good
<1>8. QED BY <1>2, <1>3, <1>7 DEF P

IsWidth(w, n, b) == /\ w \in 1..(n + 1) /\ Power(b)[w] > n
                    /\ \A v \in 1..(w - 1) : Power(b)[v] <= n

LEMMA WidthIs ==
  ASSUME NEW n \in Nat, NEW b \in Bases
  PROVE  /\ IsWidth(Width(n, b), n, b)
         /\ \A w : IsWidth(w, n, b) => w = Width(n, b)
<1> DEFINE T == {w \in 1..(n + 1) : Power(b)[w] > n}
<1>1. \A w \in 1..(n + 1) : Power(b)[w] \in Nat
  BY Grows
<1>2. n + 1 \in T
  BY Grows
<1>3. PICK w \in T : \A v \in T : w <= v
  <2>1. T \subseteq Nat /\ T # {}
    BY <1>2
  <2> HIDE DEF T
  <2>2. QED BY <2>1, Smallest
<1>4. IsWidth(w, n, b)
  <2>1. ASSUME NEW v \in 1..(w - 1) PROVE Power(b)[v] <= n
    BY <1>1, <1>3
  <2>2. QED BY <1>3, <2>1 DEF IsWidth
<1>5. IsWidth(Width(n, b), n, b)
  BY <1>4 DEF IsWidth, Width
<1>6. ASSUME NEW u, NEW v, IsWidth(u, n, b), IsWidth(v, n, b) PROVE u = v
  <2>1. ASSUME NEW x, NEW y, IsWidth(x, n, b), IsWidth(y, n, b), x < y PROVE FALSE
    <3>1. x \in 1..(y - 1) /\ x \in 1..(n + 1)
      BY <2>1 DEF IsWidth
    <3>2. Power(b)[x] > n /\ Power(b)[x] <= n
      BY <2>1, <3>1 DEF IsWidth
    <3>3. QED BY <1>1, <3>1, <3>2
  <2>2. ~(u < v) /\ ~(v < u)
    BY <1>6, <2>1
  <2>3. QED BY <1>6, <2>2 DEF IsWidth
<1>7. QED BY <1>5, <1>6

LEMMA WidthOne ==
  ASSUME NEW b \in Bases, NEW n \in 0..(b - 1)
  PROVE  Width(n, b) = 1
<1>1. n \in Nat /\ b \in Nat
  BY DEF Bases
<1>2. Power(b)[1] = b
  <2>1. 0 + 1 = 1 /\ 0 \in Nat
    OBVIOUS
  <2>2. Power(b)[0 + 1] = b * Power(b)[0] /\ Power(b)[0] = 1
    BY <2>1, Grows
  <2>3. QED BY <1>1, <2>1, <2>2
<1>3. IsWidth(1, n, b)
  BY <1>1, <1>2 DEF IsWidth
<1>4. QED BY <1>1, <1>3, WidthIs

LEMMA WidthNext ==
  ASSUME NEW b \in Bases, NEW n \in Nat, n >= b
  PROVE  Width(n, b) = Width(n \div b, b) + 1
<1>1. PICK m \in 1..(n - 1), r \in 0..(b - 1) : m = n \div b /\ n = b * m + r
  BY Quotient DEF Bases
<1>2. PICK w \in Nat : w = Width(m, b) /\ IsWidth(w, m, b)
  <2>1. m \in Nat
    BY <1>1
  <2>2. IsWidth(Width(m, b), m, b)
    BY <2>1, WidthIs
  <2>3. Width(m, b) \in Nat
    BY <2>1, <2>2 DEF IsWidth
  <2>4. QED BY <2>2, <2>3
<1>3. w \in 1..(m + 1)
  BY <1>2 DEF IsWidth
<1>4. Power(b)[w + 1] > n
  <2>1. PICK p \in Nat : p = Power(b)[w] /\ p >= m + 1
    BY <1>1, <1>2, Grows DEF IsWidth
  <2>2. Power(b)[w + 1] = b * p
    BY <1>2, <2>1, Grows
  <2>3. CASE b = 10
    BY <1>1, <2>1, <2>2, <2>3
  <2>4. CASE b = 16
    BY <1>1, <2>1, <2>2, <2>4
  <2>5. QED BY <2>3, <2>4 DEF Bases
<1>5. ASSUME NEW v \in 1..w PROVE Power(b)[v] <= n
  <2>1. PICK u \in Nat, p \in Nat : u = v - 1 /\ p = Power(b)[u]
    <3>1. v - 1 \in Nat
      BY <1>2
    <3>2. Power(b)[v - 1] \in Nat
      BY <3>1, Grows
    <3>3. QED BY <3>1, <3>2
  <2>2. Power(b)[v] = b * p
    <3>1. v = u + 1
      BY <2>1
    <3>2. QED BY <2>1, <3>1, Grows
  <2>3. p <= m
    <3>1. CASE u = 0
      BY <1>1, <2>1, <3>1, Grows
    <3>2. CASE u # 0
      <4>1. u \in 1..(w - 1)
        BY <2>1, <3>2
      <4>2. QED BY <1>2, <2>1, <4>1 DEF IsWidth
    <3>3. QED BY <3>1, <3>2
  <2>4. CASE b = 10
    BY <1>1, <2>1, <2>2, <2>3, <2>4
  <2>5. CASE b = 16
    BY <1>1, <2>1, <2>2, <2>3, <2>5
  <2>6. QED BY <2>4, <2>5 DEF Bases
<1>6. IsWidth(w + 1, n, b)
  <2>1. w + 1 \in 1..(n + 1) /\ (w + 1) - 1 = w
    BY <1>1, <1>3
  <2>2. QED BY <1>4, <1>5, <2>1 DEF IsWidth
<1>7. QED BY <1>1, <1>2, <1>6, WidthIs

LEMMA DigitsShape ==
  ASSUME NEW n \in Nat, NEW b \in Bases
  PROVE  /\ Digits(n, b) \in Seq(Chars)
         /\ Len(Digits(n, b)) = Width(n, b)
         /\ \A k \in 1..Width(n, b) :
              Digits(n, b)[k] = Digit[((n \div Power(b)[Width(n, b) - k]) % b) + 1]
<1>1. PICK w \in Nat : w = Width(n, b)
  BY WidthIs DEF IsWidth
<1> DEFINE D(k) == Digit[((n \div Power(b)[w - k]) % b) + 1]
<1>2. Digits(n, b) = [k \in 1..w |-> D(k)]
  BY <1>1 DEF Digits
<1>3. ASSUME NEW k \in 1..w PROVE D(k) \in Chars
  <2>1. PICK p \in Nat \ {0} : p = Power(b)[w - k]
    BY Grows
  <2>2. n \div p \in Nat
    OBVIOUS
  <2>3. (n \div p) % b \in 0..(b - 1)
    BY <2>2, Quotient
  <2>4. ((n \div p) % b) + 1 \in 1..16
    BY <2>3 DEF Bases
  <2>5. QED BY <2>1, <2>4, DigitShape
<1> HIDE DEF D
<1>4. Digits(n, b) \in [1..w -> Chars]
  BY <1>2, <1>3
<1>5. Digits(n, b) \in Seq(Chars) /\ Len(Digits(n, b)) = w
  BY <1>4, SeqDef, LenProperties
<1>6. QED BY <1>1, <1>2, <1>5 DEF D

LEMMA DigitsOne ==
  ASSUME NEW b \in Bases, NEW n \in 0..(b - 1)
  PROVE  Digits(n, b) = <<Digit[n + 1]>>
<1>1. n \in Nat /\ b \in Nat
  BY DEF Bases
<1>2. Width(n, b) = 1 /\ Width(n, b) - 1 = 0
  BY WidthOne
<1>3. n \div Power(b)[0] = n
  BY <1>1, Grows
<1>4. n % b = n
  BY DEF Bases
<1>5. Digits(n, b)[1] = Digit[n + 1]
  <2>1. 1 \in 1..Width(n, b) /\ Width(n, b) - 1 = 0
    BY <1>2
  <2>2. Digits(n, b)[1] = Digit[((n \div Power(b)[Width(n, b) - 1]) % b) + 1]
    BY <1>1, <2>1, DigitsShape
  <2>3. QED BY <1>3, <1>4, <2>1, <2>2
<1>6. Len(Digits(n, b)) = 1 /\ Digits(n, b) \in Seq(Chars)
  BY <1>1, <1>2, DigitsShape
<1>7. QED BY <1>5, <1>6

LEMMA DigitsNext ==
  ASSUME NEW b \in Bases, NEW n \in Nat, n >= b
  PROVE  Digits(n, b) = Digits(n \div b, b) \o <<Digit[(n % b) + 1]>>
<1>1. PICK m \in Nat, w \in Nat : m = n \div b /\ w = Width(m, b)
  BY Quotient, WidthIs DEF IsWidth
<1>2. Width(n, b) = w + 1
  BY <1>1, WidthNext
<1> DEFINE s == Digits(n, b)
           t == Digits(m, b)
           e == Digit[(n % b) + 1]
<1>3. s \in Seq(Chars) /\ Len(s) = w + 1 /\ t \in Seq(Chars) /\ Len(t) = w
  BY <1>1, <1>2, DigitsShape
<1>4. e \in Chars
  <2>1. (n % b) + 1 \in 1..16
    BY Quotient DEF Bases
  <2>2. QED BY <2>1, DigitShape
<1>5. ASSUME NEW k \in 1..w PROVE s[k] = t[k]
  <2>1. PICK p \in Nat \ {0} : p = Power(b)[w - k]
    BY Grows
  <2>2. Power(b)[(w + 1) - k] = b * p
    <3>1. (w + 1) - k = (w - k) + 1 /\ w - k \in Nat
      OBVIOUS
    <3>2. QED BY <2>1, <3>1, Grows
  <2>3. n \div (b * p) = m \div p
    BY <1>1, DivideTwice
  <2>4. s[k] = Digit[((n \div (b * p)) % b) + 1]
    <3>1. k \in 1..Width(n, b)
      BY <1>2
    <3>2. s[k] = Digit[((n \div Power(b)[Width(n, b) - k]) % b) + 1]
      BY <3>1, DigitsShape
    <3>3. QED BY <1>2, <2>2, <3>2
  <2>5. t[k] = Digit[((m \div p) % b) + 1]
    <3>1. k \in 1..Width(m, b)
      BY <1>1
    <3>2. t[k] = Digit[((m \div Power(b)[Width(m, b) - k]) % b) + 1]
      BY <3>1, DigitsShape
    <3>3. QED BY <1>1, <2>1, <3>2
  <2>6. QED BY <2>3, <2>4, <2>5
<1>6. s[w + 1] = e
  <2>1. n \div Power(b)[0] = n
    BY Grows
  <2>2. w + 1 \in 1..Width(n, b) /\ Width(n, b) - (w + 1) = 0
    BY <1>2
  <2>3. s[w + 1] = Digit[((n \div Power(b)[Width(n, b) - (w + 1)]) % b) + 1]
    BY <2>2, DigitsShape
  <2>4. QED BY <2>1, <2>2, <2>3
<1> HIDE DEF s, t, e
<1>7. t \o <<e>> \in Seq(Chars) /\ Len(t \o <<e>>) = w + 1
      /\ (\A k \in 1..w : (t \o <<e>>)[k] = t[k]) /\ (t \o <<e>>)[w + 1] = e
  <2>1. <<e>> \in Seq(Chars) /\ Len(<<e>>) = 1 /\ <<e>>[1] = e
    BY <1>4, OneChar
  <2>2. QED BY <1>3, <2>1, ConcatProperties
<1>8. \A k \in 1..(w + 1) : s[k] = (t \o <<e>>)[k]
  <2>1. \A k \in 1..(w + 1) : k \in 1..w \/ k = w + 1
    OBVIOUS
  <2>2. QED BY <1>5, <1>6, <1>7, <2>1
<1>9. s = t \o <<e>>
  BY <1>3, <1>7, <1>8, SeqEqual
<1>10. QED BY <1>1, <1>9 DEF s, t, e

\* The loop of __int, __hex and __ptr gives the digits of the number.
LEMMA NumeralIsDigits ==
  ASSUME NEW b \in Bases, NEW n \in Nat
  PROVE  Numeral(b)[n] = Digits(n, b)
<1> DEFINE V(f, i) == IF i < b THEN <<Digit[i + 1]>>
                      ELSE f[i \div b] \o <<Digit[(i % b) + 1]>>
           all     == [i \in Nat |-> Digits(i, b)]
<1>1. ASSUME NEW i \in Nat PROVE all[i] = V(all, i)
  <2>1. CASE i < b
    <3>1. i \in 0..(b - 1)
      BY <2>1 DEF Bases
    <3>2. QED BY <2>1, <3>1, DigitsOne
  <2>2. CASE ~(i < b)
    <3>1. i >= b
      BY <2>2 DEF Bases
    <3>2. i \div b \in Nat
      BY Quotient
    <3>3. QED BY <2>2, <3>1, <3>2, DigitsNext
  <2>3. QED BY <2>1, <2>2
<1>2. all = [i \in Nat |-> V(all, i)]
  BY <1>1
<1>3. Numeral(b) = [i \in Nat |-> V(Numeral(b), i)]
  <2>1. Numeral(b) = CHOOSE f : f = [i \in Nat |-> V(f, i)]
    BY DEF Numeral
  <2> HIDE DEF all, V
  <2>2. QED BY <1>2, <2>1
<1>4. \A i \in Nat : Numeral(b)[i] = V(Numeral(b), i)
  BY <1>3
<1>5. \A i \in Nat : Digits(i, b) = V(all, i)
  BY <1>1
<1> DEFINE T == {i \in Nat : Numeral(b)[i] # Digits(i, b)}
<1>6. ASSUME T # {} PROVE FALSE
  <2>1. PICK i \in T : \A j \in T : i <= j
    BY <1>6, Smallest
  <2>2. CASE i < b
    BY <1>4, <1>5, <2>1, <2>2
  <2>3. CASE ~(i < b)
    <3>1. i \in Nat /\ i >= b
      BY <2>1, <2>3 DEF Bases
    <3>2. i \div b \in 1..(i - 1)
      BY <3>1, Quotient
    <3>3. Numeral(b)[i \div b] = Digits(i \div b, b)
      BY <2>1, <3>1, <3>2
    <3>4. all[i \div b] = Digits(i \div b, b)
      BY <3>2
    <3>5. V(Numeral(b), i) = V(all, i)
      BY <2>3, <3>3, <3>4
    <3>6. QED BY <1>4, <1>5, <2>1, <3>1, <3>5
  <2>4. QED BY <2>2, <2>3
<1>7. QED BY <1>6

-----------------------------------------------------------------------------
(* What a field writes.                                                    *)

LEMMA CallShape ==
  ASSUME NEW c \in Calls
  PROVE  /\ c.format \in Seq(STRING) /\ Len(c.format) \in Nat
         /\ DOMAIN c.format = 1..Len(c.format)
         /\ c.args \in Seq(Arg) /\ Len(c.args) \in Nat
         /\ DOMAIN c.args = 1..Len(c.args)
         /\ \A k \in 1..Len(c.format) : c.format[k] \in Chars
<1>1. c.format \in Seq(STRING) /\ c.args \in Seq(Arg)
  BY FormatAssumption
<1>2. STRING \subseteq Chars
  BY DEF Chars
<1>3. \A k \in 1..Len(c.format) : c.format[k] \in STRING
  BY <1>1, ElementOfSeq
<1>4. QED BY <1>1, <1>2, <1>3, LenProperties

LEMMA FieldsShape ==
  ASSUME NEW c \in Calls
  PROVE  /\ IsFiniteSet(FieldsOf(c.format))
         /\ Cardinality(FieldsOf(c.format)) = Len(c.args)
         /\ \A k \in FieldsOf(c.format) :
              /\ k \in 1..Len(c.format) /\ k + 1 \in 1..Len(c.format)
              /\ c.format[k] = "%" /\ c.format[k + 1] \in Convs
              /\ k + 1 \notin FieldsOf(c.format) /\ k - 1 \notin FieldsOf(c.format)
<1>1. PICK n \in Nat : n = Len(c.format) /\ DOMAIN c.format = 1..n
  BY CallShape
<1>2. FieldsOf(c.format) \subseteq 1..n /\ IsFiniteSet(1..n)
  BY <1>1, FS_Interval DEF FieldsOf
<1>3. IsFiniteSet(FieldsOf(c.format))
  BY <1>2, FS_Subset
<1>4. \A v \in Convs : v # "%"
  BY DEF Convs
<1>5. ASSUME NEW k \in FieldsOf(c.format)
      PROVE  /\ k \in 1..n /\ k + 1 \in 1..n
             /\ c.format[k] = "%" /\ c.format[k + 1] \in Convs
  BY <1>1 DEF FieldsOf
<1>6. ASSUME NEW k \in FieldsOf(c.format)
      PROVE  k + 1 \notin FieldsOf(c.format) /\ k - 1 \notin FieldsOf(c.format)
  <2>1. k + 1 \notin FieldsOf(c.format)
    BY <1>4, <1>5, <1>6
  <2>2. ASSUME k - 1 \in FieldsOf(c.format) PROVE FALSE
    <3>1. (k - 1) + 1 = k
      BY <1>5, <1>6
    <3>2. c.format[k] \in Convs
      BY <1>5, <2>2, <3>1
    <3>3. QED BY <1>4, <1>5, <1>6, <3>2
  <2>3. QED BY <2>1, <2>2
<1>7. Cardinality(FieldsOf(c.format)) = Len(c.args)
  BY FormatAssumption
<1>8. QED BY <1>1, <1>3, <1>5, <1>6, <1>7

Below(F, k) == {j \in F : j < k}

LEMMA Counting ==
  ASSUME NEW F, IsFiniteSet(F), F \subseteq Nat \ {0},
         \A k \in F : k + 1 \notin F
  PROVE  /\ Cardinality(Below(F, 1)) = 0
         /\ \A k \in Nat : /\ Cardinality(Below(F, k)) \in 0..Cardinality(F)
                           /\ k \notin F => Below(F, k + 1) = Below(F, k)
         /\ \A k \in F :
              /\ Cardinality(Below(F, k + 2)) = Cardinality(Below(F, k)) + 1
              /\ Below(F, k + 2) = {j \in F : j <= k}
<1>1. ASSUME NEW k \in Nat
      PROVE  IsFiniteSet(Below(F, k)) /\ Cardinality(Below(F, k)) \in 0..Cardinality(F)
  <2>1. Below(F, k) \subseteq F
    BY DEF Below
  <2>2. IsFiniteSet(Below(F, k)) /\ Cardinality(Below(F, k)) <= Cardinality(F)
    BY <2>1, FS_Subset
  <2>3. Cardinality(Below(F, k)) \in Nat /\ Cardinality(F) \in Nat
    BY <2>2, FS_CardinalityType
  <2>4. QED BY <2>2, <2>3
<1>2. Cardinality(Below(F, 1)) = 0
  <2>1. \A j \in F : ~(j < 1)
    OBVIOUS
  <2>2. Below(F, 1) = {}
    BY <2>1 DEF Below
  <2>3. QED BY <2>2, FS_EmptySet
<1>3. ASSUME NEW k \in Nat, k \notin F PROVE Below(F, k + 1) = Below(F, k)
  <2>1. \A j \in F : j < k + 1 <=> j < k
    BY <1>3
  <2>2. QED BY <2>1 DEF Below
<1>4. ASSUME NEW k \in F
      PROVE  /\ Cardinality(Below(F, k + 2)) = Cardinality(Below(F, k)) + 1
             /\ Below(F, k + 2) = {j \in F : j <= k}
  <2>1. \A j \in F : /\ j < k + 2 <=> (j < k \/ j = k)
                     /\ j <= k <=> (j < k \/ j = k)
    <3>1. ASSUME NEW j \in F, j = k + 1 PROVE FALSE
      BY <3>1
    <3>2. QED BY <3>1
  <2>2. k \notin Below(F, k) /\ k \in Nat
    BY DEF Below
  <2>3. Below(F, k + 2) = Below(F, k) \cup {k}
    BY <2>1 DEF Below
  <2>4. Cardinality(Below(F, k) \cup {k}) = Cardinality(Below(F, k)) + 1
    BY <1>1, <2>2, FS_AddElement
  <2>5. QED BY <2>1, <2>3, <2>4 DEF Below
<1>5. QED BY <1>1, <1>2, <1>3, <1>4

\* The number of fields before position k.
FieldsBefore(c, k) == Cardinality(Below(FieldsOf(c.format), k))

LEMMA FieldCount ==
  ASSUME NEW c \in Calls
  PROVE  /\ FieldsBefore(c, 1) = 0
         /\ \A k \in Nat : /\ FieldsBefore(c, k) \in 0..Len(c.args)
                           /\ k \notin FieldsOf(c.format)
                                => FieldsBefore(c, k + 1) = FieldsBefore(c, k)
         /\ \A k \in FieldsOf(c.format) :
              /\ FieldsBefore(c, k) + 1 \in 1..Len(c.args)
              /\ FieldsBefore(c, k + 2) = FieldsBefore(c, k) + 1
              /\ ArgAt(c, k) = c.args[FieldsBefore(c, k) + 1]
<1> DEFINE F == FieldsOf(c.format)
<1>1. /\ IsFiniteSet(F) /\ Cardinality(F) = Len(c.args)
      /\ F \subseteq Nat \ {0} /\ \A k \in F : k + 1 \notin F
  <2>1. ASSUME NEW k \in F PROVE k \in Nat \ {0}
    <3>1. k \in 1..Len(c.format)
      BY FieldsShape
    <3>2. Len(c.format) \in Nat
      BY CallShape
    <3>3. QED BY <3>1, <3>2
  <2>2. QED BY <2>1, FieldsShape
<1>2. /\ Cardinality(Below(F, 1)) = 0
      /\ \A k \in Nat : /\ Cardinality(Below(F, k)) \in 0..Cardinality(F)
                        /\ k \notin F => Below(F, k + 1) = Below(F, k)
      /\ \A k \in F :
           /\ Cardinality(Below(F, k + 2)) = Cardinality(Below(F, k)) + 1
           /\ Below(F, k + 2) = {j \in F : j <= k}
  <2> HIDE DEF F
  <2>1. QED BY <1>1, Counting
<1>3. ASSUME NEW k \in F
      PROVE  /\ FieldsBefore(c, k) + 1 \in 1..Len(c.args)
             /\ FieldsBefore(c, k + 2) = FieldsBefore(c, k) + 1
             /\ ArgAt(c, k) = c.args[FieldsBefore(c, k) + 1]
  <2>1. FieldsBefore(c, k + 2) = FieldsBefore(c, k) + 1
    BY <1>2 DEF FieldsBefore
  <2>2. k \in Nat /\ k + 2 \in Nat
    BY <1>1
  <2>3. FieldsBefore(c, k) \in 0..Len(c.args) /\ FieldsBefore(c, k + 2) \in 0..Len(c.args)
    BY <1>1, <1>2, <2>2 DEF FieldsBefore
  <2>4. ArgAt(c, k) = c.args[FieldsBefore(c, k + 2)]
    BY <1>2 DEF ArgAt, FieldsBefore
  <2>5. Len(c.args) \in Nat
    BY CallShape
  <2>6. QED BY <2>1, <2>3, <2>4, <2>5
<1>4. QED BY <1>1, <1>2, <1>3 DEF FieldsBefore

LEMMA Reduced ==
  ASSUME NEW p \in Nat \ {0}, NEW m \in 0..(p - 1)
  PROVE  m % p = m /\ (m - p) % p = m
OBVIOUS

LEMMA TextIsMeant ==
  ASSUME NEW c \in Calls, NEW k \in FieldsOf(c.format)
  PROVE  /\ Text(c.format[k + 1], ArgAt(c, k)) = Meant(c.format[k + 1], ArgAt(c, k))
         /\ Text(c.format[k + 1], ArgAt(c, k)) \in Seq(Chars)
<1>1. PICK a : a = ArgAt(c, k)
  OBVIOUS
<1>2. PICK v : v = c.format[k + 1]
  OBVIOUS
<1>3. a \in Arg /\ a.n \in (-(IntMax + 1))..IntMax
  <2>1. PICK i \in 1..Len(c.args) : a = c.args[i]
    BY <1>1, FieldCount
  <2>2. c.args \in Seq(Arg) /\ i \in DOMAIN c.args
    BY CallShape
  <2>3. QED BY <2>1, <2>2, ElementOfSeq, FormatAssumption
<1>4. v \in Convs /\ (v = "p" => a.n >= 0)
  BY <1>1, <1>2, FieldsShape, FormatAssumption
<1>5. PICK n \in Int : n = a.n
  BY <1>3
<1>6. \A i \in Nat : /\ Numeral(10)[i] = Digits(i, 10) /\ Digits(i, 10) \in Seq(Chars)
                     /\ Numeral(16)[i] = Digits(i, 16) /\ Digits(i, 16) \in Seq(Chars)
  BY NumeralIsDigits, DigitsShape DEF Bases
<1>7. IntMax \in Nat /\ UIntSize \in Nat \ {0} /\ UIntSize = IntMax + 1 + IntMax + 1
  BY FormatAssumption DEF UIntSize
<1>8. /\ "0" \in Chars /\ "x" \in Chars /\ "-" \in Chars /\ "(" \in Chars
      /\ "n" \in Chars /\ "u" \in Chars /\ "l" \in Chars /\ ")" \in Chars
      /\ "\\" \in Chars
  BY DEF Chars
<1>9. CASE v = "d"
  <2>1. CASE n >= 0
    <3>1. Magnitude(n) = n /\ n \in Nat
      BY <2>1 DEF Magnitude
    <3>2. Text(v, a) = <<>> \o Digits(n, 10)
      <4>1. Text(v, a) = Decimal(n)
        <5>1. Text("d", a) = Decimal(a.n)
          BY DEF Text
        <5>2. QED BY <1>5, <1>9, <5>1
      <4>2. Decimal(n) = <<>> \o Numeral(10)[n]
        <5>1. ~(n < 0)
          BY <2>1
        <5>2. QED BY <3>1, <5>1 DEF Decimal
      <4>3. QED BY <1>6, <3>1, <4>1, <4>2
    <3>3. Text(v, a) = Digits(n, 10)
      BY <1>6, <3>1, <3>2
    <3>4. Meant(v, a) = Digits(n, 10)
      <4>1. a.n >= 0 /\ a.n \in Int
        BY <1>5, <2>1
      <4>2. Meant("d", a) = Digits(a.n, 10)
        BY <4>1 DEF Meant
      <4>3. QED BY <1>5, <1>9, <4>2
    <3>5. QED BY <1>1, <1>2, <1>6, <3>1, <3>3, <3>4
  <2>2. CASE n < 0
    <3>1. -n \in 0..(UIntSize - 1)
      BY <1>3, <1>5, <1>7, <2>2
    <3>2. Magnitude(n) = -n
      BY <1>7, <2>2, <3>1, Reduced DEF Magnitude
    <3>3. Text(v, a) = <<"-">> \o Digits(-n, 10)
      <4>1. Text("d", a) = Decimal(a.n)
        BY DEF Text
      <4>2. Decimal(n) = <<"-">> \o Numeral(10)[-n]
        BY <2>2, <3>2 DEF Decimal
      <4>3. PICK i \in Nat : i = -n
        BY <1>7, <3>1
      <4>4. Numeral(10)[i] = Digits(i, 10)
        BY <1>6
      <4>5. QED BY <1>5, <1>9, <4>1, <4>2, <4>3, <4>4
    <3>4. Meant(v, a) = <<"-">> \o Digits(-n, 10)
      BY <1>5, <1>9, <2>2 DEF Meant
    <3>5. <<"-">> \in Seq(Chars) /\ Digits(-n, 10) \in Seq(Chars)
      BY <1>6, <1>8, <3>1, OneChar
    <3>6. QED BY <1>1, <1>2, <3>3, <3>4, <3>5, ConcatProperties
  <2>3. QED BY <2>1, <2>2
<1>10. CASE v = "x"
  <2> DEFINE m == IF n < 0 THEN n + UIntSize ELSE n
  <2>1. m \in 0..(UIntSize - 1)
    BY <1>3, <1>5, <1>7
  <2>2. n % UIntSize = m
    <3>1. n = m \/ n = m - UIntSize
      BY <1>7
    <3> HIDE DEF m
    <3>2. QED BY <1>7, <2>1, <3>1, Reduced
  <2>3. Meant(v, a) = Digits(m, 16)
    BY <1>5, <1>10 DEF Meant
  <2> HIDE DEF m
  <2>4. Text(v, a) = Digits(m, 16)
    BY <1>5, <1>6, <1>10, <2>1, <2>2 DEF Text, Hex
  <2>5. QED BY <1>1, <1>2, <1>6, <2>1, <2>3, <2>4
<1>11. CASE v = "p"
  <2>1. n \in Nat
    BY <1>4, <1>5, <1>11
  <2>2. Text(v, a) = <<"0", "x">> \o Digits(n, 16)
    BY <1>5, <1>6, <1>11, <2>1 DEF Text, Ptr
  <2>3. Meant(v, a) = <<"0", "x">> \o Digits(n, 16)
    BY <1>5, <1>11 DEF Meant
  <2>4. <<"0", "x">> \in Seq(Chars)
    BY <1>8
  <2>5. QED BY <1>1, <1>2, <1>6, <2>1, <2>2, <2>3, <2>4, ConcatProperties
<1>12. CASE v = "c"
  <2>1. Text(v, a) = Chr(n) /\ Meant(v, a) = Text(v, a)
    BY <1>5, <1>12 DEF Text, Meant
  <2>2. Chr(n) \in Seq(Chars)
    <3>1. CASE n \in DOMAIN Printable
      <4>1. Printable[n] \in Chars
        BY <3>1 DEF Chars
      <4>2. QED BY <3>1, <4>1, OneChar DEF Chr
    <3>2. CASE n \notin DOMAIN Printable
      <4>1. ((n \div 16) % 16) + 1 \in 1..16 /\ (n % 16) + 1 \in 1..16
        OBVIOUS
      <4>2. PICK x \in Chars, y \in Chars :
               Chr(n) = <<"\\", x, y>>
        BY <3>2, <4>1, DigitShape DEF Chr
      <4>3. QED BY <1>8, <4>2
    <3>3. QED BY <3>1, <3>2
  <2>3. QED BY <1>1, <1>2, <2>1, <2>2
<1>13. CASE v = "s"
  <2>1. Text(v, a) = Str(a) /\ Meant(v, a) = Text(v, a)
    BY <1>13 DEF Text, Meant
  <2>2. a.s \in Seq(Chars)
    <3>1. a.s \in Seq(STRING)
      BY <1>3 DEF Arg
    <3>2. STRING \subseteq Chars
      BY DEF Chars
    <3>3. \A i \in 1..Len(a.s) : a.s[i] \in Chars
      BY <3>1, <3>2, ElementOfSeq, LenProperties
    <3>4. a.s = [i \in 1..Len(a.s) |-> a.s[i]] /\ Len(a.s) \in Nat
      BY <3>1, LenProperties
    <3>5. a.s \in [1..Len(a.s) -> Chars]
      BY <3>3, <3>4
    <3>6. QED BY <3>4, <3>5, SeqDef
  <2>3. Str(a) \in Seq(Chars)
    BY <1>8, <2>2 DEF Str
  <2>4. QED BY <1>1, <1>2, <2>1, <2>3
<1>14. QED
  BY <1>4, <1>9, <1>10, <1>11, <1>12, <1>13 DEF Convs

-----------------------------------------------------------------------------
(* What the beginning of a format stands for.                              *)

LEMMA PieceShape ==
  ASSUME NEW c \in Calls, NEW k \in 1..Len(c.format)
  PROVE  /\ PieceAt(c, k) \in Seq(Chars)
         /\ k \in FieldsOf(c.format)
              => PieceAt(c, k) = Text(c.format[k + 1], ArgAt(c, k))
         /\ k \notin FieldsOf(c.format) /\ k - 1 \notin FieldsOf(c.format)
              => PieceAt(c, k) = <<c.format[k]>>
         /\ k - 1 \in FieldsOf(c.format) => PieceAt(c, k) = <<>>
<1>1. CASE k \in FieldsOf(c.format)
  <2>1. PieceAt(c, k) = Text(c.format[k + 1], ArgAt(c, k))
    BY <1>1, TextIsMeant DEF PieceAt
  <2>2. k - 1 \notin FieldsOf(c.format)
    BY <1>1, FieldsShape
  <2>3. QED BY <1>1, <2>1, <2>2, TextIsMeant
<1>2. CASE k \notin FieldsOf(c.format) /\ k - 1 \in FieldsOf(c.format)
  <2>1. PieceAt(c, k) = <<>>
    BY <1>2 DEF PieceAt
  <2>2. QED BY <1>2, <2>1, EmptySeq
<1>3. CASE k \notin FieldsOf(c.format) /\ k - 1 \notin FieldsOf(c.format)
  <2>1. PieceAt(c, k) = <<c.format[k]>>
    BY <1>3 DEF PieceAt
  <2>2. c.format[k] \in Chars
    BY CallShape
  <2>3. QED BY <1>3, <2>1, <2>2, OneChar
<1>4. QED BY <1>1, <1>2, <1>3

LEMMA TextRule ==
  ASSUME NEW c \in Calls
  PROVE  /\ TextTo(c)[0] = <<>>
         /\ \A k \in 1..Len(c.format) :
              TextTo(c)[k] = TextTo(c)[k - 1] \o PieceAt(c, k)
         /\ \A k \in 0..Len(c.format) : TextTo(c)[k] \in Seq(Chars)
<1>1. PICK n \in Nat : n = Len(c.format)
  BY CallShape
<1> DEFINE texts == Seq(Chars)
           more(p) == [s \in texts |-> s \o p]
           step == [k \in 1..n |-> more(PieceAt(c, k))]
           V(f, k) == IF k = 0 THEN <<>> ELSE f[k - 1] \o PieceAt(c, k)
<1>2. \A k \in 1..n : PieceAt(c, k) \in texts
  BY <1>1, PieceShape
<1>3. \A p \in texts : more(p) \in [texts -> texts] /\ \A s \in texts : more(p)[s] = s \o p
  <2>1. \A p \in texts, s \in texts : s \o p \in texts
    BY ConcatProperties
  <2> HIDE DEF texts
  <2>2. QED BY <2>1
<1>4. <<>> \in texts
  BY EmptySeq
<1>5. step \in [1..n -> [texts -> texts]]
      /\ \A k \in 1..n : \A s \in texts : step[k][s] = s \o PieceAt(c, k)
  <2>1. \A k \in 1..n : step[k] = more(PieceAt(c, k))
    OBVIOUS
  <2>2. \A k \in 1..n : more(PieceAt(c, k)) \in [texts -> texts]
    BY <1>2, <1>3
  <2>3. \A k \in 1..n : \A s \in texts : more(PieceAt(c, k))[s] = s \o PieceAt(c, k)
    BY <1>2, <1>3
  <2> HIDE DEF more, texts
  <2>4. step \in [1..n -> [texts -> texts]]
    BY <2>2
  <2> HIDE DEF step
  <2>5. QED BY <2>1, <2>3, <2>4
<1> HIDE DEF step
<1>6. PICK f \in [0..n -> texts] :
         f[0] = <<>> /\ \A k \in 1..n : f[k] = step[k][f[k - 1]]
  <2> DEFINE none == <<>>
  <2>1. none \in texts /\ step \in [1..n -> [texts -> texts]]
    BY <1>4, <1>5
  <2> HIDE DEF none, texts
  <2>2. \E f : Iteration(f, texts, none, n, step)
    BY <2>1, Iterates
  <2>3. QED BY <2>2 DEF Iteration, none
<1>7. \A k \in 1..n : f[k] = f[k - 1] \o PieceAt(c, k)
  <2>1. \A k \in 1..n : k - 1 \in 0..n
    OBVIOUS
  <2>2. \A k \in 1..n : f[k - 1] \in texts
    BY <1>6, <2>1
  <2> HIDE DEF texts
  <2>3. QED BY <1>5, <1>6, <2>2
<1>8. ASSUME NEW k \in 0..n PROVE f[k] = V(f, k)
  <2>1. k = 0 \/ (k \in 1..n /\ k # 0)
    OBVIOUS
  <2>2. QED BY <1>6, <1>7, <2>1
<1>9. f = [k \in 0..n |-> V(f, k)]
  <2> HIDE DEF V, texts
  <2>1. QED BY <1>6, <1>8
<1> DEFINE U == TextTo(c)
<1>10. U = [k \in 0..n |-> V(U, k)]
  <2>1. U = CHOOSE g : g = [k \in 0..n |-> V(g, k)]
    BY <1>1 DEF TextTo
  <2> HIDE DEF V, U
  <2>2. QED BY <1>9, <2>1
<1>11. U[0] = <<>> /\ \A k \in 1..n : U[k] = U[k - 1] \o PieceAt(c, k)
  <2>1. \A k \in 0..n : U[k] = V(U, k)
    <3> HIDE DEF V, U
    <3>1. QED BY <1>10
  <2> HIDE DEF U
  <2>2. 0 \in 0..n /\ \A k \in 1..n : k \in 0..n /\ k # 0
    OBVIOUS
  <2>3. QED BY <2>1, <2>2
<1> DEFINE Good == {k \in Nat : k <= n => U[k] \in texts}
<1>12. 0 \in Good
  BY <1>4, <1>11
<1>13. ASSUME NEW k \in Nat, k \in Good PROVE k + 1 \in Good
  <2>1. SUFFICES ASSUME k + 1 <= n PROVE U[k + 1] \in texts
    OBVIOUS
  <2>2. k + 1 \in 1..n /\ (k + 1) - 1 = k /\ U[k] \in texts
    BY <1>13, <2>1
  <2>3. U[k + 1] = U[k] \o PieceAt(c, k + 1) /\ PieceAt(c, k + 1) \in texts
    <3> HIDE DEF U, texts
    <3>1. QED BY <1>2, <1>11, <2>2
  <2> HIDE DEF U
  <2>4. QED BY <2>2, <2>3, ConcatProperties
<1> HIDE DEF Good
<1>14. Nat \subseteq Good
  BY <1>12, <1>13, Climb
<1>15. \A k \in 0..n : U[k] \in texts
  <2> HIDE DEF U, texts
  <2>1. QED BY <1>14 DEF Good
<1>16. QED BY <1>1, <1>11, <1>15

\* A step of the formatting goes on by what it writes.
LEMMA TextNext ==
  ASSUME NEW c \in Calls, NEW k \in 1..Len(c.format),
         k - 1 \notin FieldsOf(c.format)
  PROVE  /\ TextTo(c)[k - 1] \in Seq(Chars)
         /\ k \notin FieldsOf(c.format) =>
              TextTo(c)[k] = TextTo(c)[k - 1] \o <<c.format[k]>>
         /\ k \in FieldsOf(c.format) =>
              TextTo(c)[k + 1]
                = TextTo(c)[k - 1] \o Text(c.format[k + 1], ArgAt(c, k))
<1>1. Len(c.format) \in Nat /\ k \in Nat
  BY CallShape
<1>2. TextTo(c)[k - 1] \in Seq(Chars) /\ TextTo(c)[k] \in Seq(Chars)
  <2>1. k - 1 \in 0..Len(c.format) /\ k \in 0..Len(c.format)
    BY <1>1
  <2>2. QED BY <2>1, TextRule
<1>3. TextTo(c)[k] = TextTo(c)[k - 1] \o PieceAt(c, k)
  BY TextRule
<1>4. ASSUME k \in FieldsOf(c.format)
      PROVE  TextTo(c)[k + 1] = TextTo(c)[k]
  <2>1. k + 1 \in 1..Len(c.format) /\ (k + 1) - 1 = k
    BY <1>1, <1>4, FieldsShape
  <2>2. PieceAt(c, k + 1) = <<>>
    BY <1>4, <2>1, PieceShape
  <2>3. TextTo(c)[k + 1] = TextTo(c)[k] \o <<>>
    BY <2>1, <2>2, TextRule
  <2>4. QED BY <1>2, <2>3, ConcatEmptySeq
<1>5. QED BY <1>2, <1>3, <1>4, PieceShape

-----------------------------------------------------------------------------
(* The invariant.                                                          *)

DataOK == /\ data \in [Functions -> [Cells -> Chars]]
          /\ before \in [Cells -> Chars]

\* The buffer holds the beginning of t that fits, the rest of t is counted.
Holds(t) ==
  /\ len = Least(Len(t), cap) /\ disc = Len(t) - len
  /\ \A n \in Cells : data[fn][n] = IF n < len THEN t[n + 1] ELSE before[n]

\* What was read of the format has been written.
ReadOK == /\ call \in Calls
          /\ ptr - 1 \notin FieldsOf(call.format)
          /\ ap = FieldsBefore(call, ptr) + 1
          /\ Holds(TextTo(call)[ptr - 1])

FormatInv == /\ FormatTypeOK /\ DataOK
             /\ pc = "format" => ReadOK
             /\ WritesWhatFits /\ EndsWithNUL

LEMMA CapShape ==
  ASSUME fn \in Functions, dstsize \in 0..IobufMax
  PROVE  /\ cap \in 0..IobufMax
         /\ fn \in Sized => cap = dstsize
         /\ fn \in {"scpyf", "ssavef"} => cap = IobufMax - 1
         /\ fn = "fputstr" => cap = IobufMax
<1>1. IobufMax \in Nat /\ IobufMax - 1 \in 0..IobufMax
  BY FormatAssumption
<1>2. \/ fn \in Sized /\ fn \notin {"scpyf", "ssavef"} /\ fn # "fputstr"
      \/ fn \in {"scpyf", "ssavef"} /\ fn \notin Sized /\ fn # "fputstr"
      \/ fn = "fputstr" /\ fn \notin Sized /\ fn \notin {"scpyf", "ssavef"}
  BY DEF Functions, Sized
<1>3. CASE fn \in Sized /\ fn \notin {"scpyf", "ssavef"} /\ fn # "fputstr"
  BY <1>1, <1>3 DEF cap, Cap
<1>4. CASE fn \in {"scpyf", "ssavef"} /\ fn \notin Sized /\ fn # "fputstr"
  BY <1>1, <1>4 DEF cap, Cap
<1>5. CASE fn = "fputstr" /\ fn \notin Sized /\ fn \notin {"scpyf", "ssavef"}
  BY <1>1, <1>5 DEF cap, Cap
<1>6. QED BY <1>2, <1>3, <1>4, <1>5

LEMMA WriteHolds ==
  ASSUME FormatTypeOK, DataOK, UNCHANGED <<fn, dstsize, before>>,
         NEW t \in Seq(Chars), Holds(t), NEW src \in Seq(Chars), Write(src)
  PROVE  /\ DataOK' /\ Holds(t \o src)'
         /\ len' \in 0..cap' /\ disc' \in Nat /\ cap' = cap
         /\ \A f \in Functions : DOMAIN data'[f] = Cells
<1>1. PICK c \in 0..IobufMax : c = cap /\ cap' = c
  BY CapShape DEF FormatTypeOK, cap
<1>2. IobufMax \in Nat
  BY FormatAssumption
<1>3. PICK m \in Nat, n \in Nat : m = Len(t) /\ n = Len(src)
  BY LenProperties
<1> DEFINE s == t \o src
           k == Fits(n)
<1>4. s \in Seq(Chars) /\ Len(s) = m + n
      /\ (\A i \in 1..m : s[i] = t[i]) /\ \A i \in 1..n : s[m + i] = src[i]
  <2>1. \A i \in 1..n : m + i \in 1..(m + n) /\ ~(m + i <= m) /\ (m + i) - m = i
    OBVIOUS
  <2>2. QED BY <1>3, <2>1, ConcatProperties
<1> HIDE DEF s
<1>5. len = Least(m, c) /\ disc = m - len /\ len \in 0..c
  BY <1>1, <1>3 DEF Holds, Least
<1>6. k \in 0..n /\ len + k = Least(m + n, c)
      /\ (len < m => k = 0) /\ (k > 0 => len = m)
  BY <1>1, <1>5 DEF Fits, Least
<1>7. len' = len + k /\ disc' = disc + n - k
      /\ data' = [data EXCEPT ![fn] = [i \in Cells |->
                    IF i \in len..(len + k - 1) THEN src[i - len + 1] ELSE @[i]]]
  BY <1>3 DEF Write
<1> HIDE DEF k
<1>8. fn \in Functions /\ fn' = fn /\ before' = before
  BY DEF FormatTypeOK
<1> DEFINE new == [i \in Cells |-> IF i \in len..(len + k - 1)
                                   THEN src[i - len + 1] ELSE data[fn][i]]
<1>9. data' = [data EXCEPT ![fn] = new]
  BY <1>7, <1>8 DEF DataOK
<1>10. ASSUME NEW i \in Cells
       PROVE  /\ new[i] \in Chars
              /\ new[i] = IF i < len' THEN s[i + 1] ELSE before[i]
  <2>1. data[fn][i] \in Chars /\ data[fn][i] = IF i < len THEN t[i + 1] ELSE before[i]
    BY <1>8 DEF DataOK, Holds
  <2>2. /\ i \in Nat /\ len \in Nat /\ k \in 0..n /\ len' = len + k
        /\ k > 0 => len = m
    BY <1>5, <1>6, <1>7 DEF Cells
  <2>3. CASE i \in len..(len + k - 1)
    <3>1. len = m /\ i - len + 1 \in 1..n /\ i + 1 = m + (i - len + 1) /\ i < len'
      BY <2>2, <2>3
    <3>2. new[i] = src[i - len + 1]
      BY <2>3
    <3>3. src[i - len + 1] \in Chars
      BY <1>3, <3>1, ElementOfSeq
    <3>4. s[i + 1] = src[i - len + 1]
      BY <1>4, <3>1
    <3>5. QED BY <3>1, <3>2, <3>3, <3>4
  <2>4. CASE i \notin len..(len + k - 1)
    <3>1. new[i] = data[fn][i]
      BY <2>4
    <3>2. i < len' <=> i < len
      BY <2>2, <2>4
    <3>3. i < len => i + 1 \in 1..m
      BY <1>5, <2>2 DEF Least
    <3>4. QED BY <1>4, <2>1, <3>1, <3>2, <3>3
  <2>5. QED BY <2>3, <2>4
<1> HIDE DEF new
<1>11. new \in [Cells -> Chars]
  BY <1>10 DEF new
<1>12. data' \in [Functions -> [Cells -> Chars]] /\ data'[fn] = new
  BY <1>8, <1>9, <1>11 DEF DataOK
<1>13. len' \in 0..c /\ disc' = (m + n) - len' /\ disc' \in Nat
  BY <1>1, <1>5, <1>6, <1>7 DEF Least
<1>14. Holds(s)'
  BY <1>1, <1>4, <1>6, <1>7, <1>8, <1>10, <1>12, <1>13 DEF Holds
<1>15. QED BY <1>1, <1>8, <1>12, <1>13, <1>14 DEF DataOK, s

-----------------------------------------------------------------------------
(* The steps of the formatting.                                            *)

LEMMA FormatInit == Init => FormatInv
<1> SUFFICES ASSUME Init PROVE FormatInv
  OBVIOUS
<1>1. NUL \in Chars /\ Junk \in Chars
  BY DEF Chars
<1>2. Untouched \in [Functions -> [Cells -> Chars]]
  BY <1>1 DEF Untouched
<1>3. "cpyf" \in Functions
  BY DEF Functions
<1>4. DataOK
  BY <1>2, <1>3 DEF Init, DataOK
<1>5. cap \in 0..IobufMax /\ IobufMax \in Nat /\ MaxCalls \in Nat /\ dstsize \in 0..IobufMax
  <2>1. IobufMax \in Nat /\ MaxCalls \in Nat
    BY FormatAssumption
  <2>2. dstsize \in 0..IobufMax
    BY <2>1 DEF Init
  <2>3. QED BY <1>3, <2>1, <2>2, CapShape DEF Init
<1>6. FormatTypeOK
  <2>1. Len(call.format) = 0 /\ Len(call.args) = 0
    BY DEF Init, NoCall
  <2>2. \A f \in Functions : DOMAIN data[f] = Cells
    BY <1>4 DEF DataOK
  <2>3. QED BY <1>3, <1>5, <2>1, <2>2 DEF Init, FormatTypeOK
<1>7. pc = "idle"
  BY DEF Init
<1>8. QED BY <1>4, <1>6, <1>7 DEF FormatInv, WritesWhatFits, EndsWithNUL

LEMMA BeginKeeps == FormatInv /\ Begin => FormatInv'
<1> SUFFICES ASSUME FormatInv, Begin PROVE FormatInv'
  OBVIOUS
<1>1. fn' \in Functions /\ call' \in Calls /\ pc' = "format"
      /\ ptr' = 1 /\ ap' = 1 /\ len' = 0 /\ disc' = 0 /\ before' = data[fn']
      /\ data' = data /\ ret' = ret /\ calls' \in 0..MaxCalls
  <2>1. calls \in Nat /\ MaxCalls \in Nat
    BY FormatAssumption DEF FormatInv, FormatTypeOK
  <2>2. QED BY <2>1 DEF Begin
<1>2. dstsize' \in 0..IobufMax
  <2>1. DstSizes \subseteq 0..IobufMax /\ IobufMax \in 0..IobufMax
    BY FormatAssumption
  <2>2. QED BY <2>1 DEF Begin
<1>3. cap' \in 0..IobufMax
  <2>1. cap' = Cap(fn', dstsize')
    BY DEF cap
  <2>2. IobufMax \in Nat /\ IobufMax - 1 \in 0..IobufMax
    BY FormatAssumption
  <2>3. \/ fn' \in Sized /\ fn' \notin {"scpyf", "ssavef"} /\ fn' # "fputstr"
        \/ fn' \in {"scpyf", "ssavef"} /\ fn' \notin Sized /\ fn' # "fputstr"
        \/ fn' = "fputstr" /\ fn' \notin Sized /\ fn' \notin {"scpyf", "ssavef"}
    BY <1>1 DEF Functions, Sized
  <2>4. QED BY <1>2, <2>1, <2>2, <2>3 DEF Cap
<1>4. DataOK'
  BY <1>1 DEF FormatInv, DataOK
<1>5. FormatTypeOK'
  <2>1. Len(call'.format) \in Nat /\ Len(call'.args) \in Nat
    BY <1>1, CallShape
  <2>2. \A f \in Functions : DOMAIN data'[f] = Cells
    BY <1>4 DEF DataOK
  <2>3. ret' \in Int
    BY <1>1 DEF FormatInv, FormatTypeOK
  <2>4. 1 \in 1..(Len(call'.format) + 1) /\ 1 \in 1..(Len(call'.args) + 1)
    BY <2>1
  <2>5. 0 \in 0..cap'
    BY <1>3
  <2>6. QED BY <1>1, <1>2, <2>2, <2>3, <2>4, <2>5 DEF FormatTypeOK
<1>6. ReadOK'
  <2>1. ptr' - 1 = 0 /\ 0 \notin FieldsOf(call'.format)
    <3>1. \A k \in FieldsOf(call'.format) : k \in 1..Len(call'.format)
      BY <1>1, FieldsShape
    <3>2. QED BY <1>1, <3>1
  <2>2. FieldsBefore(call', 1) = 0
    BY <1>1, FieldCount
  <2>3. TextTo(call')[0] = <<>>
    BY <1>1, TextRule
  <2>4. Holds(<<>>)'
    <3>1. Least(0, cap') = 0
      BY <1>3 DEF Least
    <3>2. \A n \in Cells : ~(n < 0)
      BY DEF Cells
    <3>3. Len(<<>>) = 0
      BY EmptySeq
    <3>4. len' = Least(Len(<<>>), cap') /\ disc' = Len(<<>>) - len'
      BY <1>1, <3>1, <3>3
    <3>5. \A n \in Cells : data'[fn'][n] = before'[n]
      BY <1>1
    <3>6. QED BY <1>1, <3>2, <3>4, <3>5 DEF Holds
  <2>5. Holds(TextTo(call)[ptr - 1])'
    BY <2>1, <2>3, <2>4
  <2>6. QED BY <1>1, <2>1, <2>2, <2>5 DEF ReadOK
<1>7. QED
  BY <1>1, <1>4, <1>5, <1>6 DEF FormatInv, WritesWhatFits, EndsWithNUL

\* A step of the format writes src, what the characters read stand for.
LEMMA StepKeeps ==
  ASSUME FormatInv, pc = "format", NEW src \in Seq(Chars), Write(src),
         UNCHANGED <<fn, call, dstsize, pc, ret, given, calls, before>>,
         ptr' \in 1..(Len(call.format) + 1), ap' \in 1..(Len(call.args) + 1),
         ptr' - 1 \notin FieldsOf(call.format),
         ap' = FieldsBefore(call, ptr') + 1,
         TextTo(call)[ptr - 1] \in Seq(Chars),
         TextTo(call)[ptr' - 1] = TextTo(call)[ptr - 1] \o src
  PROVE  FormatInv'
<1>1. PICK t \in Seq(Chars) : t = TextTo(call)[ptr - 1]
  OBVIOUS
<1>2. FormatTypeOK /\ DataOK /\ ReadOK /\ Holds(t)
  BY <1>1 DEF FormatInv, ReadOK
<1>3. /\ DataOK' /\ Holds(t \o src)'
      /\ len' \in 0..cap' /\ disc' \in Nat /\ cap' = cap
      /\ \A f \in Functions : DOMAIN data'[f] = Cells
  BY <1>2, WriteHolds
<1>4. FormatTypeOK'
  BY <1>2, <1>3 DEF FormatTypeOK
<1>5. ReadOK'
  <2>1. TextTo(call')[ptr' - 1] = t \o src
    BY <1>1
  <2>2. Holds(TextTo(call)[ptr - 1])'
    BY <1>3, <2>1
  <2>3. QED BY <1>2, <2>2 DEF ReadOK
<1>6. pc' = "format"
  OBVIOUS
<1>7. QED
  BY <1>3, <1>4, <1>5, <1>6 DEF FormatInv, WritesWhatFits, EndsWithNUL

LEMMA CharKeeps == FormatInv /\ (Literal \/ NoField) => FormatInv'
<1> SUFFICES ASSUME FormatInv, Literal \/ NoField PROVE FormatInv'
  OBVIOUS
<1>1. /\ pc = "format" /\ ptr \in DOMAIN call.format
      /\ ptr \notin FieldsOf(call.format)
      /\ Write(<<call.format[ptr]>>) /\ ptr' = ptr + 1 /\ ap' = ap
      /\ UNCHANGED <<fn, call, dstsize, pc, ret, given, calls, before>>
  <2>1. CASE Literal
    BY <2>1 DEF Literal, FieldsOf
  <2>2. CASE NoField
    BY <2>2 DEF NoField
  <2>3. QED BY <2>1, <2>2
<1>2. call \in Calls /\ ptr - 1 \notin FieldsOf(call.format)
      /\ ap = FieldsBefore(call, ptr) + 1
  BY <1>1 DEF FormatInv, ReadOK
<1>3. ptr \in 1..Len(call.format) /\ Len(call.format) \in Nat
      /\ call.format[ptr] \in Chars
  BY <1>1, <1>2, CallShape
<1>4. /\ TextTo(call)[ptr - 1] \in Seq(Chars)
      /\ TextTo(call)[ptr] = TextTo(call)[ptr - 1] \o <<call.format[ptr]>>
  BY <1>1, <1>2, <1>3, TextNext
<1>5. ptr' - 1 = ptr /\ ptr' \in 1..(Len(call.format) + 1)
  BY <1>1, <1>3
<1>6. FieldsBefore(call, ptr') = FieldsBefore(call, ptr)
  <2>1. ptr \in Nat
    BY <1>3
  <2>2. FieldsBefore(call, ptr + 1) = FieldsBefore(call, ptr)
    BY <1>1, <1>2, <2>1, FieldCount
  <2>3. QED BY <1>1, <2>2
<1>7. ap' \in 1..(Len(call.args) + 1)
  BY <1>1 DEF FormatInv, FormatTypeOK
<1>8. <<call.format[ptr]>> \in Seq(Chars)
  BY <1>3, OneChar
<1>9. QED
  BY <1>1, <1>2, <1>4, <1>5, <1>6, <1>7, <1>8, StepKeeps

LEMMA FieldKeeps == FormatInv /\ Field => FormatInv'
<1> SUFFICES ASSUME FormatInv, Field PROVE FormatInv'
  OBVIOUS
<1>1. /\ pc = "format" /\ ptr \in FieldsOf(call.format)
      /\ Write(Text(call.format[ptr + 1], call.args[ap]))
      /\ ptr' = ptr + 2 /\ ap' = ap + 1
      /\ UNCHANGED <<fn, call, dstsize, pc, ret, given, calls, before>>
  BY DEF Field
<1>2. call \in Calls /\ ptr - 1 \notin FieldsOf(call.format)
      /\ ap = FieldsBefore(call, ptr) + 1
  BY <1>1 DEF FormatInv, ReadOK
<1>3. /\ ptr \in 1..Len(call.format) /\ ptr + 1 \in 1..Len(call.format)
      /\ Len(call.format) \in Nat /\ Len(call.args) \in Nat
      /\ ptr + 1 \notin FieldsOf(call.format)
  BY <1>1, <1>2, CallShape, FieldsShape
<1>4. /\ ap \in 1..Len(call.args)
      /\ FieldsBefore(call, ptr + 2) = FieldsBefore(call, ptr) + 1
      /\ ArgAt(call, ptr) = call.args[ap]
  BY <1>1, <1>2, FieldCount
<1>5. PICK src : src = Text(call.format[ptr + 1], ArgAt(call, ptr))
  OBVIOUS
<1>6. src \in Seq(Chars) /\ Write(src)
  <2>1. src \in Seq(Chars)
    <3>1. \A c \in Calls : \A k \in FieldsOf(c.format) :
             Text(c.format[k + 1], ArgAt(c, k)) \in Seq(Chars)
      BY TextIsMeant
    <3>2. QED BY <1>1, <1>2, <1>5, <3>1
  <2>2. src = Text(call.format[ptr + 1], call.args[ap])
    BY <1>4, <1>5
  <2>3. QED BY <1>1, <2>1, <2>2
<1>7. /\ TextTo(call)[ptr - 1] \in Seq(Chars)
      /\ TextTo(call)[ptr + 1] = TextTo(call)[ptr - 1] \o src
  BY <1>1, <1>2, <1>3, <1>5, TextNext
<1>8. ptr' - 1 = ptr + 1 /\ ptr' \in 1..(Len(call.format) + 1)
      /\ ap' \in 1..(Len(call.args) + 1)
  <2>1. ptr' = ptr + 2 /\ ap' = ap + 1
    BY <1>1
  <2>2. ptr' - 1 = ptr + 1 /\ ptr' \in 1..(Len(call.format) + 1)
    BY <1>3, <2>1
  <2>3. ap' \in 1..(Len(call.args) + 1)
    BY <1>3, <1>4, <2>1
  <2>4. QED BY <2>2, <2>3
<1>9. ap' = FieldsBefore(call, ptr') + 1
  BY <1>1, <1>2, <1>4
<1>10. QED
  BY <1>1, <1>3, <1>6, <1>7, <1>8, <1>9, StepKeeps

-----------------------------------------------------------------------------
(* The ends of the functions.                                              *)

\* When the format has been read, the whole text has been written.
LEMMA AllRead ==
  ASSUME FormatInv, pc = "format", ptr \notin DOMAIN call.format
  PROVE  /\ call \in Calls /\ WholeText \in Seq(Chars) /\ Holds(WholeText)
         /\ Len(WholeText) \in Nat /\ cap \in 0..IobufMax
         /\ len = Least(Len(WholeText), cap) /\ len \in 0..cap
         /\ disc = Len(WholeText) - len
<1>1. call \in Calls /\ Holds(TextTo(call)[ptr - 1])
  BY DEF FormatInv, ReadOK
<1>2. ptr - 1 = Len(call.format) /\ Len(call.format) \in Nat
  <2>1. ptr \in 1..(Len(call.format) + 1)
    BY DEF FormatInv, FormatTypeOK
  <2>2. Len(call.format) \in Nat /\ ptr \notin 1..Len(call.format)
    BY <1>1, CallShape
  <2>3. QED BY <2>1, <2>2
<1>3. WholeText = TextTo(call)[ptr - 1] /\ WholeText \in Seq(Chars)
  <2>1. Len(call.format) \in 0..Len(call.format)
    BY <1>2
  <2>2. QED BY <1>1, <1>2, <2>1, TextRule DEF WholeText
<1>4. Holds(WholeText) /\ Len(WholeText) \in Nat
  BY <1>1, <1>3, LenProperties
<1>5. cap \in 0..IobufMax
  BY CapShape DEF FormatInv, FormatTypeOK
<1>6. len = Least(Len(WholeText), cap) /\ disc = Len(WholeText) - len
  BY <1>4 DEF Holds
<1>7. len \in 0..cap
  BY DEF FormatInv, FormatTypeOK
<1>8. QED BY <1>1, <1>3, <1>4, <1>5, <1>6, <1>7

LEMMA SameText == call' = call => WholeText' = WholeText
BY DEF WholeText

\* The place where an end writes is no place of the text nor behind it.
EndPlace(e) == \/ e = -1
               \/ fn = "scpyf" /\ e = len
               \/ fn = "slcpyf" /\ dstsize > 0 /\ e = Last

LEMMA EndWrites ==
  ASSUME FormatInv, pc = "format", ptr \notin DOMAIN call.format,
         UNCHANGED <<fn, call, dstsize, len, before>>,
         NEW e, EndPlace(e),
         \A n \in Cells : n # e => data'[fn][n] = data[fn][n]
  PROVE  /\ \A n \in 0..(cap - 1) :
              (fn # "slcpyf" \/ n < dstsize - 1) /\ n < Len(WholeText)
                => data'[fn][n] = WholeText[n + 1]
         /\ \A n \in Cells :
              n > Len(WholeText) \/ n > cap \/ (n = cap /\ fn # "scpyf")
                => data'[fn][n] = before[n]
<1>1. PICK t \in Seq(Chars), m \in Nat, c \in 0..IobufMax :
         /\ t = WholeText /\ m = Len(t) /\ c = cap
         /\ len = Least(m, c) /\ len \in 0..c
         /\ \A n \in Cells : data[fn][n] = IF n < len THEN t[n + 1] ELSE before[n]
  <2>1. Holds(WholeText) /\ WholeText \in Seq(Chars) /\ Len(WholeText) \in Nat
        /\ cap \in 0..IobufMax
        /\ len = Least(Len(WholeText), cap) /\ len \in 0..cap
    BY AllRead
  <2>2. QED BY <2>1 DEF Holds
<1>2. fn = "slcpyf" => c = dstsize
  BY <1>1, CapShape DEF FormatInv, FormatTypeOK, Sized
<1>3. IobufMax \in Nat /\ dstsize \in Nat
  BY FormatAssumption DEF FormatInv, FormatTypeOK
<1>4. ASSUME NEW n \in 0..(c - 1), fn # "slcpyf" \/ n < dstsize - 1, n < m
      PROVE  data'[fn][n] = t[n + 1]
  <2>1. n < len /\ n \in Cells /\ n \in Nat
    BY <1>1, <1>3, <1>4 DEF Least, Cells
  <2>2. n # e
    <3>1. CASE e = -1
      BY <2>1, <3>1
    <3>2. CASE e = len
      BY <2>1, <3>2
    <3>3. CASE fn = "slcpyf" /\ e = Last
      BY <1>1, <1>3, <1>4, <2>1, <3>3 DEF Last
    <3>4. QED BY <3>1, <3>2, <3>3 DEF EndPlace
  <2>3. QED BY <1>1, <2>1, <2>2
<1>5. ASSUME NEW n \in Cells, n > m \/ n > c \/ (n = c /\ fn # "scpyf")
      PROVE  data'[fn][n] = before[n]
  <2>1. ~(n < len) /\ n \in Nat
    BY <1>1, <1>3, <1>5 DEF Least, Cells
  <2>2. n # e
    <3>1. CASE e = -1
      BY <2>1, <3>1
    <3>2. CASE fn = "scpyf" /\ e = len
      BY <1>1, <1>5, <2>1, <3>2 DEF Least
    <3>3. CASE fn = "slcpyf" /\ dstsize > 0 /\ e = Last
      BY <1>1, <1>2, <1>3, <1>5, <2>1, <3>3 DEF Least, Last
    <3>4. QED BY <3>1, <3>2, <3>3 DEF EndPlace
  <2>3. QED BY <1>1, <2>1, <2>2
<1>6. QED BY <1>1, <1>4, <1>5

LEMMA BeginningIs ==
  ASSUME WholeText \in Seq(Chars), NEW n \in Nat
  PROVE  /\ Beginning(n) \in Seq(Chars)
         /\ Len(Beginning(n)) = Least(n, Len(WholeText))
         /\ DOMAIN Beginning(n) = 1..Least(n, Len(WholeText))
         /\ \A i \in 1..Least(n, Len(WholeText)) : Beginning(n)[i] = WholeText[i]
<1>1. PICK t \in Seq(Chars), m \in Nat, k \in Nat :
         t = WholeText /\ m = Len(t) /\ k = Least(n, m) /\ k <= m
  <2>1. Len(WholeText) \in Nat
    BY LenProperties
  <2>2. Least(n, Len(WholeText)) \in 0..Len(WholeText)
    BY <2>1 DEF Least
  <2>3. QED BY <2>1, <2>2
<1>2. Beginning(n) = SubSeq(t, 1, k)
  BY <1>1 DEF Beginning
<1>3. /\ SubSeq(t, 1, k) \in Seq(Chars) /\ Len(SubSeq(t, 1, k)) = k
      /\ \A i \in 1..k : SubSeq(t, 1, k)[i] = t[i]
  <2>1. \A i \in 1..k : t[i] \in Chars /\ 1 + i - 1 = i
    BY <1>1, ElementOfSeq
  <2>2. 1 \in Int /\ k \in Int /\ k - 1 + 1 = k /\ (~(1 <= k) => k = 0)
    OBVIOUS
  <2>3. QED BY <2>1, <2>2, SubSeqProperties
<1>4. DOMAIN SubSeq(t, 1, k) = 1..k
  BY <1>3, LenProperties
<1>5. QED BY <1>1, <1>2, <1>3, <1>4

\* What the buffer holds is the beginning of the text.
LEMMA TakenIs ==
  ASSUME FormatInv, pc = "format", ptr \notin DOMAIN call.format
  PROVE  Taken(len) = Beginning(cap)
<1>1. PICK m \in Nat, c \in Nat :
         /\ m = Len(WholeText) /\ c = cap /\ c <= IobufMax /\ IobufMax \in Nat
         /\ len = Least(m, c) /\ len \in 0..c
         /\ \A n \in Cells : data[fn][n] = IF n < len THEN WholeText[n + 1] ELSE before[n]
  <2>1. IobufMax \in Nat
    BY FormatAssumption
  <2>2. cap \in Nat /\ cap <= IobufMax
    BY <2>1, AllRead
  <2>3. QED BY <2>1, <2>2, AllRead DEF Holds
<1>2. Least(c, m) = len
  BY <1>1 DEF Least
<1>3. ASSUME NEW i \in 1..len PROVE data[fn][i - 1] = WholeText[i]
  <2>1. i - 1 \in Cells /\ i - 1 < len /\ (i - 1) + 1 = i
    BY <1>1 DEF Cells
  <2>2. QED BY <1>1, <2>1
<1>4. /\ Beginning(c) \in Seq(Chars) /\ DOMAIN Beginning(c) = 1..len
      /\ \A i \in 1..len : Beginning(c)[i] = WholeText[i]
  BY <1>1, <1>2, AllRead, BeginningIs
<1>5. Beginning(c) = [i \in 1..len |-> Beginning(c)[i]]
  BY <1>4, SeqDef
<1>6. QED BY <1>1, <1>3, <1>4, <1>5 DEF Taken

LEMMA OneWritten ==
  ASSUME DataOK, fn \in Functions, NEW e \in Cells, NEW x \in Chars,
         data' = [data EXCEPT ![fn][e] = x]
  PROVE  /\ data' \in [Functions -> [Cells -> Chars]]
         /\ data'[fn][e] = x
         /\ \A n \in Cells : n # e => data'[fn][n] = data[fn][n]
<1> DEFINE row == [data[fn] EXCEPT ![e] = x]
<1>1. /\ row \in [Cells -> Chars] /\ row[e] = x
      /\ \A n \in Cells : n # e => row[n] = data[fn][n]
  BY DEF DataOK
<1>2. data' = [data EXCEPT ![fn] = row]
  OBVIOUS
<1> HIDE DEF row
<1>3. data' \in [Functions -> [Cells -> Chars]] /\ data'[fn] = row
  BY <1>1, <1>2 DEF DataOK
<1>4. QED BY <1>1, <1>3

\* What the ends of the functions have in common.
LEMMA ReturnKeeps ==
  ASSUME FormatInv, pc = "format", ptr \notin DOMAIN call.format,
         NEW e, EndPlace(e), NEW x \in Chars,
         data' = IF e = -1 THEN data ELSE [data EXCEPT ![fn][e] = x],
         NEW r \in Int, Returns(r)
  PROVE  /\ FormatTypeOK' /\ DataOK' /\ pc' = "done" /\ ret' = r
         /\ UNCHANGED <<fn, dstsize, before>> /\ cap' = cap
         /\ WholeText' = WholeText
         /\ \A n \in Cells : n # e => data'[fn][n] = data[fn][n]
<1>1. /\ ret' = r /\ pc' = "done"
      /\ UNCHANGED <<fn, call, dstsize, ptr, ap, len, disc, calls, before>>
  BY DEF Returns
<1>2. FormatTypeOK /\ DataOK /\ fn \in Functions
  BY DEF FormatInv, FormatTypeOK
<1>3. e = -1 \/ e \in Cells
  <2>1. cap \in 0..IobufMax /\ len \in 0..cap /\ dstsize \in 0..IobufMax
        /\ (fn = "slcpyf" => cap = dstsize)
    BY <1>2, CapShape DEF FormatTypeOK, Sized
  <2>2. IobufMax \in Nat
    BY FormatAssumption
  <2>3. len \in Cells /\ (fn = "slcpyf" /\ dstsize > 0 => Last \in Cells)
    BY <2>1, <2>2 DEF Cells, Last
  <2>4. QED BY <2>3 DEF EndPlace
<1>4. CASE e = -1
  <2>1. data' = data /\ -1 \notin Cells
    BY <1>4 DEF Cells
  <2>2. DataOK' /\ FormatTypeOK'
    BY <1>1, <1>2, <2>1 DEF DataOK, FormatTypeOK, cap
  <2>3. QED BY <1>1, <1>4, <2>1, <2>2, SameText DEF cap
<1>5. CASE e \in Cells
  <2>1. e # -1
    BY <1>5 DEF Cells
  <2>2. data' = [data EXCEPT ![fn][e] = x]
    BY <2>1
  <2>3. /\ data' \in [Functions -> [Cells -> Chars]]
        /\ \A n \in Cells : n # e => data'[fn][n] = data[fn][n]
    BY <1>2, <1>5, <2>2, OneWritten
  <2>4. DataOK'
    BY <1>1, <1>2, <2>3 DEF DataOK
  <2>5. \A f \in Functions : DOMAIN data'[f] = Cells
    BY <2>3
  <2>6. FormatTypeOK'
    BY <1>1, <1>2, <2>5 DEF FormatTypeOK, cap
  <2>7. QED BY <1>1, <2>3, <2>4, <2>6, SameText DEF cap
<1>6. QED BY <1>3, <1>4, <1>5

\* Of what a function promises, what is said of each separately.
LEMMA ReturnFits ==
  ASSUME FormatInv, pc = "format", ptr \notin DOMAIN call.format,
         NEW e, EndPlace(e), NEW x \in Chars,
         data' = IF e = -1 THEN data ELSE [data EXCEPT ![fn][e] = x],
         NEW r \in Int, Returns(r),
         fn \in {"cpyf", "scpyf", "slcpyf"} => r = len + disc,
         fn = "fputstr" => given' = Taken(len),
         EndsWithNUL'
  PROVE  FormatInv'
<1>1. /\ FormatTypeOK' /\ DataOK' /\ pc' = "done" /\ ret' = r
      /\ UNCHANGED <<fn, call, dstsize, len, before>> /\ cap' = cap
      /\ WholeText' = WholeText
      /\ \A n \in Cells : n # e => data'[fn][n] = data[fn][n]
  BY ReturnKeeps DEF Returns
<1>2. /\ \A n \in 0..(cap - 1) :
           (fn # "slcpyf" \/ n < dstsize - 1) /\ n < Len(WholeText)
             => data'[fn][n] = WholeText[n + 1]
      /\ \A n \in Cells :
           n > Len(WholeText) \/ n > cap \/ (n = cap /\ fn # "scpyf")
             => data'[fn][n] = before[n]
  BY <1>1, EndWrites
<1>3. fn \in {"cpyf", "scpyf", "slcpyf"} => ret' = Len(WholeText)
  <2>1. disc = Len(WholeText) - len /\ Len(WholeText) \in Nat /\ len \in Int
    BY AllRead DEF FormatInv, FormatTypeOK
  <2>2. len + disc = Len(WholeText)
    BY <2>1
  <2>3. QED BY <1>1, <2>2
<1>4. fn = "fputstr" => given' = Beginning(IobufMax)'
  <2>1. fn = "fputstr" => cap = IobufMax
    BY CapShape DEF FormatInv, FormatTypeOK
  <2>2. Beginning(IobufMax)' = Beginning(IobufMax)
    BY <1>1 DEF Beginning
  <2>3. QED BY <2>1, <2>2, TakenIs
<1>5. WritesWhatFits'
  BY <1>1, <1>2, <1>3, <1>4 DEF WritesWhatFits
<1>6. pc' # "format"
  BY <1>1
<1>7. QED BY <1>1, <1>5, <1>6 DEF FormatInv

LEMMA CpyfKeeps == FormatInv /\ Cpyf => FormatInv'
<1> SUFFICES ASSUME FormatInv, Cpyf PROVE FormatInv'
  OBVIOUS
<1>1. pc = "format" /\ fn = "cpyf" /\ ptr \notin DOMAIN call.format
      /\ Returns(len + disc) /\ data' = data /\ fn' = fn
  BY DEF Cpyf, Formatted, Returns
<1>2. len + disc \in Int
  BY <1>1, AllRead
<1>3. EndPlace(-1) /\ NUL \in Chars
  BY DEF EndPlace, Chars
<1>4. EndsWithNUL'
  BY <1>1 DEF EndsWithNUL
<1>5. QED BY <1>1, <1>2, <1>3, <1>4, ReturnFits

LEMMA FputstrKeeps == FormatInv /\ Fputstr => FormatInv'
<1> SUFFICES ASSUME FormatInv, Fputstr PROVE FormatInv'
  OBVIOUS
<1>1. PICK n \in -1..len : Returns(n)
  BY DEF Fputstr
<1>2. pc = "format" /\ fn = "fputstr" /\ ptr \notin DOMAIN call.format
      /\ data' = data /\ given' = Taken(len) /\ fn' = fn
  BY <1>1 DEF Fputstr, Formatted, Returns
<1>3. EndPlace(-1) /\ NUL \in Chars
  BY DEF EndPlace, Chars
<1>4. EndsWithNUL'
  BY <1>2 DEF EndsWithNUL
<1>5. QED BY <1>1, <1>2, <1>3, <1>4, ReturnFits

\* Behind the beginning of the text, written, stands the end.
LEMMA StringEnds ==
  ASSUME FormatInv, pc = "format", ptr \notin DOMAIN call.format,
         UNCHANGED <<fn, call>>, NEW e \in 0..len, e = Least(e, Len(WholeText)),
         \A n \in Cells : n # e => data'[fn][n] = data[fn][n],
         data'[fn][e] = NUL, NEW m \in Nat, Least(m, Len(WholeText)) = e
  PROVE  IsString(Beginning(m))'
<1>1. PICK t \in Seq(Chars), k \in Nat :
         /\ t = WholeText /\ k = Len(t) /\ len \in Nat /\ len <= k /\ len <= IobufMax
         /\ IobufMax \in Nat
         /\ \A n \in Cells : data[fn][n] = IF n < len THEN t[n + 1] ELSE before[n]
  <2>1. Holds(WholeText) /\ WholeText \in Seq(Chars) /\ Len(WholeText) \in Nat
        /\ cap \in 0..IobufMax /\ len = Least(Len(WholeText), cap) /\ len \in 0..cap
    BY AllRead
  <2>2. IobufMax \in Nat
    BY FormatAssumption
  <2>3. len \in Nat /\ len <= Len(WholeText) /\ len <= IobufMax
    BY <2>1, <2>2 DEF Least
  <2>4. QED BY <2>1, <2>2, <2>3 DEF Holds
<1>2. PICK s \in Seq(Chars) :
         /\ s = Beginning(m) /\ Len(s) = e /\ DOMAIN s = 1..e
         /\ \A i \in 1..e : s[i] = t[i]
  BY <1>1, BeginningIs
<1>3. Beginning(m)' = s
  BY <1>2, SameText DEF Beginning
<1>4. ASSUME NEW i \in 1..e PROVE data'[fn][i - 1] = s[i]
  <2>1. i - 1 \in Cells /\ i - 1 # e /\ i - 1 < len /\ (i - 1) + 1 = i
    BY <1>1 DEF Cells
  <2>2. QED BY <1>1, <1>2, <2>1
<1>5. IsString(s)'
  BY <1>2, <1>4 DEF IsString
<1>6. QED BY <1>3, <1>5 DEF IsString

LEMMA ScpyfKeeps == FormatInv /\ Scpyf => FormatInv'
<1> SUFFICES ASSUME FormatInv, Scpyf PROVE FormatInv'
  OBVIOUS
<1>1. pc = "format" /\ fn = "scpyf" /\ ptr \notin DOMAIN call.format
      /\ Returns(len + disc) /\ data' = [data EXCEPT ![fn][len] = NUL]
      /\ UNCHANGED <<fn, call, dstsize, len, before>>
  BY DEF Scpyf, Formatted, Returns
<1>2. PICK m \in Nat : /\ m = Len(WholeText) /\ cap = IobufMax - 1 /\ IobufMax \in Nat
                       /\ len = Least(m, IobufMax - 1) /\ len \in 0..(IobufMax - 1)
                       /\ IobufMax - 1 \in Nat
  <2>1. IobufMax \in Nat \ {0}
    BY FormatAssumption
  <2>2. cap = IobufMax - 1
    BY <1>1, CapShape DEF FormatInv, FormatTypeOK
  <2>3. QED BY <1>1, <2>1, <2>2, AllRead
<1>3. len + disc \in Int
  BY <1>1, AllRead
<1>4. EndPlace(len) /\ NUL \in Chars /\ len # -1 /\ len \in Cells
  BY <1>1, <1>2 DEF EndPlace, Chars, Cells
<1>5. /\ \A n \in Cells : n # len => data'[fn][n] = data[fn][n]
      /\ data'[fn][len] = NUL
  BY <1>1, <1>4, OneWritten DEF FormatInv, FormatTypeOK
<1>6. IsString(Beginning(IobufMax - 1))'
  <2>1. len = Least(len, m) /\ Least(IobufMax - 1, m) = len /\ len \in 0..len
    BY <1>2 DEF Least
  <2>2. QED BY <1>1, <1>2, <1>5, <2>1, StringEnds
<1>7. EndsWithNUL'
  BY <1>1, <1>6 DEF EndsWithNUL
<1>8. QED BY <1>1, <1>3, <1>4, <1>7, ReturnFits

LEMMA SlcpyfKeeps == FormatInv /\ Slcpyf => FormatInv'
<1> SUFFICES ASSUME FormatInv, Slcpyf PROVE FormatInv'
  OBVIOUS
<1>1. /\ pc = "format" /\ fn = "slcpyf" /\ ptr \notin DOMAIN call.format
      /\ Returns(len + disc)
      /\ data' = IF dstsize = 0 THEN data ELSE [data EXCEPT ![fn][Last] = NUL]
      /\ UNCHANGED <<fn, call, dstsize, len, before>>
  BY DEF Slcpyf, Formatted, Returns
<1>2. PICK m \in Nat, c \in Nat :
         /\ m = Len(WholeText) /\ c = dstsize /\ cap = c /\ c <= IobufMax
         /\ IobufMax \in Nat /\ len = Least(m, c) /\ len \in 0..c
  <2>1. IobufMax \in Nat
    BY FormatAssumption
  <2>2. cap = dstsize /\ dstsize \in 0..IobufMax
    BY <1>1, CapShape DEF FormatInv, FormatTypeOK, Sized
  <2>3. QED BY <1>1, <2>1, <2>2, AllRead
<1>3. len + disc \in Int
  BY <1>1, AllRead
<1>4. NUL \in Chars
  BY DEF Chars
<1>5. CASE dstsize = 0
  <2>1. EndPlace(-1) /\ data' = data
    BY <1>1, <1>5 DEF EndPlace
  <2>2. EndsWithNUL'
    <3>1. fn' = "slcpyf" /\ ~(dstsize' > 0)
      BY <1>1, <1>5
    <3>2. QED BY <3>1 DEF EndsWithNUL
  <2>3. QED BY <1>1, <1>3, <1>4, <2>1, <2>2, ReturnFits
<1>6. CASE dstsize # 0
  <2>1. /\ Last \in 0..len /\ Last = Least(c - 1, m) /\ Last = Least(Last, m)
        /\ c - 1 \in Nat /\ c > 0
    BY <1>2, <1>6 DEF Last, Least
  <2>2. EndPlace(Last) /\ Last # -1 /\ Last \in Cells
    BY <1>1, <1>2, <2>1 DEF EndPlace, Cells
  <2>3. data' = [data EXCEPT ![fn][Last] = NUL]
    BY <1>1, <1>6
  <2>4. /\ \A n \in Cells : n # Last => data'[fn][n] = data[fn][n]
        /\ data'[fn][Last] = NUL
    BY <1>4, <2>2, <2>3, OneWritten DEF FormatInv, FormatTypeOK
  <2>5. IsString(Beginning(dstsize - 1))'
    <3>1. IsString(Beginning(c - 1))'
      BY <1>1, <1>2, <2>1, <2>4, StringEnds
    <3>2. c - 1 = dstsize' - 1
      BY <1>1, <1>2
    <3>3. QED BY <3>1, <3>2 DEF IsString, Beginning
  <2>6. EndsWithNUL'
    BY <1>1, <2>5 DEF EndsWithNUL
  <2>7. QED BY <1>1, <1>3, <1>4, <2>2, <2>3, <2>6, ReturnFits
<1>7. QED BY <1>5, <1>6

LEMMA SsavefKeeps == FormatInv /\ Ssavef => FormatInv'
<1> SUFFICES ASSUME FormatInv, Ssavef PROVE FormatInv'
  OBVIOUS
<1>1. pc = "format" /\ fn = "ssavef" /\ ptr \notin DOMAIN call.format
      /\ data' = data
  BY DEF Ssavef, Formatted
<1>2. cap = IobufMax - 1
  BY <1>1, CapShape DEF FormatInv, FormatTypeOK
<1>3. EndPlace(-1) /\ NUL \in Chars
  BY DEF EndPlace, Chars
<1>4. CASE given' = Append(Taken(len), NUL) /\ Returns(len + disc)
  <2>1. len + disc = Len(WholeText) /\ len + disc \in Int
    <3>1. disc = Len(WholeText) - len /\ Len(WholeText) \in Nat
          /\ cap \in 0..IobufMax /\ len \in 0..cap
      BY <1>1, AllRead
    <3>2. QED BY <3>1
  <2>2. fn' = fn /\ call' = call /\ ret' = len + disc /\ WholeText' = WholeText
    BY <1>4, SameText DEF Returns
  <2>3. given' = Append(Beginning(IobufMax - 1), NUL)
    BY <1>1, <1>2, <1>4, TakenIs
  <2>4. Beginning(IobufMax - 1)' = Beginning(IobufMax - 1)
    BY <2>2 DEF Beginning
  <2>5. EndsWithNUL'
    BY <1>1, <2>1, <2>2, <2>3, <2>4 DEF EndsWithNUL
  <2>6. QED BY <1>1, <1>3, <1>4, <2>1, <2>5, ReturnFits
<1>5. CASE given' = Nothing /\ Returns(-1)
  <2>1. fn' = fn /\ ret' = -1 /\ -1 \in Int
    BY <1>5 DEF Returns
  <2>2. EndsWithNUL'
    BY <1>1, <1>5, <2>1 DEF EndsWithNUL
  <2>3. QED BY <1>1, <1>3, <1>5, <2>1, <2>2, ReturnFits
<1>6. QED BY <1>4, <1>5 DEF Ssavef

LEMMA ReturnedKeeps == FormatInv /\ Return => FormatInv'
<1> SUFFICES ASSUME FormatInv, Return PROVE FormatInv'
  OBVIOUS
<1>1. NUL \in Chars /\ Junk \in Chars
  BY DEF Chars
<1>2. Untouched \in [Functions -> [Cells -> Chars]]
  BY <1>1 DEF Untouched
<1>3. "cpyf" \in Functions
  BY DEF Functions
<1>4. DataOK'
  <2>1. data' = [f \in Functions |-> IF f \in Static THEN data[f] ELSE Untouched[f]]
        /\ before' = Untouched["cpyf"]
    BY DEF Return
  <2>2. QED BY <1>2, <1>3, <2>1 DEF FormatInv, DataOK
<1>5. fn' = "cpyf" /\ dstsize' = 0 /\ pc' = "idle" /\ call' = NoCall
  BY DEF Return
<1>6. cap' = 0 /\ 0 \in 0..IobufMax
  <2>1. cap' = Cap("cpyf", 0)
    BY <1>5 DEF cap
  <2>2. IobufMax \in Nat
    BY FormatAssumption
  <2>3. QED BY <2>1, <2>2 DEF Cap, Sized
<1>7. FormatTypeOK'
  <2>1. Len(call'.format) = 0 /\ Len(call'.args) = 0
    BY <1>5 DEF NoCall
  <2>2. \A f \in Functions : DOMAIN data'[f] = Cells
    BY <1>4 DEF DataOK
  <2>3. ptr' = 1 /\ ap' = 1 /\ len' = 0 /\ disc' = 0 /\ ret' = 0 /\ calls' \in 0..MaxCalls
    BY DEF Return, FormatInv, FormatTypeOK
  <2>4. QED BY <1>3, <1>5, <1>6, <2>1, <2>2, <2>3 DEF FormatTypeOK
<1>8. QED
  BY <1>4, <1>5, <1>7 DEF FormatInv, WritesWhatFits, EndsWithNUL

LEMMA FormatNext == FormatInv /\ [Next]_vars => FormatInv'
<1> SUFFICES ASSUME FormatInv, [Next]_vars PROVE FormatInv'
  OBVIOUS
<1>1. CASE Begin
  BY <1>1, BeginKeeps
<1>2. CASE Literal \/ NoField
  BY <1>2, CharKeeps
<1>3. CASE Field
  BY <1>3, FieldKeeps
<1>4. CASE Cpyf
  BY <1>4, CpyfKeeps
<1>5. CASE Scpyf
  BY <1>5, ScpyfKeeps
<1>6. CASE Slcpyf
  BY <1>6, SlcpyfKeeps
<1>7. CASE Ssavef
  BY <1>7, SsavefKeeps
<1>8. CASE Fputstr
  BY <1>8, FputstrKeeps
<1>9. CASE Return
  BY <1>9, ReturnedKeeps
<1>10. CASE UNCHANGED vars
  <2>1. FormatTypeOK' /\ DataOK' /\ (pc' = "format" => ReadOK')
    BY <1>10 DEF vars, FormatInv, FormatTypeOK, DataOK, ReadOK, Holds, cap
  <2>2. WritesWhatFits' /\ EndsWithNUL'
    BY <1>10 DEF vars, FormatInv, WritesWhatFits, EndsWithNUL, IsString,
                 Beginning, WholeText, cap
  <2>3. QED BY <2>1, <2>2 DEF FormatInv
<1>11. QED
  BY <1>1, <1>2, <1>3, <1>4, <1>5, <1>6, <1>7, <1>8, <1>9, <1>10 DEF Next

LEMMA FormatInvariance == Spec => []FormatInv
<1>1. Init => FormatInv
  BY FormatInit
<1>2. FormatInv /\ [Next]_vars => FormatInv'
  BY FormatNext
<1>3. QED BY <1>1, <1>2, PTL DEF Spec

-----------------------------------------------------------------------------
(* The theorems.                                                           *)

\* Type correctness of formatting: iob_write never counts more characters than
\* the function gave it room for, and the format and its arguments are read
\* within their bounds.
THEOREM FormatTypeCorrect == Spec => []FormatTypeOK
<1>1. FormatInv => FormatTypeOK
  BY DEF FormatInv
<1>2. QED BY <1>1, FormatInvariance, PTL

\* Each function of stringf.c writes the beginning of the text that fits, for
\* every format, every number of its integers and every size: the digits of
\* __int, __hex and __ptr are those of the number, INT_MIN included; slcpyf
\* returns the length of the whole text.
THEOREM WritesWhatFitsHolds == Spec => []WritesWhatFits
<1>1. FormatInv => WritesWhatFits
  BY DEF FormatInv
<1>2. QED BY <1>1, FormatInvariance, PTL

\* slcpyf, scpyf and ssavef end the string, whatever the length of the text.
THEOREM EndsWithNULHolds == Spec => []EndsWithNUL
<1>1. FormatInv => EndsWithNUL
  BY DEF FormatInv
<1>2. QED BY <1>1, FormatInvariance, PTL

=============================================================================
