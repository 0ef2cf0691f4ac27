-------------------------- MODULE ScenariosProofs --------------------------
(***************************************************************************)
(* Theorems about Scenarios, for every fleet and library: the lint is      *)
(* right about what a step does, a warm-up incident has its whole window,  *)
(* and a scenario that settled or recovered moves nothing any more.        *)
(*                                                                         *)
(* A product and a sum along a timeline are recursive functions: what is   *)
(* shown of them goes by induction over their places.  Everything else is  *)
(* about one step: where it hits, and what it does there.                  *)
(***************************************************************************)
EXTENDS Scenarios, FiniteSetTheorems, WellFoundedInduction, TLAPS

-----------------------------------------------------------------------------
(* Induction over the places of a list. *)

\* A set of natural numbers has a least.
LEMMA NatLeast ==
    ASSUME NEW T, T \subseteq Nat, T # {}
    PROVE  \E x \in T : \A y \in T : x <= y
<1>1. \E x \in T : \A y \in T : ~(<<y, x>> \in OpToRel(<, Nat))
  BY NatLessThanWellFounded, WFMin
<1>2. PICK x \in T : \A y \in T : ~(<<y, x>> \in OpToRel(<, Nat))
  BY <1>1
<1>3. \A y \in T : ~(y < x)
  BY <1>2 DEF OpToRel
<1> QED
  BY <1>3

\* What holds at zero and goes from each place to the next holds up to n.
LEMMA Inductively ==
    ASSUME NEW n \in Nat, NEW S, 0 \in S, \A i \in 0..n : i \in S /\ i # n => i + 1 \in S
    PROVE  0..n \subseteq S
<1> DEFINE T == {i \in 0..n : i \notin S}
<1> SUFFICES ASSUME T # {} PROVE FALSE
  OBVIOUS
<1>0. T \subseteq Nat
  OBVIOUS
<1>1. PICK x \in T : \A y \in T : x <= y
  <2> HIDE DEF T
  <2> QED
    BY <1>0, NatLeast
<1>2. x # 0 /\ x \in 0..n
  OBVIOUS
<1>3. x - 1 \in 0..n /\ x - 1 \notin T
  BY <1>1, <1>2
<1> QED
  BY <1>2, <1>3

\* Values that stay in a set from each place to the next are all in it.
LEMMA StaysIn ==
    ASSUME NEW n \in Nat, NEW g, NEW T, g[0] \in T, \A i \in 1..n : g[i - 1] \in T => g[i] \in T
    PROVE  \A i \in 0..n : g[i] \in T
<1> DEFINE S == {i \in 0..n : g[i] \in T}
<1>1. 0 \in S
  OBVIOUS
<1>2. ASSUME NEW i \in 0..n, i \in S, i # n PROVE i + 1 \in S
  <2>1. i + 1 \in 1..n /\ (i + 1) - 1 = i
    BY <1>2
  <2>2. g[i + 1] \in T
    BY <2>1, <1>2
  <2> QED
    BY <2>1, <2>2
<1> HIDE DEF S
<1>3. 0..n \subseteq S
  BY <1>1, <1>2, Inductively
<1> QED
  BY <1>3 DEF S

-----------------------------------------------------------------------------
(* Products and sums. *)

\* A run of an operation along a sequence exists.
LEMMA RunExists ==
    ASSUME NEW f \in Seq(Int), NEW op \in [Int \X Int -> Int], NEW b \in Int
    PROVE  \E p \in [0..Len(f) -> Int] : p[0] = b /\ \A i \in 1..Len(f) : p[i] = op[<<p[i - 1], f[i]>>]
<1> DEFINE Upto(n) == {p \in [0..n -> Int] : p[0] = b /\ \A i \in 1..n : p[i] = op[<<p[i - 1], f[i]>>]}
           S == {n \in 0..Len(f) : Upto(n) # {}}
<1>0. Len(f) \in Nat
  OBVIOUS
<1>1. 0 \in S
  <2>1. [i \in 0..0 |-> b] \in Upto(0)
    OBVIOUS
  <2>2. Upto(0) # {} /\ 0 \in 0..Len(f)
    BY <2>1, <1>0
  <2> QED
    BY <2>2
<1>2. ASSUME NEW n \in 0..Len(f), n \in S, n # Len(f) PROVE n + 1 \in S
  <2>0. Upto(n) # {}
    BY <1>2
  <2>1. n + 1 \in 1..Len(f) /\ n \in Nat
    BY <1>2, <1>0
  <2>2. PICK p \in Upto(n) : TRUE
    BY <2>0
  <2> DEFINE q == [i \in 0..n + 1 |-> IF i = n + 1 THEN op[<<p[n], f[n + 1]>>] ELSE p[i]]
  <2>3. q \in Upto(n + 1)
    <3>1. f[n + 1] \in Int /\ p[n] \in Int /\ \A i \in 0..n : p[i] \in Int
      BY <2>1
    <3>2. op[<<p[n], f[n + 1]>>] \in Int
      BY <3>1
    <3>3. q \in [0..n + 1 -> Int]
      BY <3>1, <3>2
    <3>4. q[0] = b
      OBVIOUS
    <3>5. ASSUME NEW i \in 1..n + 1 PROVE q[i] = op[<<q[i - 1], f[i]>>]
      <4>1. CASE i = n + 1
        <5>1. n \in 0..n + 1 /\ n + 1 \in 0..n + 1 /\ n # n + 1 /\ (n + 1) - 1 = n
          BY <2>1
        <5>2. q[n + 1] = op[<<p[n], f[n + 1]>>] /\ q[n] = p[n]
          BY <5>1
        <5> QED
          BY <4>1, <5>1, <5>2
      <4>2. CASE i # n + 1
        <5>1. i \in 1..n /\ i - 1 \in 0..n /\ i \in 0..n + 1 /\ i - 1 \in 0..n + 1 /\ i # n + 1 /\ i - 1 # n + 1
          BY <4>2
        <5>2. p[i] = op[<<p[i - 1], f[i]>>]
          BY <5>1, <2>2
        <5> QED
          BY <5>1, <5>2
      <4> QED
        BY <4>1, <4>2
    <3> QED
      BY <3>3, <3>4, <3>5
  <2>4. n + 1 \in 0..Len(f)
    BY <2>1
  <2> QED
    BY <2>3, <2>4
<1>3. Len(f) \in S
  <2> HIDE DEF S
  <2>1. 0..Len(f) \subseteq S
    BY <1>0, <1>1, <1>2, Inductively
  <2> QED
    BY <2>1, <1>0
<1>4. Upto(Len(f)) # {}
  BY <1>3
<1>5. PICK p \in Upto(Len(f)) : TRUE
  BY <1>4
<1> QED
  BY <1>5

\* The product of a sequence is where the run of its factors ends.
LEMMA TimesRun ==
    ASSUME NEW f \in Seq(Int)
    PROVE  \E p \in [0..Len(f) -> Int] :
              /\ p[0] = 1 /\ \A i \in 1..Len(f) : p[i] = p[i - 1] * f[i]
              /\ Times(f) = p[Len(f)]
<1> DEFINE R(p) == [i \in 0..Len(f) |-> IF i = 0 THEN 1 ELSE p[i - 1] * f[i]]
           g == CHOOSE p : p = R(p)
<1>0. Len(f) \in Nat
  OBVIOUS
<1>1. PICK op \in [Int \X Int -> Int] : \A x, y \in Int : op[<<x, y>>] = x * y
  <2>1. [z \in Int \X Int |-> z[1] * z[2]] \in [Int \X Int -> Int]
    OBVIOUS
  <2> QED
    BY <2>1
<1>2. PICK p \in [0..Len(f) -> Int] : p[0] = 1 /\ \A i \in 1..Len(f) : p[i] = op[<<p[i - 1], f[i]>>]
  <2>1. 1 \in Int
    OBVIOUS
  <2> QED
    BY <2>1, RunExists, ZenonT(20)
<1>a. p = R(p)
  <2>1. ASSUME NEW i \in 1..Len(f) PROVE p[i] = p[i - 1] * f[i]
    <3>0. i - 1 \in 0..Len(f) /\ f[i] \in Int
      BY <1>0
    <3>1. p[i - 1] \in Int /\ f[i] \in Int
      BY <3>0
    <3> QED
      BY <1>1, <1>2, <3>1
  <2>2. ASSUME NEW i \in 0..Len(f) PROVE p[i] = R(p)[i]
    <3>1. CASE i = 0
      BY <3>1, <1>2
    <3>2. CASE i # 0
      <4>1. i \in 1..Len(f)
        BY <3>2, <1>0
      <4> QED
        BY <3>2, <4>1, <2>1
    <3> QED
      BY <3>1, <3>2
  <2> QED
    BY <2>2
<1>3. g = R(g)
  BY <1>a
<1>4. Times(f) = g[Len(f)]
  BY DEF Times
<1> HIDE DEF g
<1>5. g[0] = 1 /\ \A i \in 1..Len(f) : g[i] = g[i - 1] * f[i]
  <2>1. g[0] = 1
    BY <1>0, <1>3
  <2>2. ASSUME NEW i \in 1..Len(f) PROVE g[i] = g[i - 1] * f[i]
    <3>1. i \in 0..Len(f) /\ i # 0
      BY <1>0
    <3> QED
      BY <1>3, <3>1
  <2> QED
    BY <2>1, <2>2
<1>6. \A i \in 0..Len(f) : g[i] \in Int
  <2> DEFINE T == Int
  <2>1. ASSUME NEW i \in 1..Len(f), g[i - 1] \in T PROVE g[i] \in T
    <3>1. f[i] \in Int
      OBVIOUS
    <3> QED
      BY <1>5, <2>1, <3>1
  <2>2. g[0] \in T
    BY <1>5
  <2>3. \A i \in 0..Len(f) : g[i] \in T
    <3> HIDE DEF T
    <3> QED
      BY <1>0, <2>1, <2>2, StaysIn
  <2> QED
    BY <2>3
<1>7. g \in [0..Len(f) -> Int]
  <2>1. g = [i \in 0..Len(f) |-> g[i]]
    BY <1>3
  <2> QED
    BY <2>1, <1>6
<1> QED
  BY <1>4, <1>5, <1>7

\* The sum of a sequence is where the run of its terms ends.
LEMMA PlusRun ==
    ASSUME NEW f \in Seq(Int)
    PROVE  \E p \in [0..Len(f) -> Int] :
              /\ p[0] = 0 /\ \A i \in 1..Len(f) : p[i] = p[i - 1] + f[i]
              /\ Plus(f) = p[Len(f)]
<1> DEFINE R(p) == [i \in 0..Len(f) |-> IF i = 0 THEN 0 ELSE p[i - 1] + f[i]]
           g == CHOOSE p : p = R(p)
<1>0. Len(f) \in Nat
  OBVIOUS
<1>1. PICK op \in [Int \X Int -> Int] : \A x, y \in Int : op[<<x, y>>] = x + y
  <2>1. [z \in Int \X Int |-> z[1] + z[2]] \in [Int \X Int -> Int]
    OBVIOUS
  <2> QED
    BY <2>1
<1>2. PICK p \in [0..Len(f) -> Int] : p[0] = 0 /\ \A i \in 1..Len(f) : p[i] = op[<<p[i - 1], f[i]>>]
  <2>1. 0 \in Int
    OBVIOUS
  <2> QED
    BY <2>1, RunExists, ZenonT(20)
<1>a. p = R(p)
  <2>1. ASSUME NEW i \in 1..Len(f) PROVE p[i] = p[i - 1] + f[i]
    <3>0. i - 1 \in 0..Len(f) /\ f[i] \in Int
      BY <1>0
    <3>1. p[i - 1] \in Int /\ f[i] \in Int
      BY <3>0
    <3> QED
      BY <1>1, <1>2, <3>1
  <2>2. ASSUME NEW i \in 0..Len(f) PROVE p[i] = R(p)[i]
    <3>1. CASE i = 0
      BY <3>1, <1>2
    <3>2. CASE i # 0
      <4>1. i \in 1..Len(f)
        BY <3>2, <1>0
      <4> QED
        BY <3>2, <4>1, <2>1
    <3> QED
      BY <3>1, <3>2
  <2> QED
    BY <2>2
<1>3. g = R(g)
  BY <1>a
<1>4. Plus(f) = g[Len(f)]
  BY DEF Plus
<1> HIDE DEF g
<1>5. g[0] = 0 /\ \A i \in 1..Len(f) : g[i] = g[i - 1] + f[i]
  <2>1. g[0] = 0
    BY <1>0, <1>3
  <2>2. ASSUME NEW i \in 1..Len(f) PROVE g[i] = g[i - 1] + f[i]
    <3>1. i \in 0..Len(f) /\ i # 0
      BY <1>0
    <3> QED
      BY <1>3, <3>1
  <2> QED
    BY <2>1, <2>2
<1>6. \A i \in 0..Len(f) : g[i] \in Int
  <2> DEFINE T == Int
  <2>1. ASSUME NEW i \in 1..Len(f), g[i - 1] \in T PROVE g[i] \in T
    <3>1. f[i] \in Int
      OBVIOUS
    <3> QED
      BY <1>5, <2>1, <3>1
  <2>2. g[0] \in T
    BY <1>5
  <2>3. \A i \in 0..Len(f) : g[i] \in T
    <3> HIDE DEF T
    <3> QED
      BY <1>0, <2>1, <2>2, StaysIn
  <2> QED
    BY <2>3
<1>7. g \in [0..Len(f) -> Int]
  <2>1. g = [i \in 0..Len(f) |-> g[i]]
    BY <1>3
  <2> QED
    BY <2>1, <1>6
<1> QED
  BY <1>4, <1>5, <1>7

\* A product of natural numbers grows with either factor.
LEMMA ProductGrows ==
    ASSUME NEW a \in Nat, NEW b \in Nat, NEW c \in Nat, NEW d \in Nat, a <= b, c <= d
    PROVE  a * c \in Nat /\ b * d \in Nat /\ a * c <= b * d
<1>1. a * c <= b * c
  OBVIOUS
<1>2. b * c <= b * d
  OBVIOUS
<1>3. a * c \in Nat /\ b * c \in Nat /\ b * d \in Nat
  OBVIOUS
<1>4. \A x, y, z \in Nat : x <= y /\ y <= z => x <= z
  OBVIOUS
<1> QED
  BY <1>1, <1>2, <1>3, <1>4, Zenon

\* Products of natural numbers grow with their factors.
LEMMA TimesGrow ==
    ASSUME NEW f \in Seq(Nat), NEW g \in Seq(Nat), Len(f) = Len(g), \A i \in 1..Len(f) : f[i] <= g[i]
    PROVE  Times(f) \in Nat /\ Times(g) \in Nat /\ Times(f) <= Times(g)
<1>0. f \in Seq(Int) /\ g \in Seq(Int) /\ Len(f) \in Nat
  OBVIOUS
<1>1. PICK p \in [0..Len(f) -> Int] :
              /\ p[0] = 1 /\ \A i \in 1..Len(f) : p[i] = p[i - 1] * f[i]
              /\ Times(f) = p[Len(f)]
  BY <1>0, TimesRun
<1>2. PICK q \in [0..Len(g) -> Int] :
              /\ q[0] = 1 /\ \A i \in 1..Len(g) : q[i] = q[i - 1] * g[i]
              /\ Times(g) = q[Len(g)]
  BY <1>0, TimesRun
<1> DEFINE h == [i \in 0..Len(f) |-> <<p[i], q[i]>>]
           T == {x \in Nat \X Nat : x[1] <= x[2]}
<1>3. h[0] \in T
  BY <1>0, <1>1, <1>2
<1>4. ASSUME NEW i \in 1..Len(f), h[i - 1] \in T PROVE h[i] \in T
  <2>1. i \in 0..Len(f) /\ i - 1 \in 0..Len(f)
    BY <1>0
  <2>2. p[i - 1] \in Nat /\ q[i - 1] \in Nat /\ p[i - 1] <= q[i - 1]
    BY <1>4, <2>1
  <2>3. f[i] \in Nat /\ g[i] \in Nat /\ f[i] <= g[i]
    BY <1>0
  <2>4. p[i - 1] * f[i] \in Nat /\ q[i - 1] * g[i] \in Nat /\ p[i - 1] * f[i] <= q[i - 1] * g[i]
    BY <2>2, <2>3, ProductGrows
  <2>5. p[i] = p[i - 1] * f[i] /\ q[i] = q[i - 1] * g[i]
    BY <1>1, <1>2
  <2>6. p[i] \in Nat /\ q[i] \in Nat /\ p[i] <= q[i]
    BY <2>4, <2>5
  <2> QED
    BY <2>1, <2>6
<1> HIDE DEF h, T
<1>5. \A i \in 0..Len(f) : h[i] \in T
  BY <1>0, <1>3, <1>4, StaysIn
<1>6. h[Len(f)] \in T
  BY <1>0, <1>5
<1> QED
  BY <1>0, <1>1, <1>2, <1>6 DEF h, T

\* A sum of numbers of one sign has it.
LEMMA PlusSign ==
    ASSUME NEW f \in Seq(Int)
    PROVE  /\ Plus(f) \in Int
           /\ (\A i \in 1..Len(f) : f[i] >= 0) => Plus(f) >= 0
           /\ (\A i \in 1..Len(f) : f[i] <= 0) => Plus(f) <= 0
<1>0. Len(f) \in Nat
  OBVIOUS
<1>1. PICK p \in [0..Len(f) -> Int] :
              /\ p[0] = 0 /\ \A i \in 1..Len(f) : p[i] = p[i - 1] + f[i]
              /\ Plus(f) = p[Len(f)]
  BY PlusRun
<1>2. ASSUME \A i \in 1..Len(f) : f[i] >= 0 PROVE p[Len(f)] >= 0
  <2> DEFINE T == Nat
  <2>1. ASSUME NEW i \in 1..Len(f), p[i - 1] \in T PROVE p[i] \in T
    <3>1. f[i] \in Int
      OBVIOUS
    <3> QED
      BY <1>1, <1>2, <2>1, <3>1
  <2>0. p[0] \in T
    BY <1>1
  <2> HIDE DEF T
  <2>2. \A i \in 0..Len(f) : p[i] \in T
    BY <1>0, <2>0, <2>1, StaysIn
  <2> QED
    BY <1>0, <2>2 DEF T
<1>3. ASSUME \A i \in 1..Len(f) : f[i] <= 0 PROVE p[Len(f)] <= 0
  <2> DEFINE T == {x \in Int : x <= 0}
  <2>1. ASSUME NEW i \in 1..Len(f), p[i - 1] \in T PROVE p[i] \in T
    BY <1>1, <1>3, <2>1
  <2>0. p[0] \in T
    BY <1>1
  <2> HIDE DEF T
  <2>2. \A i \in 0..Len(f) : p[i] \in T
    BY <1>0, <2>0, <2>1, StaysIn
  <2> QED
    BY <1>0, <2>2 DEF T
<1> QED
  BY <1>0, <1>1, <1>2, <1>3

-----------------------------------------------------------------------------
(* Shares of a span. *)

\* A multiple keeps the order.
LEMMA Scaled ==
    ASSUME NEW b \in Nat, NEW x \in Int, NEW y \in Int, x <= y
    PROVE  b * x \in Int /\ b * y \in Int /\ b * x <= b * y
<1>1. y - x \in Nat /\ b * (y - x) \in Nat
  OBVIOUS
<1>2. b * y = b * x + b * (y - x)
  OBVIOUS
<1>3. b * x \in Int /\ b * y \in Int
  OBVIOUS
<1> QED
  BY <1>1, <1>2, <1>3

\* What a quotient is.
LEMMA Divided ==
    ASSUME NEW a \in Int, NEW b \in Nat \ {0}
    PROVE  a \div b \in Int /\ b * (a \div b) <= a /\ a < b * (a \div b) + b
OBVIOUS

\* A number with what defines the quotient is the quotient.
LEMMA DividedBy ==
    ASSUME NEW a \in Int, NEW b \in Nat \ {0}, NEW q \in Int, b * q <= a, a < b * q + b
    PROVE  a \div b = q
<1> DEFINE d == a \div b
<1>1. d \in Int /\ b * d <= a /\ a < b * d + b
  BY Divided
<1> HIDE DEF d
<1>2. ~(d <= q - 1)
  <2> SUFFICES ASSUME d <= q - 1 PROVE FALSE
    OBVIOUS
  <2>1. b * d <= b * (q - 1)
    BY Scaled, <1>1
  <2>2. b * (q - 1) = b * q - b
    OBVIOUS
  <2>3. b * d \in Int /\ b * q \in Int
    BY <1>1
  <2> QED
    BY <1>1, <2>1, <2>2, <2>3
<1>3. ~(q <= d - 1)
  <2> SUFFICES ASSUME q <= d - 1 PROVE FALSE
    OBVIOUS
  <2>1. b * q <= b * (d - 1)
    BY Scaled, <1>1
  <2>2. b * (d - 1) = b * d - b
    BY <1>1
  <2>3. b * d \in Int /\ b * q \in Int
    BY <1>1
  <2> QED
    BY <1>1, <2>1, <2>2, <2>3
<1>4. d = q
  BY <1>1, <1>2, <1>3
<1> QED
  BY <1>4 DEF d

\* A share of a whole, of either sign, lies between none of it and all of it.
LEMMA DividedWithin ==
    ASSUME NEW s \in Nat \ {0}, NEW c \in 0..s, NEW by \in Int
    PROVE  /\ (by * c) \div s \in Int
           /\ by >= 0 => (by * c) \div s >= 0 /\ (by * c) \div s <= by
           /\ by <= 0 => (by * c) \div s >= by /\ (by * c) \div s <= 0
           /\ c = s => (by * c) \div s = by
<1> DEFINE d == (by * c) \div s
<1>0. by * c \in Int
  OBVIOUS
<1>1. d \in Int /\ s * d <= by * c /\ by * c < s * d + s
  BY <1>0, Divided
<1>2. c = s => d = by
  <2> HAVE c = s
  <2>1. s * by <= by * c /\ by * c < s * by + s
    OBVIOUS
  <2> QED
    BY <2>1, <1>0, DividedBy
<1> HIDE DEF d
<1>a. s * d \in Int /\ s * d + s = s * (d + 1)
  BY <1>1
<1>3. ASSUME by >= 0 PROVE d >= 0 /\ d <= by
  <2>1. 0 <= by * c /\ by * c <= by * s
    <3>1. by * 0 <= by * c /\ by * c <= by * s
      BY <1>3, Scaled
    <3>2. by * 0 = 0
      OBVIOUS
    <3> QED
      BY <3>1, <3>2
  <2>2. d >= 0
    <3> SUFFICES ASSUME d + 1 <= 0 PROVE FALSE
      BY <1>1
    <3>1. s * (d + 1) <= s * 0 /\ s * 0 = 0
      BY Scaled, <1>1
    <3> QED
      BY <3>1, <2>1, <1>0, <1>1, <1>a
  <2>3. d <= by
    <3> SUFFICES ASSUME by + 1 <= d PROVE FALSE
      BY <1>1
    <3>1. s * (by + 1) <= s * d
      BY Scaled, <1>1
    <3>2. s * (by + 1) = by * s + s /\ by * s \in Int
      OBVIOUS
    <3> QED
      BY <3>1, <3>2, <2>1, <1>0, <1>1, <1>a
  <2> QED
    BY <2>2, <2>3
<1>4. ASSUME by <= 0 PROVE d >= by /\ d <= 0
  <2>1. by * c <= 0 /\ by * s <= by * c
    <3>1. (-by) * 0 <= (-by) * c /\ (-by) * c <= (-by) * s
      BY <1>4, Scaled
    <3>2. (-by) * 0 = 0 /\ (-by) * c = -(by * c) /\ (-by) * s = -(by * s) /\ by * s \in Int
      OBVIOUS
    <3> QED
      BY <3>1, <3>2, <1>0
  <2>2. d <= 0
    <3> SUFFICES ASSUME 1 <= d PROVE FALSE
      BY <1>1
    <3>1. s * 1 <= s * d /\ s * 1 = s
      BY Scaled, <1>1
    <3> QED
      BY <3>1, <2>1, <1>0, <1>1, <1>a
  <2>3. d >= by
    <3> SUFFICES ASSUME d + 1 <= by PROVE FALSE
      BY <1>1
    <3>1. s * (d + 1) <= s * by
      BY Scaled, <1>1
    <3>2. s * by = by * s /\ by * s \in Int
      OBVIOUS
    <3> QED
      BY <3>1, <3>2, <2>1, <1>0, <1>1, <1>a
  <2> QED
    BY <2>2, <2>3
<1> QED
  BY <1>1, <1>2, <1>3, <1>4 DEF d

\* A part of a span never leaves its bounds, and is all of it once the span is over.
LEMMA AlongWithin ==
    ASSUME NEW elapsed \in Nat, NEW span \in Int, NEW by \in Int
    PROVE  /\ Along(elapsed, span, by) \in Int
           /\ by >= 0 => Along(elapsed, span, by) >= 0 /\ Along(elapsed, span, by) <= by
           /\ by <= 0 => Along(elapsed, span, by) >= by /\ Along(elapsed, span, by) <= 0
           /\ span < 0 => Along(elapsed, span, by) = 0
           /\ span >= 0 /\ elapsed > span => Along(elapsed, span, by) = by
<1>1. CASE span = 0
  BY <1>1 DEF Along
<1>2. CASE span < 0
  BY <1>2 DEF Along
<1>3. CASE span > 0
  <2>1. Along(elapsed, span, by) = (by * Capped(elapsed, span)) \div span
    BY <1>3 DEF Along
  <2>2. Capped(elapsed, span) \in 0..span /\ (elapsed > span => Capped(elapsed, span) = span)
    BY <1>3 DEF Capped
  <2>3. span \in Nat \ {0}
    BY <1>3
  <2>4. PICK c \in 0..span : c = Capped(elapsed, span)
    BY <2>2
  <2>5. /\ (by * c) \div span \in Int
        /\ by >= 0 => (by * c) \div span >= 0 /\ (by * c) \div span <= by
        /\ by <= 0 => (by * c) \div span >= by /\ (by * c) \div span <= 0
        /\ c = span => (by * c) \div span = by
    BY <2>3, DividedWithin
  <2>6. Along(elapsed, span, by) = (by * c) \div span /\ (elapsed > span => c = span)
    BY <2>1, <2>2, <2>4
  <2> DEFINE d == (by * c) \div span
  <2> HIDE DEF d
  <2>7. /\ d \in Int /\ (by >= 0 => d >= 0 /\ d <= by) /\ (by <= 0 => d >= by /\ d <= 0)
        /\ (c = span => d = by) /\ Along(elapsed, span, by) = d
    BY <2>5, <2>6 DEF d
  <2> QED
    BY <2>6, <2>7, <1>3
<1> QED
  BY <1>1, <1>2, <1>3

\* Once the span is over the whole is there, unless the span is negative: then nothing ever is.
LEMMA AlongOver ==
    ASSUME NEW elapsed \in Nat, NEW span \in Int, NEW by \in Int, elapsed > span
    PROVE  Along(elapsed, span, by) = IF span < 0 THEN 0 ELSE by
<1>1. span < 0 => Along(elapsed, span, by) = 0
  BY AlongWithin
<1>2. span >= 0 => Along(elapsed, span, by) = by
  BY AlongWithin
<1> QED
  BY <1>1, <1>2

\* A product of members of a set that is closed under these factors is in the set.
LEMMA TimesIn ==
    ASSUME NEW f \in Seq(Int), NEW T, 1 \in T, \A x \in T, i \in 1..Len(f) : x * f[i] \in T
    PROVE  Times(f) \in T
<1>0. Len(f) \in Nat
  OBVIOUS
<1>1. PICK p \in [0..Len(f) -> Int] :
              /\ p[0] = 1 /\ \A i \in 1..Len(f) : p[i] = p[i - 1] * f[i]
              /\ Times(f) = p[Len(f)]
  BY TimesRun
<1>2. ASSUME NEW i \in 1..Len(f), p[i - 1] \in T PROVE p[i] \in T
  BY <1>1, <1>2
<1>3. \A i \in 0..Len(f) : p[i] \in T
  BY <1>0, <1>1, <1>2, StaysIn
<1> QED
  BY <1>0, <1>1, <1>3

\* A product of integers is one.
LEMMA TimesInt == ASSUME NEW f \in Seq(Int) PROVE Times(f) \in Int
<1>1. Len(f) \in Nat
  OBVIOUS
<1> QED
  BY <1>1, TimesRun

-----------------------------------------------------------------------------
(* Effects. *)

\* What multiplies goes only where the lint says that its effect is to go, and a recovery
\* leaves between none and both of its halves.
LEMMA MultiplierFacts ==
    ASSUME NEW e, IsEffect(e), NEW t \in Nat
    PROVE  /\ e.kind \in Factors => MultiplierAt(e, t) \in Int
           /\ e.kind \in Factors /\ IntendedDirection(e) = 1 => MultiplierAt(e, t) >= Quarters
           /\ e.kind \in Factors /\ IntendedDirection(e) = -1 => 0 <= MultiplierAt(e, t) /\ MultiplierAt(e, t) <= Quarters
           /\ e.kind = "recover" => MultiplierAt(e, t) \in 0..2
<1> USE DEF Quarters
<1>1. CASE e.kind = "step"
  BY <1>1 DEF IsEffect, MultiplierAt, IntendedDirection, Sign, Additive, Factors
<1>2. CASE e.kind = "ramp"
  <2>1. e.to - 4 \in Int /\ e.over \in Int /\ e.to \in Nat
    BY <1>2 DEF IsEffect
  <2>2. MultiplierAt(e, t) = 4 + Along(t, e.over, e.to - 4)
    BY <1>2 DEF MultiplierAt, Additive
  <2>3. IntendedDirection(e) = Sign(e.to - 4)
    BY <1>2 DEF IntendedDirection, Additive
  <2>4. PICK x \in Int : x = Along(t, e.over, e.to - 4)
    BY <2>1, AlongWithin
  <2>5. /\ e.to - 4 >= 0 => x >= 0 /\ x <= e.to - 4
        /\ e.to - 4 <= 0 => x >= e.to - 4 /\ x <= 0
    BY <2>1, <2>4, AlongWithin
  <2> QED
    BY <1>2, <2>1, <2>2, <2>3, <2>4, <2>5 DEF Sign
<1>3. CASE e.kind = "drift"
  <2>1. MultiplierAt(e, t) = IF e.to < 0 THEN (IF t = 0 THEN 4 ELSE 0) ELSE 4 * Times([k \in 1..t |-> 2])
    BY <1>3 DEF MultiplierAt, Additive
  <2>2. PICK x \in Nat : x = Times([k \in 1..t |-> 2]) /\ x >= 1
    <3> DEFINE f == [k \in 1..t |-> 2]
    <3>1. f \in Seq(Int) /\ Len(f) = t
      OBVIOUS
    <3>2. ASSUME NEW x \in Nat \ {0}, NEW i \in 1..Len(f) PROVE x * f[i] \in Nat \ {0}
      BY <3>1
    <3> HIDE DEF f
    <3>3. Times(f) \in Nat \ {0}
      <4> DEFINE T == Nat \ {0}
      <4>1. 1 \in T
        OBVIOUS
      <4>2. \A x \in T, i \in 1..Len(f) : x * f[i] \in T
        BY <3>2
      <4> HIDE DEF T
      <4>3. Times(f) \in T
        BY <3>1, <4>1, <4>2, TimesIn
      <4> QED
        BY <4>3 DEF T
    <3> QED
      BY <3>3 DEF f
  <2>3. IntendedDirection(e) = Sign(e.to) /\ e.to \in Int
    BY <1>3 DEF IntendedDirection, Additive, IsEffect
  <2> QED
    BY <1>3, <2>1, <2>2, <2>3 DEF Sign, Factors
<1>4. CASE e.kind = "oscillate"
  <2>1. MultiplierAt(e, t) = 4 + e.to * Sine(t % e.over)
    BY <1>4 DEF MultiplierAt, Additive
  <2>2. Sine(t % e.over) \in {-1, 0, 1}
    BY DEF Sine
  <2>3. e.to \in Int /\ IntendedDirection(e) = 0
    BY <1>4 DEF IsEffect, IntendedDirection, Additive
  <2>4. PICK x \in {-1, 0, 1} : x = Sine(t % e.over)
    BY <2>2
  <2>5. e.to * x \in Int
    BY <2>3
  <2> QED
    BY <1>4, <2>1, <2>3, <2>4, <2>5
<1>5. CASE e.kind = "recover"
  <2>1. MultiplierAt(e, t) = 2 - Along(t, e.over, 2)
    BY <1>5 DEF MultiplierAt, Additive
  <2>2. e.over \in Int
    BY DEF IsEffect
  <2>3. Along(t, e.over, 2) \in Int /\ Along(t, e.over, 2) >= 0 /\ Along(t, e.over, 2) <= 2
    BY <2>2, AlongWithin
  <2> QED
    BY <1>5, <2>1, <2>3 DEF Factors
<1>6. CASE e.kind \in Additive
  BY <1>6 DEF Additive, Factors
<1> QED
  BY <1>1, <1>2, <1>3, <1>4, <1>5, <1>6 DEF IsEffect, Factors

\* What is added has the sign that the lint takes from its effect.
LEMMA AdditiveFacts ==
    ASSUME NEW e, IsEffect(e), NEW t \in Nat, e.kind \in Additive
    PROVE  /\ AdditiveAt(e, t) \in Int
           /\ IntendedDirection(e) = 1 => AdditiveAt(e, t) >= 0
           /\ IntendedDirection(e) = -1 => AdditiveAt(e, t) <= 0
<1>1. IntendedDirection(e) = Sign(e.to) /\ e.to \in Int /\ e.over \in Int
  BY DEF IntendedDirection, IsEffect, Additive
<1>2. CASE e.kind = "add"
  BY <1>1, <1>2 DEF AdditiveAt, Sign
<1>3. CASE e.kind = "add_ramp"
  <2>1. AdditiveAt(e, t) = Along(t, e.over, e.to)
    BY <1>3 DEF AdditiveAt
  <2>2. PICK x \in Int : x = Along(t, e.over, e.to)
    BY <1>1, AlongWithin
  <2>3. /\ e.to >= 0 => x >= 0
        /\ e.to <= 0 => x <= 0
    BY <1>1, <2>2, AlongWithin
  <2> QED
    BY <1>1, <2>1, <2>2, <2>3 DEF Sign
<1> QED
  BY <1>2, <1>3 DEF Additive

-----------------------------------------------------------------------------
(* The inductive invariant. *)

\* What is reached: a case, the hashes drawn for it, and what is active: scenarios of its
\* library, each at most once, that started and were resolved at times that have been.
Tracked ==
    /\ case \in Cases /\ mix \in [Slots -> Hashes] /\ now \in Nat
    /\ \A sc \in Range(case.library) : sc.timeline # <<>>
    /\ active \subseteq [sc : Range(case.library), started : Nat, since : Int]
    /\ \A a \in active : a.started <= now /\ a.since <= now
    /\ \A a, b \in active : a.sc = b.sc => a = b

\* The inductive invariant of the four theorems below: every active entry is a scenario of the
\* library, there once, with times that are not in the future.
THEOREM TrackedHolds == Spec => []Tracked
<1>1. Init => Tracked
  BY DEF Init, Tracked, Valid
<1>2. Tracked /\ [Next]_vars => Tracked'
  <2> SUFFICES ASSUME Tracked, [Next]_vars PROVE Tracked'
    OBVIOUS
  <2> USE DEF Tracked
  <2>0. case' = case /\ mix' = mix
    BY DEF Next, vars, Tick, Prune, Over, Trigger, Resolve
  <2>1. case' \in Cases /\ (\A sc \in Range(case.library) : sc.timeline # <<>>)'
    BY <2>0
  <2>2. (mix \in [Slots -> Hashes])'
    BY <2>0 DEF Slots, Hashes
  <2> DEFINE Entry == [sc : Range(case.library), started : Nat, since : Int]
             Three == /\ now' \in Nat
                      /\ active' \subseteq Entry
                      /\ \A a \in active' : a.started <= now' /\ a.since <= now'
                      /\ \A a, b \in active' : a.sc = b.sc => a = b
  <2>3. Three
    <3>1. CASE Tick
      <4>1. now' = now + 1 /\ active' = active
        BY <3>1 DEF Tick
      <4>2. ASSUME NEW a \in active PROVE a.started <= now + 1 /\ a.since <= now + 1
        <5>1. a.started \in Nat /\ a.since \in Int
          OBVIOUS
        <5> QED
          BY <5>1
      <4> QED
        BY <4>1, <4>2
    <3>2. CASE Prune
      <4>1. now' = now /\ active' \subseteq active
        BY <3>2 DEF Prune
      <4> QED
        BY <4>1
    <3>3. CASE Over \/ UNCHANGED vars
      BY <3>3 DEF Over, vars
    <3>4. ASSUME NEW sc \in Range(case.library), Trigger(sc) PROVE Three
      <4> DEFINE new == [sc |-> sc, started |-> now, since |-> -1]
      <4>1. now' = now /\ active' = active \cup {new} /\ \A a \in active : a.sc # sc
        BY <3>4 DEF Trigger
      <4>2. new \in Entry /\ new.started <= now /\ new.since <= now /\ new.sc = sc
        OBVIOUS
      <4> HIDE DEF new
      <4> QED
        BY <4>1, <4>2
    <3>5. ASSUME NEW a \in active, Resolve(a) PROVE Three
      <4> DEFINE new == [a EXCEPT !.since = now]
      <4>1. now' = now /\ active' = (active \ {a}) \cup {new}
        BY <3>5 DEF Resolve
      <4>2. new \in Entry /\ new.started <= now /\ new.since <= now /\ new.sc = a.sc
        OBVIOUS
      <4> HIDE DEF new
      <4>3. \A b \in active' : b.started <= now /\ b.since <= now
        BY <4>1, <4>2
      <4>4. ASSUME NEW b \in active', NEW c \in active', b.sc = c.sc PROVE b = c
        BY <4>1, <4>2, <4>4
      <4> QED
        BY <4>1, <4>2, <4>3, <4>4
    <3> QED
      BY <3>1, <3>2, <3>3, <3>4, <3>5 DEF Next
  <2> QED
    BY <2>0, <2>1, <2>2, <2>3
<1> QED
  BY <1>1, <1>2, PTL DEF Spec

-----------------------------------------------------------------------------
(* Where a step hits. *)

\* A list has a length, and its places are the numbers up to it.
LEMMA Lists == ASSUME NEW s, IsList(s) PROVE s \in Seq(Range(s)) /\ Len(s) \in Nat /\ DOMAIN s = 1..Len(s)
BY DEF IsList

\* The nodes are the places of the fleet.
LEMMA TheFleet ==
    ASSUME case \in Cases
    PROVE  Len(case.fleet) \in Nat /\ Nodes = 1..Len(case.fleet) /\ \A n \in Nodes : NoEquals \notin case.fleet[n].labels
BY Lists, FleetsAndScenarios DEF Nodes

\* The library's scenarios, and their steps.
LEMMA TheLibrary ==
    ASSUME case \in Cases
    PROVE  /\ Len(case.library) \in Nat /\ DOMAIN case.library = 1..Len(case.library) /\ IsInjective(case.library)
           /\ \A sc \in Range(case.library) : /\ Len(sc.timeline) \in Nat /\ DOMAIN sc.timeline = 1..Len(sc.timeline)
                                              /\ \A i \in DOMAIN sc.timeline : IsStep(sc.timeline[i])
<1>1. Len(case.library) \in Nat /\ DOMAIN case.library = 1..Len(case.library) /\ IsInjective(case.library)
  BY Lists, FleetsAndScenarios
<1>2. ASSUME NEW sc \in Range(case.library)
      PROVE  IsList(sc.timeline) /\ \A i \in DOMAIN sc.timeline : IsStep(sc.timeline[i])
  <2>1. PICK k \in DOMAIN case.library : sc = case.library[k]
    BY DEF Range
  <2> QED
    BY <2>1, FleetsAndScenarios
<1> QED
  BY <1>1, <1>2, Lists

\* A node's rank is not above the number of nodes that a step for its role could mean.
LEMMA RankFits ==
    ASSUME case \in Cases, NEW n \in Nodes, NEW role \in {Any, RoleOf(n)}
    PROVE  Rank(n) \in Nat /\ Cardinality(Sharing(role)) \in Nat /\ Rank(n) <= Cardinality(Sharing(role))
<1> DEFINE R == {m \in 1..n : RoleOf(m) = RoleOf(n)}
<1>1. Nodes = 1..Len(case.fleet) /\ Len(case.fleet) \in Nat
  BY TheFleet
<1>2. R \subseteq Sharing(role) /\ Sharing(role) \subseteq 1..Len(case.fleet)
  BY <1>1 DEF Sharing
<1>3. IsFiniteSet(1..Len(case.fleet))
  BY <1>1, FS_Interval
<1>4. IsFiniteSet(Sharing(role)) 
  BY <1>2, <1>3, FS_Subset
<1>5. IsFiniteSet(R) /\ Cardinality(R) <= Cardinality(Sharing(role))
  BY <1>2, <1>4, FS_Subset
<1>6. Cardinality(R) \in Nat /\ Cardinality(Sharing(role)) \in Nat
  BY <1>4, <1>5, FS_CardinalityType
<1> QED
  BY <1>5, <1>6 DEF Rank

\* The lint of the application numbers a node as the plugin does: nodes of one role are all of
\* the application or none is.
LEMMA RanksAgree ==
    ASSUME case \in Cases, NEW n \in AppNodes
    PROVE  AppRank(n) = Rank(n)
<1>1. Nodes = 1..Len(case.fleet) /\ Len(case.fleet) \in Nat
  BY TheFleet
<1>2. {m \in AppNodes : m <= n /\ RoleOf(m) = RoleOf(n)} = {m \in 1..n : RoleOf(m) = RoleOf(n)}
  BY <1>1 DEF AppNodes
<1> QED
  BY <1>2 DEF AppRank, Rank

\* What matches at a node is fit, unless it is by the plugin's own label.
LEMMA MatchedApplies ==
    ASSUME case \in Cases, NEW n \in Nodes, NEW sc, NEW t, t.inst # NoInst, t.index \in Nat, t.label # Simulated,
           Matches(t, n, Rank(n), NoInst, t.signal)
    PROVE  StepFit(sc, t) = "applies"
<1>1. t.role \in Roles \cup {Any} /\ t.role \in {Any, RoleOf(n)}
  BY DEF Matches, Roles
<1>2. ~TooFew(t)
  <2>1. Rank(n) \in Nat /\ Cardinality(Sharing(t.role)) \in Nat /\ Rank(n) <= Cardinality(Sharing(t.role))
    BY <1>1, RankFits
  <2>2. t.index = 0 \/ t.index = Rank(n)
    BY DEF Matches
  <2> QED
    BY <2>1, <2>2 DEF TooFew
<1>3. t.label = Any \/ t.label \in case.fleet[n].labels
  BY DEF Matches, ProfileLabels
<1>4. t.label # NoEquals
  BY <1>3, TheFleet DEF NoEquals, Any
<1>5. t.inst = Any
  BY DEF Matches
<1> QED
  BY <1>1, <1>2, <1>3, <1>4, <1>5 DEF StepFit

\* What is not fit matches nowhere, unless it is by the plugin's own label.
LEMMA SkippedMissesHere ==
    ASSUME case \in Cases, NEW sc, NEW t, t.inst # NoInst, t.index \in Nat, t.label # Simulated,
           StepFit(sc, t) = "skip"
    PROVE  ~Fires(t)
<1> SUFFICES ASSUME Fires(t) PROVE FALSE
  OBVIOUS
<1>0. PICK p \in Places : Matches(t, p[1], Rank(p[1]), p[2], t.signal)
  BY DEF Fires
<1>a. PICK n \in Nodes : p \in {n} \X (Instances(n) \cup {NoInst})
  BY DEF Places
<1>1. PICK inst \in Instances(n) \cup {NoInst} : Matches(t, n, Rank(n), inst, t.signal)
  BY <1>0, <1>a
<1>2. t.role \in Roles \cup {Any} /\ t.role \in {Any, RoleOf(n)}
  BY <1>1 DEF Matches, Roles
<1>3. ~TooFew(t)
  <2>1. Rank(n) \in Nat /\ Cardinality(Sharing(t.role)) \in Nat /\ Rank(n) <= Cardinality(Sharing(t.role))
    BY <1>2, RankFits
  <2>2. t.index = 0 \/ t.index = Rank(n)
    BY <1>1 DEF Matches
  <2> QED
    BY <2>1, <2>2 DEF TooFew
<1>4. t.label = Any \/ t.label \in case.fleet[n].labels
  BY <1>1 DEF Matches, ProfileLabels
<1>5. t.inst = Any \/ t.inst \in Instances(n)
  BY <1>1 DEF Matches
<1>6. n \in Sharing(t.role)
  BY <1>2 DEF Sharing
<1> QED
  BY <1>2, <1>3, <1>4, <1>5, <1>6 DEF StepFit

\* The lint's skips are right: what it leaves out would have touched no node.
LEMMA SkipsHold == ASSUME Tracked PROVE SkipsRight
<1> SUFFICES ASSUME NEW sc \in Range(case.library), NEW i \in DOMAIN sc.timeline,
                    Verdict(sc, i) = "skip", sc.timeline[i].target.label # Simulated
             PROVE  ~Fires(sc.timeline[i].target)
  BY DEF SkipsRight
<1> DEFINE t == sc.timeline[i].target
<1>1. case \in Cases /\ t.inst # NoInst /\ t.index \in Nat
  BY TheLibrary DEF Tracked, IsStep
<1>2. CASE StepFit(sc, t) # "applies"
  <2>1. StepFit(sc, t) = "skip"
    BY <1>2 DEF Verdict
  <2> HIDE DEF t
  <2>2. ~Fires(t)
    BY <1>1, <2>1, SkippedMissesHere DEF t
  <2> QED
    BY <2>2 DEF t
<1>3. CASE StepFit(sc, t) = "applies"
  <2>1. Unknown(t)
    BY <1>3 DEF Verdict
  <2> QED
    BY <2>1 DEF Unknown, Fires, Places
<1> QED
  BY <1>2, <1>3

-----------------------------------------------------------------------------
(* One scenario's part, and its recovery. *)

\* The steps of what is active.
LEMMA StepFacts ==
    ASSUME Tracked, NEW a \in active, NEW i \in DOMAIN a.sc.timeline
    PROVE  IsStep(a.sc.timeline[i]) /\ IsEffect(a.sc.timeline[i].effect) /\ Had(a, i) \in Int
<1>1. case \in Cases /\ a.sc \in Range(case.library) /\ a.started \in Nat /\ now \in Nat
  BY DEF Tracked
<1>2. IsStep(a.sc.timeline[i])
  BY <1>1, TheLibrary
<1> QED
  BY <1>1, <1>2 DEF IsStep, Had

\* What a step multiplies by and adds are integers, and what it leaves is a number of halves.
LEMMA PartFacts ==
    ASSUME Tracked, NEW a \in active, NEW i \in DOMAIN a.sc.timeline, NEW n, NEW inst, NEW signal
    PROVE  /\ Factor(a, i, n, inst, signal) \in Int
           /\ Added(a, i, n, inst, signal) \in Int
           /\ Recovered(a, i, n, inst, signal) \in 0..2
<1> DEFINE e == a.sc.timeline[i].effect
<1>1. IsEffect(e) /\ Had(a, i) \in Int
  BY StepFacts
<1>2. Factor(a, i, n, inst, signal) \in Int
  <2>1. CASE e.kind \in Factors /\ Hits(a, i, n, inst, signal)
    <3>1. Had(a, i) \in Nat
      BY <1>1, <2>1 DEF Hits
    <3>2. MultiplierAt(e, Had(a, i)) \in Int
      BY <1>1, <2>1, <3>1, MultiplierFacts
    <3> QED
      BY <2>1, <3>2 DEF Factor
  <2> QED
    BY <2>1 DEF Factor, Quarters
<1>3. Added(a, i, n, inst, signal) \in Int
  <2>1. CASE e.kind \in Additive /\ Hits(a, i, n, inst, signal)
    <3>1. Had(a, i) \in Nat
      BY <1>1, <2>1 DEF Hits
    <3>2. AdditiveAt(e, Had(a, i)) \in Int
      BY <1>1, <2>1, <3>1, AdditiveFacts
    <3> QED
      BY <2>1, <3>2 DEF Added
  <2> QED
    BY <2>1 DEF Added
<1>4. Recovered(a, i, n, inst, signal) \in 0..2
  <2>1. CASE e.kind = "recover" /\ Hits(a, i, n, inst, signal)
    <3>1. Had(a, i) \in Nat
      BY <1>1, <2>1 DEF Hits
    <3>2. MultiplierAt(e, Had(a, i)) \in 0..2
      BY <1>1, <2>1, <3>1, MultiplierFacts
    <3> QED
      BY <2>1, <3>2 DEF Recovered
  <2> QED
    BY <2>1 DEF Recovered
<1> QED
  BY <1>2, <1>3, <1>4

\* What is active has a timeline of the library.
LEMMA ActiveSc ==
    ASSUME Tracked, NEW a \in active
    PROVE  /\ case \in Cases /\ a.sc \in Range(case.library)
           /\ Len(a.sc.timeline) \in Nat /\ DOMAIN a.sc.timeline = 1..Len(a.sc.timeline)
BY TheLibrary DEF Tracked

\* A function of the numbers up to k is a list of length k.
LEMMA Listed ==
    ASSUME NEW k \in Nat, NEW S, NEW f, f = [i \in 1..k |-> f[i]], \A i \in 1..k : f[i] \in S
    PROVE  f \in Seq(S) /\ Len(f) = k
<1>1. f \in [1..k -> S]
  OBVIOUS
<1> QED
  BY <1>1

\* The multiplier and the addition of a scenario are integers.
LEMMA FaultInt ==
    ASSUME Tracked, NEW a \in active, NEW n, NEW inst, NEW signal
    PROVE  Fault(a, n, inst, signal) \in Int /\ Addition(a, n, inst, signal) \in Int
<1> DEFINE f == [i \in DOMAIN a.sc.timeline |-> Factor(a, i, n, inst, signal)]
           g == [i \in DOMAIN a.sc.timeline |-> Added(a, i, n, inst, signal)]
<1>1. f \in Seq(Int) /\ g \in Seq(Int)
  <2>1. PICK k \in Nat : DOMAIN a.sc.timeline = 1..k
    BY ActiveSc
  <2>2. ASSUME NEW i \in 1..k PROVE f[i] \in Int /\ g[i] \in Int
    BY <2>1, PartFacts
  <2>3. DOMAIN f = 1..k /\ DOMAIN g = 1..k /\ f = [i \in 1..k |-> f[i]] /\ g = [i \in 1..k |-> g[i]]
    BY <2>1
  <2> HIDE DEF f, g
  <2> QED
    BY <2>2, <2>3, Listed
<1>2. Fault(a, n, inst, signal) = Times(f) /\ Addition(a, n, inst, signal) = Plus(g)
  BY DEF Fault, Addition
<1> HIDE DEF f, g
<1> QED
  BY <1>1, <1>2, TimesInt, PlusSign

\* The scale of a scenario is a natural number.
LEMMA WholeNat ==
    ASSUME case \in Cases, NEW sc \in Range(case.library)
    PROVE  Whole(sc) \in Nat
<1> DEFINE f == [i \in DOMAIN sc.timeline |-> Quarters]
<1>1. f \in Seq(Nat)
  BY TheLibrary DEF Quarters
<1>2. Whole(sc) = Times(f)
  BY DEF Whole
<1> HIDE DEF f
<1> QED
  BY <1>1, <1>2, TimesGrow

\* The strength is all, half or none of eight eighths, and none once the recovery window is
\* over.
LEMMA StrengthFacts ==
    ASSUME Tracked, NEW a \in active
    PROVE  Strength(a) \in {0, 4, 8} /\ (a.since >= 0 /\ now - a.since >= Recovery => Strength(a) = 0)
<1>1. now \in Nat /\ a.since \in Int /\ a.since <= now
  BY DEF Tracked
<1>2. CASE a.since < 0
  BY <1>1, <1>2 DEF Strength
<1>3. CASE a.since >= 0
  <2>1. Capped(now - a.since, Recovery) \in {0, 1, 2} /\ (now - a.since >= Recovery => Capped(now - a.since, Recovery) = 2)
    BY <1>1 DEF Capped, Recovery
  <2>2. Unwinding(0) = 8 /\ Unwinding(1) = 4 /\ Unwinding(2) = 0
    BY DEF Unwinding, Recovery
  <2>3. Strength(a) = Unwinding(Capped(now - a.since, Recovery))
    BY <1>1, <1>3 DEF Strength
  <2> QED
    BY <2>1, <2>2, <2>3
<1> QED
  BY <1>1, <1>2, <1>3

\* What is left of a fault is never negative, and is nothing without strength.
LEMMA LeftFacts ==
    ASSUME Tracked, NEW a \in active, NEW n, NEW inst, NEW signal
    PROVE  Left(a, n, inst, signal) \in Nat /\ (Strength(a) = 0 => Left(a, n, inst, signal) = 0)
<1> DEFINE S == {2} \cup {Recovered(a, i, n, inst, signal) : i \in DOMAIN a.sc.timeline}
<1>1. S \subseteq Nat /\ S # {}
  BY PartFacts
<1>2. Left(a, n, inst, signal) = Min(S) * Strength(a)
  BY DEF Left
<1> HIDE DEF S
<1>3. \E x \in S : \A y \in S : x <= y
  BY <1>1, NatLeast
<1>4. Min(S) \in S
  BY <1>3 DEF Min
<1>a. Strength(a) \in {0, 4, 8}
  BY StrengthFacts
<1>b. Strength(a) \in Nat
  BY <1>a
<1>c. Min(S) \in Nat
  BY <1>1, <1>4
<1>5. Min(S) \in Nat /\ Strength(a) \in Nat
  BY <1>b, <1>c
<1>6. Min(S) * Strength(a) \in Nat /\ (Strength(a) = 0 => Min(S) * Strength(a) = 0)
  BY <1>5
<1> QED
  BY <1>2, <1>6

-----------------------------------------------------------------------------
(* What is dropped. *)

\* A scenario of which nothing is left is one neutral factor, and adds nothing.
LEMMA Unmoved ==
    ASSUME Tracked, NEW a \in active, NEW n, NEW inst, NEW signal, Left(a, n, inst, signal) = 0
    PROVE  Part(a, n, inst, signal) = [mult |-> 16 * Whole(a.sc), scale |-> 16 * Whole(a.sc), add |-> 0]
<1>1. Fault(a, n, inst, signal) \in Int /\ Addition(a, n, inst, signal) \in Int /\ Whole(a.sc) \in Nat
  BY FaultInt, WholeNat, ActiveSc
<1>2. \A x \in Int : x * 0 = 0
  OBVIOUS
<1>3. (Fault(a, n, inst, signal) - Whole(a.sc)) * 0 = 0 /\ Addition(a, n, inst, signal) * 0 = 0
  BY <1>1, <1>2
<1>4. 16 * Whole(a.sc) + 0 = 16 * Whole(a.sc)
  BY <1>1
<1> QED
  BY <1>3, <1>4 DEF Part

\* What is in a set of active scenarios of which one is dropped.
LEMMA Dropped ==
    ASSUME Tracked, Prune, NEW p, NEW q, NEW s, NEW sc \in Range(case.library)
    PROVE  PartOf(active', sc, p, q, s) = PartOf(active, sc, p, q, s)
<1>0. active' = {a \in active : a.since < 0 \/ now - a.since < Recovery}
  BY DEF Prune
<1>1. CASE ~\E a \in active : a.sc = sc
  BY <1>0, <1>1 DEF PartOf
<1>2. ASSUME NEW a \in active, a.sc = sc PROVE PartOf(active', sc, p, q, s) = PartOf(active, sc, p, q, s)
  <2>1. \A b \in active : b.sc = sc => b = a
    BY <1>2 DEF Tracked
  <2>2. PartOf(active, sc, p, q, s) = Part(a, p, q, s)
    <3>1. (CHOOSE b \in active : b.sc = sc) = a
      BY <1>2, <2>1
    <3> QED
      BY <1>2, <3>1 DEF PartOf
  <2>3. CASE a \in active'
    <3>1. (CHOOSE b \in active' : b.sc = sc) = a
      BY <1>0, <1>2, <2>1, <2>3
    <3> QED
      BY <1>2, <2>2, <2>3, <3>1 DEF PartOf
  <2>4. CASE a \notin active'
    <3>1. a.since \in Int /\ now \in Nat
      BY DEF Tracked
    <3>2. a.since >= 0 /\ now - a.since >= Recovery
      BY <1>0, <2>4, <3>1 DEF Recovery
    <3>3. Left(a, p, q, s) = 0
      BY <3>2, StrengthFacts, LeftFacts
    <3>4. Part(a, p, q, s) = [mult |-> 16 * Whole(sc), scale |-> 16 * Whole(sc), add |-> 0]
      BY <1>2, <3>3, Unmoved
    <3>5. ~\E b \in active' : b.sc = sc
      BY <1>0, <2>1, <2>4
    <3> QED
      BY <2>2, <3>4, <3>5 DEF PartOf
  <2> QED
    BY <2>3, <2>4
<1> QED
  BY <1>1, <1>2

\* Only the save that prunes drops a scenario for good, and it moves no signal.
LEMMA UnwoundStep ==
    ASSUME Tracked, [Next]_vars, NEW a \in active \ active', \A b \in active' : b.sc # a.sc,
           NEW p \in Places, NEW s \in OnDisk
    PROVE  Same(Perturbation(active, p[1], p[2], s), Perturbation(active', p[1], p[2], s))
<1>1. Prune
  <2>1. ~(UNCHANGED vars \/ Tick \/ Over)
    BY DEF vars, Tick, Over
  <2>2. ASSUME NEW sc \in Range(case.library), Trigger(sc) PROVE FALSE
    BY <2>2 DEF Trigger
  <2>3. ASSUME NEW b \in active, Resolve(b) PROVE FALSE
    <3>1. active' = (active \ {b}) \cup {[b EXCEPT !.since = now]}
      BY <2>3 DEF Resolve
    <3>2. a = b /\ [b EXCEPT !.since = now].sc = b.sc
      BY <3>1 DEF Tracked
    <3> QED
      BY <3>1, <3>2
  <2> QED
    BY <2>1, <2>2, <2>3 DEF Next
<1>2. \A k \in DOMAIN case.library : PartOf(active', case.library[k], p[1], p[2], s) = PartOf(active, case.library[k], p[1], p[2], s)
  BY <1>1, Dropped DEF Range
<1>3. Perturbation(active', p[1], p[2], s) = Perturbation(active, p[1], p[2], s)
  BY <1>2 DEF Perturbation
<1> QED
  BY <1>3 DEF Same

\* A resolved scenario whose recovery window is over can be dropped from the control file
\* without moving any signal, whatever its timeline does and whatever else is active
\* (ScenarioSet::perturbation, ControlFile::prune_recovered).
THEOREM UnwoundHolds == Spec => Unwound
<1>1. Tracked /\ [Next]_vars => \A a \in active \ active' : (\A b \in active' : b.sc # a.sc) =>
            \A p \in Places, s \in OnDisk :
                Same(Perturbation(active, p[1], p[2], s), Perturbation(active', p[1], p[2], s))
  BY UnwoundStep
<1> QED
  BY <1>1, TrackedHolds, PTL DEF Spec, Unwound

-----------------------------------------------------------------------------
(* After its length. *)

\* Integers in a finite list have a greatest.
LEMMA Greatest ==
    ASSUME NEW k \in Nat \ {0}, NEW f \in [1..k -> Int]
    PROVE  \E x \in 1..k : \A y \in 1..k : f[y] <= f[x]
<1> DEFINE S == {n \in 0..k - 1 : \E x \in 1..n + 1 : \A y \in 1..n + 1 : f[y] <= f[x]}
<1>0. k - 1 \in Nat
  OBVIOUS
<1>1. 0 \in S
  <2>1. 1 \in 1..0 + 1 /\ 0 \in 0..k - 1 /\ f[1] \in Int
    OBVIOUS
  <2>2. \A y \in 1..0 + 1 : f[y] <= f[1]
    BY <2>1
  <2> QED
    BY <2>1, <2>2
<1>2. ASSUME NEW n \in 0..k - 1, n \in S, n # k - 1 PROVE n + 1 \in S
  <2>1. PICK x \in 1..n + 1 : \A y \in 1..n + 1 : f[y] <= f[x]
    BY <1>2
  <2>2. n + 2 \in 1..k /\ (n + 1) + 1 = n + 2 /\ n + 1 \in 0..k - 1 /\ x \in 1..k
    BY <1>2
  <2>3. f[x] \in Int /\ f[n + 2] \in Int /\ \A y \in 1..n + 1 : f[y] \in Int
    BY <2>2
  <2>4. \A y \in 1..n + 2 : y = n + 2 \/ y \in 1..n + 1
    OBVIOUS
  <2>5. CASE f[n + 2] <= f[x]
    <3>1. \A y \in 1..n + 2 : f[y] <= f[x]
      BY <2>1, <2>4, <2>5
    <3> QED
      BY <2>2, <3>1
  <2>6. CASE ~(f[n + 2] <= f[x])
    <3>1. \A y \in 1..n + 2 : f[y] <= f[n + 2]
      BY <2>1, <2>3, <2>4, <2>6
    <3>2. n + 2 \in 1..n + 2
      OBVIOUS
    <3> QED
      BY <2>2, <3>1, <3>2
  <2> QED
    BY <2>5, <2>6
<1>3. k - 1 \in S
  <2> HIDE DEF S
  <2>1. 0..k - 1 \subseteq S
    BY <1>0, <1>1, <1>2, Inductively
  <2> QED
    BY <2>1, <1>0
<1>4. (k - 1) + 1 = k
  OBVIOUS
<1> QED
  BY <1>3, <1>4

\* Scenario::duration is not before the end of any step.
LEMMA DurationCovers ==
    ASSUME case \in Cases, NEW sc \in Range(case.library), sc.timeline # <<>>, NEW i \in DOMAIN sc.timeline
    PROVE  Duration(sc) \in Int /\ sc.timeline[i].at + Settle(sc.timeline[i].effect) <= Duration(sc)
<1> DEFINE End(j) == sc.timeline[j].at + Settle(sc.timeline[j].effect)
           S == {End(j) : j \in DOMAIN sc.timeline}
<1>1. PICK k \in Nat \ {0} : DOMAIN sc.timeline = 1..k
  BY TheLibrary
<1>2. ASSUME NEW j \in 1..k PROVE End(j) \in Int
  <2>1. IsStep(sc.timeline[j])
    BY <1>1, TheLibrary
  <2> QED
    BY <2>1 DEF IsStep, IsEffect, Settle
<1>3. PICK x \in 1..k : \A y \in 1..k : End(y) <= End(x)
  <2> DEFINE f == [j \in 1..k |-> End(j)]
  <2>1. f \in [1..k -> Int]
    BY <1>2
  <2>2. \A j \in 1..k : f[j] = End(j)
    OBVIOUS
  <2> HIDE DEF f, End
  <2>3. \E x \in 1..k : \A y \in 1..k : f[y] <= f[x]
    BY <2>1, Greatest
  <2> QED
    BY <2>2, <2>3
<1>4. \E e \in S : \A d \in S : e >= d
  BY <1>1, <1>2, <1>3
<1>5. Max(S) \in S /\ \A d \in S : Max(S) >= d
  <2> HIDE DEF S
  <2> QED
    BY <1>4 DEF Max
<1>6. Duration(sc) = Max(S) /\ End(i) \in S
  BY DEF Duration
<1>7. S \subseteq Int
  BY <1>1, <1>2
<1> QED
  <2> HIDE DEF S
  <2>1. Max(S) \in Int /\ End(i) \in Int /\ End(i) <= Max(S)
    BY <1>5, <1>6, <1>7
  <2> QED
    BY <2>1, <1>6

\* The effects of these kinds are still while nothing is beyond their spans.
LEMMA StillEffect ==
    ASSUME NEW e, IsEffect(e), e.kind \notin {"drift", "oscillate"}, NEW t \in Int, t > Settle(e)
    PROVE  /\ t >= 0 => MultiplierAt(e, t + 1) = MultiplierAt(e, t) /\ AdditiveAt(e, t + 1) = AdditiveAt(e, t)
           /\ ~(t >= 0) /\ t + 1 >= 0 =>
                       /\ e.kind = "ramp" => MultiplierAt(e, t + 1) = Quarters
                       /\ e.kind = "recover" => MultiplierAt(e, t + 1) = 2
                       /\ e.kind = "add_ramp" => AdditiveAt(e, t + 1) = 0
                       /\ e.kind \in {"ramp", "recover", "add_ramp"}
<1>1. e.to \in Int /\ e.over \in Int /\ e.to - 4 \in Int
  BY DEF IsEffect
<1>2. CASE e.kind \in {"step", "add"}
  BY <1>2, <1>1 DEF Settle, MultiplierAt, AdditiveAt, Additive
<1>3. CASE e.kind \in {"ramp", "recover", "add_ramp"}
  <2>1. Settle(e) = e.over
    BY <1>3 DEF Settle
  <2>2. ASSUME NEW by \in Int, t + 1 >= 0
        PROVE  /\ Along(t + 1, e.over, by) = IF e.over < 0 THEN 0 ELSE by
               /\ t >= 0 => Along(t, e.over, by) = IF e.over < 0 THEN 0 ELSE by
    <3>1. t + 1 \in Nat /\ (t >= 0 => t \in Nat) /\ t + 1 > e.over /\ t > e.over
      BY <2>1, <2>2, <1>1
    <3>2. Along(t + 1, e.over, by) = IF e.over < 0 THEN 0 ELSE by
      BY <3>1, <1>1, AlongOver
    <3>3. t >= 0 => Along(t, e.over, by) = IF e.over < 0 THEN 0 ELSE by
      BY <3>1, <1>1, AlongOver
    <3> QED
      BY <3>2, <3>3
  <2>3. t < 0 => e.over < 0 
    BY <2>1, <1>1
  <2>4. CASE t + 1 < 0
    BY <2>4
  <2>5. CASE t + 1 >= 0 
    <3>1. CASE e.kind = "ramp"
      <4>1. MultiplierAt(e, t + 1) = 4 + Along(t + 1, e.over, e.to - 4)
        BY <3>1, <2>5 DEF MultiplierAt, Additive, Quarters
      <4>2. t >= 0 => MultiplierAt(e, t) = 4 + Along(t, e.over, e.to - 4)
        BY <3>1 DEF MultiplierAt, Additive, Quarters
      <4>3. AdditiveAt(e, t + 1) = 0 /\ AdditiveAt(e, t) = 0
        BY <3>1 DEF AdditiveAt
      <4>4. /\ Along(t + 1, e.over, e.to - 4) = IF e.over < 0 THEN 0 ELSE e.to - 4
            /\ t >= 0 => Along(t, e.over, e.to - 4) = IF e.over < 0 THEN 0 ELSE e.to - 4
        BY <2>2, <2>5, <1>1
      <4> QED
        BY <3>1, <4>1, <4>2, <4>3, <4>4, <2>3 DEF Quarters
    <3>2. CASE e.kind = "recover"
      <4>1. MultiplierAt(e, t + 1) = 2 - Along(t + 1, e.over, 2)
        BY <3>2, <2>5 DEF MultiplierAt, Additive
      <4>2. t >= 0 => MultiplierAt(e, t) = 2 - Along(t, e.over, 2)
        BY <3>2 DEF MultiplierAt, Additive
      <4>3. AdditiveAt(e, t + 1) = 0 /\ AdditiveAt(e, t) = 0
        BY <3>2 DEF AdditiveAt
      <4>4. /\ Along(t + 1, e.over, 2) = IF e.over < 0 THEN 0 ELSE 2
            /\ t >= 0 => Along(t, e.over, 2) = IF e.over < 0 THEN 0 ELSE 2
        BY <2>2, <2>5
      <4> QED
        BY <3>2, <4>1, <4>2, <4>3, <4>4, <2>3
    <3>3. CASE e.kind = "add_ramp"
      <4>1. AdditiveAt(e, t + 1) = Along(t + 1, e.over, e.to)
        BY <3>3, <2>5 DEF AdditiveAt
      <4>2. t >= 0 => AdditiveAt(e, t) = Along(t, e.over, e.to)
        BY <3>3 DEF AdditiveAt
      <4>3. MultiplierAt(e, t + 1) = 4 /\ MultiplierAt(e, t) = 4
        BY <3>3 DEF MultiplierAt, Additive, Quarters
      <4>4. /\ Along(t + 1, e.over, e.to) = IF e.over < 0 THEN 0 ELSE e.to
            /\ t >= 0 => Along(t, e.over, e.to) = IF e.over < 0 THEN 0 ELSE e.to
        BY <2>2, <2>5, <1>1
      <4> QED
        BY <3>3, <4>1, <4>2, <4>3, <4>4, <2>3
    <3> QED
      BY <1>3, <3>1, <3>2, <3>3
  <2> QED
    BY <2>4, <2>5, <1>1
<1> QED
  BY <1>2, <1>3 DEF IsEffect, Additive, Factors

\* A step that neither drifts nor oscillates does the same from one instant to the next once
\* the scenario's length has passed.
LEMMA StillStep ==
    ASSUME Tracked, now' = now + 1, case' = case, NEW a \in active, NEW i \in DOMAIN a.sc.timeline,
           now > a.started + Duration(a.sc), a.sc.timeline[i].effect.kind \notin {"drift", "oscillate"},
           NEW n, NEW inst, NEW s
    PROVE  /\ Factor(a, i, n, inst, s)' = Factor(a, i, n, inst, s)
           /\ Added(a, i, n, inst, s)' = Added(a, i, n, inst, s)
           /\ Recovered(a, i, n, inst, s)' = Recovered(a, i, n, inst, s)
<1> DEFINE e == a.sc.timeline[i].effect
           M == Matches(a.sc.timeline[i].target, n, Rank(n), inst, s)
<1>1. IsEffect(e) /\ a.sc.timeline[i].at \in Int /\ now \in Nat /\ a.started \in Nat
  BY StepFacts DEF IsStep, Tracked
<1>2. PICK t \in Int : t = Had(a, i)
  BY StepFacts
<1>3. t > Settle(e)
  <2>1. Duration(a.sc) \in Int /\ a.sc.timeline[i].at + Settle(e) <= Duration(a.sc)
    BY DurationCovers DEF Tracked
  <2>2. Settle(e) \in Int
    BY <1>1 DEF Settle, IsEffect
  <2>3. t = now - a.started - a.sc.timeline[i].at
    BY <1>2 DEF Had
  <2> QED
    BY <1>1, <2>1, <2>2, <2>3
<1>4. Had(a, i)' = t + 1
  BY <1>1, <1>2 DEF Had
<1>5. M' = M
  BY DEF Matches, Rank, RoleOf, ProfileLabels
<1>6. Hits(a, i, n, inst, s) <=> t >= 0 /\ M
  BY <1>2 DEF Hits
<1>7. Hits(a, i, n, inst, s)' <=> t + 1 >= 0 /\ M
  BY <1>4, <1>5 DEF Hits
<1>8. Factor(a, i, n, inst, s) = IF e.kind \in Factors /\ t >= 0 /\ M THEN MultiplierAt(e, t) ELSE Quarters
  BY <1>2, <1>6 DEF Factor
<1>9. Factor(a, i, n, inst, s)' = IF e.kind \in Factors /\ t + 1 >= 0 /\ M THEN MultiplierAt(e, t + 1) ELSE Quarters
  BY <1>4, <1>7 DEF Factor
<1>10. Added(a, i, n, inst, s) = IF e.kind \in Additive /\ t >= 0 /\ M THEN AdditiveAt(e, t) ELSE 0
  BY <1>2, <1>6 DEF Added
<1>11. Added(a, i, n, inst, s)' = IF e.kind \in Additive /\ t + 1 >= 0 /\ M THEN AdditiveAt(e, t + 1) ELSE 0
  BY <1>4, <1>7 DEF Added
<1>12. Recovered(a, i, n, inst, s) = IF e.kind = "recover" /\ t >= 0 /\ M THEN MultiplierAt(e, t) ELSE 2
  BY <1>2, <1>6 DEF Recovered
<1>13. Recovered(a, i, n, inst, s)' = IF e.kind = "recover" /\ t + 1 >= 0 /\ M THEN MultiplierAt(e, t + 1) ELSE 2
  BY <1>4, <1>7 DEF Recovered
<1> HIDE DEF M, e
<1>14. /\ t >= 0 => MultiplierAt(e, t + 1) = MultiplierAt(e, t) /\ AdditiveAt(e, t + 1) = AdditiveAt(e, t)
       /\ ~(t >= 0) /\ t + 1 >= 0 =>
                   /\ e.kind = "ramp" => MultiplierAt(e, t + 1) = Quarters
                   /\ e.kind = "recover" => MultiplierAt(e, t + 1) = 2
                   /\ e.kind = "add_ramp" => AdditiveAt(e, t + 1) = 0
                   /\ e.kind \in {"ramp", "recover", "add_ramp"}
  <2>1. e.kind \notin {"drift", "oscillate"}
    BY DEF e
  <2> QED
    BY <1>1, <1>3, <2>1, StillEffect
<1>15. t >= 0 => t + 1 >= 0
  OBVIOUS
<1>16. CASE t >= 0
  <2>1. MultiplierAt(e, t + 1) = MultiplierAt(e, t) /\ AdditiveAt(e, t + 1) = AdditiveAt(e, t)
    BY <1>14, <1>16
  <2> QED
    BY <1>8, <1>9, <1>10, <1>11, <1>12, <1>13, <1>15, <1>16, <2>1
<1>17. CASE t = -1
  <2>1. ~(t >= 0) /\ t + 1 >= 0
    BY <1>17
  <2>a. /\ e.kind = "ramp" => MultiplierAt(e, t + 1) = Quarters
        /\ e.kind = "recover" => MultiplierAt(e, t + 1) = 2
        /\ e.kind = "add_ramp" => AdditiveAt(e, t + 1) = 0
        /\ e.kind \in {"ramp", "recover", "add_ramp"}
    BY <1>14, <2>1, Zenon
  <2>2. Factor(a, i, n, inst, s)' = Factor(a, i, n, inst, s)
    <3>1. e.kind \in Factors => e.kind = "ramp"
      BY <2>a DEF Factors
    <3> QED
      BY <1>8, <1>9, <2>a, <2>1, <3>1
  <2>3. Added(a, i, n, inst, s)' = Added(a, i, n, inst, s)
    <3>1. e.kind \in Additive => e.kind = "add_ramp"
      BY <2>a DEF Additive
    <3> QED
      BY <1>10, <1>11, <2>a, <2>1, <3>1
  <2>4. Recovered(a, i, n, inst, s)' = Recovered(a, i, n, inst, s)
    BY <1>12, <1>13, <2>a, <2>1
  <2> QED
    BY <2>2, <2>3, <2>4
<1>18. CASE t < -1
  <2>1. ~(t >= 0) /\ ~(t + 1 >= 0)
    BY <1>18
  <2> QED
    BY <1>8, <1>9, <1>10, <1>11, <1>12, <1>13, <2>1
<1> QED
  BY <1>16, <1>17, <1>18

\* After the length that the console and the lint take for a scenario's, it moves nothing any
\* more unless it drifts or oscillates, spans that are zero or negative included
\* (Scenario::duration, Effect::settle_seconds).
THEOREM SettledHolds == Spec => Settled
<1>1. ASSUME Tracked, [Next]_vars, now' > now, NEW a \in active,
             a.since < 0 /\ now > a.started + Duration(a.sc),
             \A i \in DOMAIN a.sc.timeline : a.sc.timeline[i].effect.kind \notin {"drift", "oscillate"},
             NEW p \in Places, NEW s \in OnDisk
      PROVE  Same(Part(a, p[1], p[2], s), Part(a, p[1], p[2], s)')
  <2>1. now' = now + 1 /\ case' = case
    <3>1. now \in Nat
      BY <1>1 DEF Tracked
    <3> QED
      BY <1>1, <3>1 DEF Next, vars, Tick, Prune, Over, Trigger, Resolve
  <2>2. PICK n, inst : n = p[1] /\ inst = p[2]
    OBVIOUS
  <2>3. ASSUME NEW i \in DOMAIN a.sc.timeline
        PROVE  /\ Factor(a, i, n, inst, s)' = Factor(a, i, n, inst, s)
               /\ Added(a, i, n, inst, s)' = Added(a, i, n, inst, s)
               /\ Recovered(a, i, n, inst, s)' = Recovered(a, i, n, inst, s)
    BY <1>1, <2>1, StillStep
  <2>4. Fault(a, n, inst, s)' = Fault(a, n, inst, s)
    BY <2>3 DEF Fault
  <2>5. Addition(a, n, inst, s)' = Addition(a, n, inst, s)
    BY <2>3 DEF Addition
  <2>6. Strength(a)' = Strength(a)
    BY <1>1 DEF Strength
  <2>7. Left(a, n, inst, s)' = Left(a, n, inst, s)
    <3>1. {Recovered(a, i, n, inst, s) : i \in DOMAIN a.sc.timeline}' = {Recovered(a, i, n, inst, s) : i \in DOMAIN a.sc.timeline}
      BY <2>3
    <3> QED
      BY <3>1, <2>6 DEF Left
  <2>8. Part(a, n, inst, s)' = Part(a, n, inst, s)
    BY <2>4, <2>5, <2>7 DEF Part
  <2> QED
    BY <2>2, <2>8 DEF Same
<1>2. Tracked /\ [Next]_vars => (now' > now => \A a \in active :
         (a.since < 0 /\ now > a.started + Duration(a.sc)
              /\ \A i \in DOMAIN a.sc.timeline : a.sc.timeline[i].effect.kind \notin {"drift", "oscillate"})
            => \A p \in Places, s \in OnDisk :
                   Same(Part(a, p[1], p[2], s), Part(a, p[1], p[2], s)'))
  BY <1>1
<1> QED
  BY <1>2, TrackedHolds, PTL DEF Spec, Settled

-----------------------------------------------------------------------------
(* The directions of the lint. *)

\* A step that hits an application signal on a node is one that the lint counts there.
LEMMA HitIsAppHit ==
    ASSUME Tracked, NEW a \in active, NEW n \in AppNodes, NEW s \in AppSignals, NEW i \in DOMAIN a.sc.timeline,
           a.sc.timeline[i].target.label # Simulated, Hits(a, i, n, NoInst, s)
    PROVE  AppHits(a.sc, i, n) /\ a.sc.timeline[i].target.signal = s /\ Had(a, i) \in Nat
<1> DEFINE t == a.sc.timeline[i].target
<1>1. case \in Cases /\ n \in Nodes
  BY DEF Tracked, AppNodes
<1>2. Matches(t, n, Rank(n), NoInst, s) /\ t.signal = s /\ Had(a, i) \in Nat
  <2>1. Had(a, i) >= 0 /\ Matches(t, n, Rank(n), NoInst, s)
    BY DEF Hits
  <2>2. t.signal = s
    BY <2>1, Zenon DEF Matches
  <2>3. Had(a, i) \in Int
    BY StepFacts
  <2>4. \A x \in Int : x >= 0 => x \in Nat
    OBVIOUS
  <2> QED
    BY <2>1, <2>2, <2>3, <2>4, Zenon
<1>3. t.inst # NoInst /\ t.index \in Nat
  BY StepFacts DEF IsStep
<1> HIDE DEF t
<1>4. t.label # Simulated
  BY DEF t
<1>5. StepFit(a.sc, t) = "applies"
  BY <1>1, <1>2, <1>3, <1>4, MatchedApplies
<1>6. AppRank(n) = Rank(n)
  BY <1>1, RanksAgree
<1> QED
  BY <1>2, <1>5, <1>6 DEF AppHits, t

\* What every hit of one direction does to a signal.
LEMMA OneWay ==
    ASSUME Tracked, NEW a \in active, NEW n, NEW s, NEW d \in {-1, 0, 1},
           \A i \in DOMAIN a.sc.timeline :
               Hits(a, i, n, NoInst, s) /\ a.sc.timeline[i].effect.kind # "recover"
                   => d # 0 /\ IntendedDirection(a.sc.timeline[i].effect) = d
    PROVE  Deltas(a, n, s) \subseteq {d}
<1> DEFINE e(i) == a.sc.timeline[i].effect
           f == [i \in DOMAIN a.sc.timeline |-> Factor(a, i, n, NoInst, s)]
           g == [i \in DOMAIN a.sc.timeline |-> Quarters]
           h == [i \in DOMAIN a.sc.timeline |-> Added(a, i, n, NoInst, s)]
           F == Fault(a, n, NoInst, s)
           W == Whole(a.sc)
           P == Addition(a, n, NoInst, s)
           L == Left(a, n, NoInst, s)
<1>1. PICK k \in Nat : DOMAIN a.sc.timeline = 1..k
  BY ActiveSc
<1>2. ASSUME NEW i \in 1..k
      PROVE  /\ Factor(a, i, n, NoInst, s) \in Int /\ Added(a, i, n, NoInst, s) \in Int
             /\ d = 1 => Factor(a, i, n, NoInst, s) >= Quarters /\ Added(a, i, n, NoInst, s) >= 0
             /\ d = -1 => /\ Factor(a, i, n, NoInst, s) >= 0 /\ Factor(a, i, n, NoInst, s) <= Quarters
                          /\ Added(a, i, n, NoInst, s) <= 0
             /\ d = 0 => Factor(a, i, n, NoInst, s) = Quarters /\ Added(a, i, n, NoInst, s) = 0
  <2>1. IsEffect(e(i)) /\ Factor(a, i, n, NoInst, s) \in Int /\ Added(a, i, n, NoInst, s) \in Int
    BY <1>1, StepFacts, PartFacts
  <2>2. CASE Hits(a, i, n, NoInst, s) /\ e(i).kind # "recover"
    <3>1. Had(a, i) \in Nat
      BY <1>1, <2>2, StepFacts DEF Hits
    <3>2. d # 0 /\ IntendedDirection(e(i)) = d
      BY <1>1, <2>2
    <3>3. CASE e(i).kind \in Factors
      <4>1. Factor(a, i, n, NoInst, s) = MultiplierAt(e(i), Had(a, i)) /\ Added(a, i, n, NoInst, s) = 0
        BY <2>2, <3>3 DEF Factor, Added, Factors, Additive
      <4>2. /\ d = 1 => MultiplierAt(e(i), Had(a, i)) >= Quarters
            /\ d = -1 => 0 <= MultiplierAt(e(i), Had(a, i)) /\ MultiplierAt(e(i), Had(a, i)) <= Quarters
        BY <2>1, <3>1, <3>2, <3>3, MultiplierFacts
      <4> QED
        BY <2>1, <3>2, <4>1, <4>2
    <3>4. CASE e(i).kind \in Additive
      <4>1. Factor(a, i, n, NoInst, s) = Quarters /\ Added(a, i, n, NoInst, s) = AdditiveAt(e(i), Had(a, i))
        BY <2>2, <3>4 DEF Factor, Added, Factors, Additive
      <4>2. /\ d = 1 => AdditiveAt(e(i), Had(a, i)) >= 0
            /\ d = -1 => AdditiveAt(e(i), Had(a, i)) <= 0
        BY <2>1, <3>1, <3>2, <3>4, AdditiveFacts
      <4> QED
        BY <2>1, <3>2, <4>1, <4>2 DEF Quarters
    <3> QED
      BY <2>1, <2>2, <3>3, <3>4 DEF IsEffect
  <2>3. CASE ~(Hits(a, i, n, NoInst, s) /\ e(i).kind # "recover")
    <3>1. Factor(a, i, n, NoInst, s) = Quarters /\ Added(a, i, n, NoInst, s) = 0
      BY <2>3 DEF Factor, Added, Factors, Additive
    <3> QED
      BY <3>1 DEF Quarters
  <2> QED
    BY <2>2, <2>3
<1>3. F \in Int /\ P \in Int /\ L \in Nat /\ W \in Nat
  BY FaultInt, LeftFacts, WholeNat, ActiveSc
<1>4. /\ \A i \in 1..k : f[i] = Factor(a, i, n, NoInst, s) /\ g[i] = 4 /\ h[i] = Added(a, i, n, NoInst, s)
      /\ f = [i \in 1..k |-> f[i]] /\ g = [i \in 1..k |-> g[i]] /\ h = [i \in 1..k |-> h[i]]
      /\ F = Times(f) /\ W = Times(g) /\ P = Plus(h)
  BY <1>1 DEF Fault, Whole, Addition, Quarters
<1> HIDE DEF f, g, h, F, W, P, L
<1>5. h \in Seq(Int) /\ Len(h) = k
  BY <1>2, <1>4, Listed
<1>6. g \in Seq(Nat) /\ Len(g) = k
  <2>1. \A i \in 1..k : g[i] \in Nat
    BY <1>4
  <2> QED
    BY <1>4, <2>1, Listed
<1>7. CASE d = 1
  <2>1. \A i \in 1..k : f[i] \in Nat /\ g[i] <= f[i] /\ h[i] >= 0
    BY <1>2, <1>4, <1>7 DEF Quarters
  <2>2. f \in Seq(Nat) /\ Len(f) = k
    BY <1>4, <2>1, Listed
  <2>3. W <= F
    <3>1. Times(g) <= Times(f)
      BY <1>6, <2>1, <2>2, TimesGrow
    <3> QED
      BY <3>1, <1>4
  <2>4. P >= 0
    BY <1>4, <1>5, <2>1, PlusSign
  <2>5. F - W \in Nat /\ P \in Nat
    BY <1>3, <2>3, <2>4
  <2>6. (F - W) * L \in Nat /\ P * L \in Nat
    BY <1>3, <2>5
  <2>7. (16 * W + (F - W) * L) - 16 * W = (F - W) * L
    BY <1>3, <2>6
  <2>8. Deltas(a, n, s) = {Sign((F - W) * L), Sign(P * L)} \ {0}
    BY <2>7 DEF Deltas, Part, F, W, P, L
  <2> QED
    BY <1>7, <2>6, <2>8 DEF Sign
<1>8. CASE d = -1
  <2>1. \A i \in 1..k : f[i] \in Nat /\ f[i] <= g[i] /\ h[i] <= 0
    BY <1>2, <1>4, <1>8 DEF Quarters
  <2>2. f \in Seq(Nat) /\ Len(f) = k
    BY <1>4, <2>1, Listed
  <2>3. F <= W
    <3>1. Times(f) <= Times(g)
      BY <1>6, <2>1, <2>2, TimesGrow
    <3> QED
      BY <3>1, <1>4
  <2>4. P <= 0
    BY <1>4, <1>5, <2>1, PlusSign
  <2>5. W - F \in Nat /\ -P \in Nat
    BY <1>3, <2>3, <2>4
  <2>6. (W - F) * L \in Nat /\ (-P) * L \in Nat
    BY <1>3, <2>5
  <2>7. (16 * W + (F - W) * L) - 16 * W = -((W - F) * L) /\ P * L = -((-P) * L)
    BY <1>3
  <2>8. Deltas(a, n, s) = {Sign(-((W - F) * L)), Sign(-((-P) * L))} \ {0}
    BY <2>7 DEF Deltas, Part, F, W, P, L
  <2> QED
    BY <1>8, <2>6, <2>8 DEF Sign
<1>9. CASE d = 0
  <2>1. \A i \in 1..k : f[i] = g[i] /\ h[i] = 0
    BY <1>2, <1>4, <1>9 DEF Quarters
  <2>2. F = W
    BY <1>4, <2>1
  <2>3. P = 0
    <3>1. \A i \in 1..k : h[i] >= 0 /\ h[i] <= 0
      BY <2>1
    <3>2. P >= 0 /\ P <= 0
      BY <1>4, <1>5, <3>1, PlusSign
    <3> QED
      BY <1>3, <3>2
  <2>4. (16 * W + (F - W) * L) - 16 * W = 0 /\ P * L = 0
    BY <1>3, <2>2, <2>3
  <2>5. Deltas(a, n, s) = {Sign(0), Sign(0)} \ {0}
    BY <2>4 DEF Deltas, Part, F, W, P, L
  <2> QED
    BY <1>9, <2>5 DEF Sign
<1> QED
  BY <1>7, <1>8, <1>9

\* The directions that the lint works out for an application node are those that the runtime
\* gives its signals, alone or together, while the fault is there and while it recovers.
LEMMA DirectedHolds == ASSUME Tracked PROVE Directed
<1> SUFFICES ASSUME NEW a \in active, NEW n \in AppNodes, NEW s \in AppSignals,
                    \A i \in DOMAIN a.sc.timeline : a.sc.timeline[i].target.label # Simulated
             PROVE  LET targets == AppTargets(a.sc, n) IN
                    IF s \notin DOMAIN targets THEN Deltas(a, n, s) = {}
                    ELSE targets[s] = 0 \/ Deltas(a, n, s) \subseteq {targets[s]}
  BY DEF Directed
<1> DEFINE steps == DOMAIN a.sc.timeline
           aimed == {i \in steps : AppHits(a.sc, i, n) /\ a.sc.timeline[i].effect.kind # "recover"}
           signal(i) == a.sc.timeline[i].target.signal
           aims == {IntendedDirection(a.sc.timeline[i].effect) : i \in {j \in aimed : signal(j) = s}}
           targets == AppTargets(a.sc, n)
<1>1. \A i \in steps : Hits(a, i, n, NoInst, s) /\ a.sc.timeline[i].effect.kind # "recover"
                          => i \in aimed /\ signal(i) = s
  BY HitIsAppHit
<1>2. DOMAIN targets = {signal(i) : i \in aimed} /\ (s \in DOMAIN targets => targets[s] = Common(aims))
  BY DEF AppTargets
<1>3. CASE s \notin DOMAIN targets
  <2>1. \A i \in steps : ~(Hits(a, i, n, NoInst, s) /\ a.sc.timeline[i].effect.kind # "recover")
    BY <1>1, <1>2, <1>3
  <2>2. Deltas(a, n, s) \subseteq {0}
    BY <2>1, OneWay
  <2>3. 0 \notin Deltas(a, n, s)
    BY DEF Deltas
  <2> QED
    BY <1>3, <2>2, <2>3
<1>4. CASE s \in DOMAIN targets
  <2> SUFFICES ASSUME Common(aims) # 0 PROVE Deltas(a, n, s) \subseteq {Common(aims)}
    BY <1>2, <1>4
  <2>1. aims \subseteq {-1, 0, 1}
    BY DEF IntendedDirection, Sign
  <2>0. aims # {}
    <3>1. PICK i \in aimed : signal(i) = s
      BY <1>2, <1>4
    <3>2. IntendedDirection(a.sc.timeline[i].effect) \in aims
      BY <3>1
    <3> QED
      BY <3>2
  <2>2. aims # {} /\ \A x, y \in aims : x = y
    <3> HIDE DEF aims
    <3> QED
      BY <2>0 DEF Common
  <2>3. PICK d \in aims : d = Common(aims)
    BY <2>2 DEF Common
  <2>4. \A i \in steps : Hits(a, i, n, NoInst, s) /\ a.sc.timeline[i].effect.kind # "recover"
                          => d # 0 /\ IntendedDirection(a.sc.timeline[i].effect) = d
    BY <1>1, <2>2, <2>3
  <2>5. d \in {-1, 0, 1}
    BY <2>1
  <2> QED
    BY <2>3, <2>4, <2>5, OneWay
<1> QED
  BY <1>3, <1>4

\* What the lint says of a scenario in this fleet, that a step is left out or which way it moves
\* an application's signal, is what the plugin does with it (check_scenarios, step_fit,
\* application_targets against Target::matches and ScenarioSet::perturbation).
THEOREM LintRightHolds == Spec => []LintRight
<1>1. Tracked => LintRight
  BY SkipsHold, DirectedHolds DEF LintRight
<1> QED
  BY <1>1, TrackedHolds, PTL

-----------------------------------------------------------------------------
(* The warm-up. *)

\* An incident starts in its slot, early enough to end there with its margin.
LEMMA InSlot ==
    ASSUME Tracked, NEW slot \in Slots
    PROVE  /\ slot \in Nat /\ slot * Slot \in Nat /\ (slot + 1) * Slot = slot * Slot + Slot
           /\ StartOf(slot) \in Int /\ slot * Slot <= StartOf(slot)
           /\ StartOf(slot) + Incident + Margin <= slot * Slot + Slot
<1>0. Slot \in Nat \ {0} /\ Incident \in Nat /\ Margin \in Nat /\ MaxNow \in Nat /\ Incident + Margin <= Slot
  BY ScenarioBounds, WarmRotation
<1>1. slot \in Nat
  <2>1. MaxNow \div Slot \in Int
    BY <1>0, Divided
  <2> QED
    BY <2>1 DEF Slots
<1>2. slot * Slot \in Nat /\ (slot + 1) * Slot = slot * Slot + Slot
  BY <1>0, <1>1
<1>3. mix[slot].offset \in Nat
  <2>1. mix[slot] \in Hashes
    BY DEF Tracked
  <2> QED
    <3>1. \A r \in [pick : 0..1, offset : 0..Slot - 1] : r.offset \in Nat
      BY <1>0
    <3>2. \A r \in {[pick |-> 0, offset |-> 0]} : r.offset \in Nat
      OBVIOUS
    <3>3. Hashes = [pick : 0..1, offset : 0..Slot - 1] \/ Hashes = {[pick |-> 0, offset |-> 0]}
      BY DEF Hashes
    <3> QED
      BY <2>1, <3>1, <3>2, <3>3
<1> DEFINE B == IF Jitter > 0 THEN mix[slot].offset % Jitter ELSE 0
<1>4. B \in Nat /\ B + Incident + Margin <= Slot
  <2>1. Jitter \in Int /\ Jitter = Slot - Incident - Margin
    BY <1>0 DEF Jitter
  <2>2. CASE Jitter > 0
    <3>1. mix[slot].offset % Jitter \in 0..Jitter - 1
      BY <1>3, <2>1, <2>2
    <3> QED
      BY <1>0, <2>1, <2>2, <3>1
  <2>3. CASE ~(Jitter > 0)
    BY <1>0, <2>1, <2>3
  <2> QED
    BY <2>2, <2>3
<1>5. StartOf(slot) = slot * Slot + B
  BY DEF StartOf
<1> HIDE DEF B
<1> QED
  BY <1>0, <1>1, <1>2, <1>4, <1>5

\* The incident of a slot runs for its whole length.
LEMMA WindowLength ==
    ASSUME Tracked, Usable # <<>>, NEW slot \in Slots
    PROVE  Cardinality({t \in slot * Slot .. (slot + 1) * Slot - 1 : Warm(t) # {}}) = Incident
<1> DEFINE lo == slot * Slot
           st == StartOf(slot)
<1>0. Slot \in Nat \ {0} /\ Incident \in Nat /\ Margin \in Nat
  BY ScenarioBounds
<1>1. /\ slot \in Nat /\ lo \in Nat /\ (slot + 1) * Slot = lo + Slot
      /\ st \in Int /\ lo <= st /\ st + Incident + Margin <= lo + Slot
  BY InSlot
<1>2. ASSUME NEW t \in lo..lo + Slot - 1
      PROVE  Warm(t) # {} <=> st <= t /\ t < st + Incident
  <2>1. t \div Slot = slot
    <3>1. t \in Int /\ slot \in Int /\ lo <= t /\ t < lo + Slot
      BY <1>0, <1>1
    <3>2. Slot * slot = lo
      BY <1>0, <1>1
    <3>3. Slot * slot <= t /\ t < Slot * slot + Slot
      BY <3>1, <3>2, Zenon
    <3> QED
      BY <1>0, <3>1, <3>3, DividedBy, Zenon
  <2>2. Warm(t) # {} <=> ~(t < StartOf(slot) \/ t >= StartOf(slot) + Incident)
    BY <2>1 DEF Warm
  <2> QED
    BY <1>0, <1>1, <2>2
<1> HIDE DEF lo, st
<1>3. {t \in lo..lo + Slot - 1 : Warm(t) # {}} = st..st + Incident - 1
  <2>1. \A t \in st..st + Incident - 1 : t \in lo..lo + Slot - 1
    BY <1>0, <1>1
  <2>2. \A t \in lo..lo + Slot - 1 : t \in st..st + Incident - 1 <=> Warm(t) # {}
    BY <1>0, <1>1, <1>2
  <2> QED
    BY <2>1, <2>2
<1>4. Cardinality(st..st + Incident - 1) = Incident
  BY <1>0, <1>1, FS_Interval
<1>5. PICK top \in Int : top = (slot + 1) * Slot /\ top = lo + Slot
  BY <1>0, <1>1
<1>6. lo..top - 1 = lo..lo + Slot - 1
  <2>1. lo \in Int /\ Slot \in Int /\ top \in Int /\ top = lo + Slot
    BY <1>0, <1>1, <1>5
  <2>2. top - 1 = lo + Slot - 1
    BY <2>1
  <2> QED
    BY <2>2, Zenon
<1> QED
  BY <1>3, <1>4, <1>5, <1>6, Zenon DEF lo

\* In every slot the warm-up incident runs for its whole length, and keeps its distance from the
\* next one (warmup::active).
THEOREM WarmWindowHolds == Spec => []WarmWindow
<1>1. ASSUME Tracked PROVE WarmWindow
  <2> SUFFICES ASSUME Usable # <<>>, NEW slot \in Slots, slot + 1 \in Slots
               PROVE  StartOf(slot) + Incident + Margin <= StartOf(slot + 1)
    BY <1>1, WindowLength DEF WarmWindow
  <2>1. StartOf(slot) \in Int /\ StartOf(slot + 1) \in Int /\ StartOf(slot) + Incident + Margin <= slot * Slot + Slot
        /\ (slot + 1) * Slot <= StartOf(slot + 1) /\ (slot + 1) * Slot = slot * Slot + Slot /\ slot * Slot \in Nat
    BY <1>1, InSlot
  <2> QED
    BY <2>1, ScenarioBounds
<1> QED
  BY <1>1, TrackedHolds, PTL

=============================================================================
