---------------------------- MODULE Prices_proofs ----------------------------
(***************************************************************************)
(* What parsing and formatting compute, for texts of any length and any    *)
(* decimals; and, from that, the invariants of an amount that programs of  *)
(* both languages read and write, and of the resource servers that publish *)
(* prices, for any configuration and any number of requests.               *)
(***************************************************************************)
EXTENDS AmountExchange, GoResourceServer, JsResourceServer, Exact_proofs, SequenceTheorems

-----------------------------------------------------------------------------
(* Induction and recursion over the natural numbers.                       *)

\* A set of natural numbers that holds every number whose predecessors it holds.
LEMMA Induction ==
  ASSUME NEW S,
         \A n \in Nat : (\A m \in Nat : m < n => m \in S) => n \in S
  PROVE  \A n \in Nat : n \in S
<1> DEFINE left == Nat \ S
<1>1. SUFFICES ASSUME left # {} PROVE FALSE
  BY Zenon
<1>2. PICK n \in left : \A m \in left : n <= m
  BY <1>1, FirstOf, Zenon
<1>3. \A m \in Nat : m < n => m \in S
  BY <1>2
<1> QED
  BY <1>2, <1>3

\* A definition of a function from D to V by recursion: where it stops, with what
\* values, and from which smaller number it goes on, by which step.
IsRecursion(D, V, stop, base, prev, step) ==
  /\ D \subseteq Nat /\ stop \subseteq D
  /\ \A n \in stop : base[n] \in V
  /\ \A n \in D \ stop : prev[n] \in D /\ prev[n] < n
  /\ \A n \in D \ stop, v \in V : step[n][v] \in V

IsSolution(f, D, V, stop, base, prev, step) ==
  /\ f \in [D -> V]
  /\ \A n \in D : f[n] = IF n \in stop THEN base[n] ELSE step[n][f[prev[n]]]

\* It has a solution.
LEMMA Recursion ==
  ASSUME NEW D, NEW V, NEW stop, NEW base, NEW prev, NEW step,
         IsRecursion(D, V, stop, base, prev, step)
  PROVE  \E f : IsSolution(f, D, V, stop, base, prev, step)
<1> USE DEF IsRecursion
<1> DEFINE Upto(n) == {m \in D : m <= n}
           Value(f, m) == IF m \in stop THEN base[m] ELSE step[m][f[prev[m]]]
           Solves(f, n) == f \in [Upto(n) -> V] /\ \A m \in Upto(n) : f[m] = Value(f, m)
           Agree(n) == \A k, l \in Nat : \A f, g :
                         Solves(f, k) /\ Solves(g, l) /\ n <= k /\ n <= l => f[n] = g[n]
           agree == {n \in Nat : n \in D => Agree(n)}
           Solved(n) == \E f : Solves(f, n)
           solved == {n \in Nat : Solved(n)}
<1>0. \A n \in D : /\ n \in Nat
                   /\ n \notin stop => prev[n] \in D /\ prev[n] \in Nat /\ prev[n] < n
  OBVIOUS
<1>1. ASSUME NEW n \in D, NEW f, NEW g, NEW k \in Nat, NEW l \in Nat,
             Solves(f, k), Solves(g, l), n <= k, n <= l
      PROVE  /\ f[n] = Value(f, n) /\ g[n] = Value(g, n)
             /\ n \notin stop =>
                  prev[n] \in D /\ prev[n] < n /\ prev[n] <= k /\ prev[n] <= l
  <2>1. n \in Upto(k) /\ n \in Upto(l)
    BY <1>1
  <2>2. f[n] = Value(f, n) /\ g[n] = Value(g, n)
    BY <1>1, <2>1, Zenon
  <2>3. n \in Nat /\ (n \notin stop => prev[n] \in D /\ prev[n] \in Nat /\ prev[n] < n)
    OBVIOUS
  <2> QED
    BY <1>1, <2>2, <2>3
<1> HIDE DEF Solves
<1>2. ASSUME NEW n \in Nat, \A m \in Nat : m < n => m \in agree, n \in D
      PROVE  Agree(n)
  <2> SUFFICES ASSUME NEW k \in Nat, NEW l \in Nat, NEW f, NEW g,
                      Solves(f, k), Solves(g, l), n <= k, n <= l
               PROVE  f[n] = g[n]
    OBVIOUS
  <2>1. CASE n \in stop
    BY <1>1, <1>2, <2>1
  <2>2. CASE n \notin stop
    <3>1. prev[n] \in D /\ prev[n] < n /\ prev[n] <= k /\ prev[n] <= l
      BY <1>1, <1>2, <2>2
    <3>2. Agree(prev[n])
      <4> HIDE DEF Agree
      <4> QED
        BY <1>2, <3>1
    <3>3. f[prev[n]] = g[prev[n]]
      BY <3>1, <3>2
    <3> QED
      BY <1>1, <1>2, <2>2, <3>3
  <2> QED
    BY <2>1, <2>2
<1> HIDE DEF Agree
<1>3. \A n \in Nat : n \in agree
  <2>1. \A n \in Nat : (\A m \in Nat : m < n => m \in agree) => n \in agree
    BY <1>2
  <2> QED
    BY <2>1, Induction, Zenon
<1>4. ASSUME NEW n \in Nat, \A m \in Nat : m < n => m \in solved
      PROVE  Solved(n)
  <2> DEFINE Below == {m \in D : m < n}
  <2>1. \E g : g \in [Below -> V] /\ \A m \in Below : g[m] = Value(g, m)
    <3>1. CASE n = 0
      <4>0. \A m \in D : ~(m < n)
        BY <1>0, <3>1
      <4>1. Below = {}
        BY <4>0, Zenon
      <4>2. [m \in {} |-> 0] \in [{} -> V]
        OBVIOUS
      <4> QED
        BY <4>1, <4>2
    <3>2. CASE n # 0
      <4>1. n - 1 \in Nat /\ n - 1 < n
        BY <1>4, <3>2
      <4>2. PICK g : Solves(g, n - 1)
        BY <1>4, <4>1
      <4>4. n \in Nat
        BY <1>4
      <4>0. ASSUME NEW m \in D
            PROVE  m <= n - 1 <=> m < n
        <5>1. m \in Nat
          BY <1>0
        <5> QED
          BY <4>4, <5>1
      <4>3. Upto(n - 1) = Below
        BY <4>0
      <4> HIDE DEF Upto, Below
      <4> QED
        BY <4>2, <4>3 DEF Solves
    <3> QED
      BY <3>1, <3>2
  <2>2. PICK g : g \in [Below -> V] /\ \A m \in Below : g[m] = Value(g, m)
    BY <2>1
  <2> DEFINE f == [m \in Upto(n) |-> IF m < n THEN g[m] ELSE Value(g, m)]
  <2>3. \A m \in Upto(n) : m \in D /\ (m = n \/ m \in Below)
    <3>1. \A m \in D : m \in Nat
      BY <1>0
    <3> QED
      BY <3>1, <1>4
  <2>4. \A m \in Upto(n) : f[m] = Value(g, m)
    BY <2>2, <2>3
  <2>5. ASSUME NEW m \in Upto(n)
        PROVE  Value(g, m) = Value(f, m) /\ Value(g, m) \in V
    <3>1. CASE m \in stop
      BY <3>1
    <3>2. CASE m \notin stop
      <4>0. m \in Nat /\ m <= n /\ n \in Nat
        BY <1>0, <1>4, <2>5
      <4>1. prev[m] \in D /\ prev[m] <= n /\ prev[m] < n
        BY <4>0, <1>0, <1>4, <2>3, <2>5, <3>2
      <4>2. f[prev[m]] = g[prev[m]] /\ g[prev[m]] \in V
        <5>1. prev[m] \in Upto(n) /\ prev[m] \in Below
          BY <4>1, Zenon
        <5> QED
          BY <2>2, <4>1, <5>1
      <4> QED
        BY <3>2, <4>2
    <3> QED
      BY <3>1, <3>2
  <2>6. f \in [Upto(n) -> V]
    <3> HIDE DEF Upto
    <3> QED
      BY <2>4, <2>5
  <2>7. \A m \in Upto(n) : f[m] = Value(f, m)
    BY <2>4, <2>5, Zenon
  <2> HIDE DEF f
  <2> QED
    BY <2>6, <2>7 DEF Solves
<1>5. \A n \in Nat : n \in solved
  <2> HIDE DEF Solved
  <2>1. \A n \in Nat : (\A m \in Nat : m < n => m \in solved) => n \in solved
    BY <1>4
  <2> QED
    BY <2>1, Induction, Zenon
<1> DEFINE best == [n \in D |-> CHOOSE f : Solves(f, n)]
           f == [n \in D |-> best[n][n]]
<1>6. \A n \in D : Solves(best[n], n)
  BY <1>5
<1> HIDE DEF best
<1>7. ASSUME NEW n \in D PROVE f[n] \in V /\ f[n] = Value(f, n)
  <2>1. Solves(best[n], n) /\ n \in Nat /\ n <= n
    BY <1>6, <1>7
  <2>2. f[n] = best[n][n] /\ f[n] \in V /\ f[n] = Value(best[n], n)
    BY <1>7, <2>1 DEF Solves
  <2>3. CASE n \in stop
    BY <2>2, <2>3
  <2>4. CASE n \notin stop
    <3>0. n \in D \ stop /\ n \in Nat
      BY <1>7, <2>1, <2>4
    <3>1. prev[n] \in D /\ prev[n] < n /\ prev[n] \in Nat /\ prev[n] <= n /\ prev[n] <= prev[n]
      <4>1. prev[n] \in D /\ prev[n] < n
        BY <1>0, <3>0, Zenon
      <4>2. prev[n] \in Nat
        BY <1>0, <4>1
      <4> QED
        BY <3>0, <4>1, <4>2
    <3>2. Solves(best[prev[n]], prev[n])
      BY <1>6, <3>1
    <3>3. Agree(prev[n])
      BY <1>3, <3>1
    <3>4. best[n][prev[n]] = best[prev[n]][prev[n]]
      BY <2>1, <3>1, <3>2, <3>3 DEF Agree
    <3>5. f[prev[n]] = best[prev[n]][prev[n]]
      BY <3>1
    <3> QED
      BY <2>2, <2>4, <3>4, <3>5
  <2> QED
    BY <2>3, <2>4
<1>8. f \in [D -> V]
  BY <1>7
<1> HIDE DEF f
<1>9. IsSolution(f, D, V, stop, base, prev, step)
  BY <1>7, <1>8 DEF IsSolution
<1> QED
  BY <1>9

-----------------------------------------------------------------------------
(* Powers of ten and digits.                                               *)

\* Quotient and remainder, and that nothing else has their properties.
LEMMA Division ==
  ASSUME NEW n \in Int, NEW d \in Nat, d > 0
  PROVE  /\ n \div d \in Int /\ n % d \in 0..(d - 1) /\ n = (n \div d) * d + (n % d)
         /\ n \in Nat => n \div d \in Nat
         /\ \A q \in Int : q * d <= n /\ n < q * d + d => n \div d = q
<1>1. ASSUME NEW q \in Int, q * d <= n, n < q * d + d PROVE n \div d = q
  BY <1>1
<1>2. n = (n \div d) * d + (n % d)
  OBVIOUS
<1>3. n \div d \in Int /\ n % d \in 0..(d - 1) /\ (n \in Nat => n \div d \in Nat)
  OBVIOUS
<1> QED
  BY <1>1, <1>2, <1>3

\* A sequence of a smaller set is one of a larger set.
LEMMA SeqOfSuperset ==
  ASSUME NEW S, NEW T, S \subseteq T, NEW s \in Seq(S)
  PROVE  s \in Seq(T)
  OBVIOUS

\* The powers of ten are what their recursive definition says.
LEMMA Powers ==
  /\ PowerOfTen[0] = 1
  /\ \A n \in Nat : PowerOfTen[n] \in Nat /\ PowerOfTen[n] > 0
  /\ \A n \in Nat : PowerOfTen[n + 1] = 10 * PowerOfTen[n]
<1> DEFINE base == [n \in {0} |-> 1]
           prev == [n \in Nat |-> n - 1]
           step == [n \in Nat |-> [v \in Nat |-> 10 * v]]
           Solves(f) == f = [n \in Nat |-> IF n = 0 THEN 1 ELSE 10 * f[n - 1]]
<1>1. IsRecursion(Nat, Nat, {0}, base, prev, step)
  BY DEF IsRecursion
<1>2. \E f : IsSolution(f, Nat, Nat, {0}, base, prev, step)
  BY <1>1, Recursion, Zenon
<1>3. PICK f : IsSolution(f, Nat, Nat, {0}, base, prev, step)
  BY <1>2
<1>4. f \in [Nat -> Nat] /\ \A n \in Nat : f[n] = IF n = 0 THEN 1 ELSE 10 * f[n - 1]
  <2>1. f \in [Nat -> Nat] /\ f[0] = 1
    BY <1>3 DEF IsSolution
  <2>2. ASSUME NEW n \in Nat, n # 0 PROVE f[n] = 10 * f[n - 1]
    <3>1. n - 1 \in Nat /\ f[n - 1] \in Nat /\ prev[n] = n - 1
      BY <2>1, <2>2
    <3>2. f[n] = step[n][f[n - 1]]
      BY <1>3, <2>2, <3>1 DEF IsSolution
    <3> QED
      BY <2>2, <3>1, <3>2
  <2> QED
    BY <2>1, <2>2
<1>5. Solves(f)
  BY <1>4
<1>6. Solves(PowerOfTen)
  BY <1>5, Zenon DEF PowerOfTen
<1>7. PowerOfTen[0] = 1 /\ \A n \in Nat : PowerOfTen[n + 1] = 10 * PowerOfTen[n]
  BY <1>6
<1> DEFINE positive == {n \in Nat : PowerOfTen[n] \in Nat /\ PowerOfTen[n] > 0}
<1>8. \A n \in Nat : n \in positive
  <2>1. ASSUME NEW n \in Nat, \A m \in Nat : m < n => m \in positive
        PROVE  n \in positive
    <3>1. CASE n = 0
      BY <1>7, <3>1
    <3>2. CASE n # 0
      <4>1. n - 1 \in positive /\ n = (n - 1) + 1 /\ n - 1 \in Nat
        BY <2>1, <3>2
      <4> QED
        BY <1>7, <4>1
    <3> QED
      BY <3>1, <3>2
  <2> HIDE DEF positive
  <2> QED
    BY <2>1, Induction
<1> QED
  BY <1>7, <1>8

\* What the digits of a text come to as they are read from the left.
RunningValue(v, s) ==
  /\ v \in [0..Len(s) -> Nat]
  /\ v[0] = 0
  /\ \A i \in 1..Len(s) : v[i] = 10 * v[i - 1] + s[i]

\* DigitsValue is the last of these values: its recursion is total on numbers.
LEMMA RunningValues ==
  ASSUME NEW s \in Seq(Nat)
  PROVE  \E v : RunningValue(v, s) /\ DigitsValue(s) = v[Len(s)]
<1> DEFINE base == [n \in {0} |-> 0]
           prev == [n \in 0..Len(s) |-> n - 1]
           step == [n \in 0..Len(s) |-> [v \in Nat |-> 10 * v + s[n]]]
           Solves(f) == f = [i \in 0..Len(s) |-> IF i = 0 THEN 0 ELSE 10 * f[i - 1] + s[i]]
           value == CHOOSE f : Solves(f)
<1>1. Len(s) \in Nat /\ \A n \in 0..Len(s) : n # 0 => s[n] \in Nat
  OBVIOUS
<1>2. IsRecursion(0..Len(s), Nat, {0}, base, prev, step)
  BY <1>1 DEF IsRecursion
<1>3. \E f : IsSolution(f, 0..Len(s), Nat, {0}, base, prev, step)
  BY <1>2, Recursion, Zenon
<1>4. PICK f : IsSolution(f, 0..Len(s), Nat, {0}, base, prev, step)
  BY <1>3
<1>5. f \in [0..Len(s) -> Nat] /\ f[0] = 0
  BY <1>1, <1>4 DEF IsSolution
<1>6. ASSUME NEW n \in 0..Len(s), n # 0 PROVE f[n] = 10 * f[n - 1] + s[n]
  <2>1. n - 1 \in 0..Len(s) /\ f[n - 1] \in Nat /\ prev[n] = n - 1
    BY <1>1, <1>5, <1>6
  <2>2. f[n] = step[n][f[n - 1]]
    BY <1>4, <1>6, <2>1 DEF IsSolution
  <2> QED
    BY <1>1, <1>6, <2>1, <2>2
<1>7. Solves(f)
  <2>1. \A n \in 0..Len(s) : f[n] = IF n = 0 THEN 0 ELSE 10 * f[n - 1] + s[n]
    BY <1>5, <1>6
  <2> QED
    BY <1>5, <2>1
<1>8. Solves(value)
  BY <1>7, Zenon
<1>9. DigitsValue(s) = value[Len(s)]
  BY DEF DigitsValue
<1> QED
  <2> HIDE DEF value
  <2>1. DOMAIN value = 0..Len(s)
    BY <1>8
  <2> DEFINE natural == {n \in Nat : n <= Len(s) => value[n] \in Nat}
  <2>2. \A i \in 0..Len(s) : value[i] = IF i = 0 THEN 0 ELSE 10 * value[i - 1] + s[i]
    BY <1>8
  <2>3. \A n \in Nat : n \in natural
    <3>1. ASSUME NEW n \in Nat, \A m \in Nat : m < n => m \in natural
          PROVE  n \in natural
      <4>1. CASE n = 0
        BY <1>1, <2>2, <4>1
      <4>2. CASE n # 0 /\ n <= Len(s)
        <5>1. n - 1 \in natural
          BY <3>1, <4>2
        <5>2. value[n - 1] \in Nat /\ n \in 0..Len(s) /\ s[n] \in Nat
          BY <1>1, <3>1, <4>2, <5>1
        <5>3. value[n] = 10 * value[n - 1] + s[n]
          BY <2>2, <4>2, <5>2
        <5> QED
          BY <5>2, <5>3
      <4>3. CASE ~(n <= Len(s))
        BY <4>3, <3>1
      <4> QED
        BY <4>1, <4>2, <4>3
    <3> HIDE DEF natural
    <3> QED
      BY <3>1, Induction
  <2>4. value \in [0..Len(s) -> Nat]
    <3>1. \A i \in 0..Len(s) : value[i] \in Nat
      BY <1>1, <2>3
    <3>2. value = [i \in 0..Len(s) |-> value[i]]
      BY <1>8
    <3> QED
      BY <3>1, <3>2
  <2>5. RunningValue(value, s)
    BY <1>1, <2>2, <2>4 DEF RunningValue
  <2> QED
    BY <1>9, <2>5

\* The value of digits is a natural number.
LEMMA ValueIsNat ==
  ASSUME NEW s \in Seq(Nat)
  PROVE  DigitsValue(s) \in Nat
<1>1. PICK v : RunningValue(v, s) /\ DigitsValue(s) = v[Len(s)]
  BY RunningValues
<1> QED
  BY <1>1 DEF RunningValue

\* No digits, or any number of zeros, come to nothing.
LEMMA ValueOfZeros ==
  ASSUME NEW n \in Nat
  PROVE  /\ Zeros(n) \in Seq({0}) /\ Zeros(n) \in Seq(Nat) /\ Len(Zeros(n)) = n
         /\ DigitsValue(Zeros(n)) = 0 /\ DigitsValue(<<>>) = 0
<1>1. Zeros(n) \in Seq({0}) /\ Zeros(n) \in Seq(Nat) /\ Len(Zeros(n)) = n
      /\ \A i \in 1..n : Zeros(n)[i] = 0
  BY DEF Zeros
<1>2. PICK v : RunningValue(v, Zeros(n)) /\ DigitsValue(Zeros(n)) = v[n]
  BY <1>1, RunningValues
<1>3. v[0] = 0 /\ \A i \in 1..n : v[i] = 10 * v[i - 1] + 0
  BY <1>1, <1>2 DEF RunningValue
<1> DEFINE zero == {i \in Nat : i <= n => v[i] = 0}
<1>4. ASSUME NEW i \in Nat, \A j \in Nat : j < i => j \in zero
      PROVE  i \in zero
  <2>1. CASE i = 0
    BY <1>3, <2>1
  <2>2. CASE i # 0 /\ i <= n
    <3>1. i - 1 \in zero /\ i \in 1..n
      BY <1>4, <2>2
    <3> QED
      BY <1>3, <1>4, <3>1
  <2>3. CASE ~(i <= n)
    BY <1>4, <2>3
  <2> QED
    BY <2>1, <2>2, <2>3
<1>5. \A i \in Nat : i \in zero
  <2> HIDE DEF zero
  <2> QED
    BY <1>4, Induction
<1>6. DigitsValue(<<>>) = 0
  <2>1. <<>> \in Seq(Nat) /\ Len(<<>>) = 0
    OBVIOUS
  <2>2. PICK w : RunningValue(w, <<>>) /\ DigitsValue(<<>>) = w[Len(<<>>)]
    BY <2>1, RunningValues
  <2> QED
    BY <2>1, <2>2 DEF RunningValue
<1> QED
  BY <1>1, <1>2, <1>5, <1>6

\* The digits before others count for as many powers of ten as those are.
LEMMA ValueOfConcat ==
  ASSUME NEW s \in Seq(Nat), NEW t \in Seq(Nat)
  PROVE  DigitsValue(s \o t) = DigitsValue(s) * PowerOfTen[Len(t)] + DigitsValue(t)
<1>1. /\ s \o t \in Seq(Nat) /\ Len(s \o t) = Len(s) + Len(t)
      /\ Len(s) \in Nat /\ Len(t) \in Nat
      /\ \A i \in 1..Len(s) : (s \o t)[i] = s[i] /\ s[i] \in Nat
      /\ \A i \in 1..Len(t) : (s \o t)[Len(s) + i] = t[i] /\ t[i] \in Nat
  OBVIOUS
<1>2. PICK u : RunningValue(u, s \o t) /\ DigitsValue(s \o t) = u[Len(s) + Len(t)]
  BY <1>1, RunningValues
<1>3. PICK v : RunningValue(v, s) /\ DigitsValue(s) = v[Len(s)]
  BY RunningValues
<1>4. PICK w : RunningValue(w, t) /\ DigitsValue(t) = w[Len(t)]
  BY RunningValues
<1>5. /\ u[0] = 0 /\ v[0] = 0 /\ w[0] = 0
      /\ \A i \in 0..Len(s) : v[i] \in Nat
      /\ \A i \in 0..Len(t) : w[i] \in Nat
      /\ \A i \in 1..Len(s) : u[i] = 10 * u[i - 1] + s[i] /\ v[i] = 10 * v[i - 1] + s[i]
      /\ \A i \in 1..Len(t) : /\ u[Len(s) + i] = 10 * u[Len(s) + (i - 1)] + t[i]
                              /\ w[i] = 10 * w[i - 1] + t[i]
  <2>1. \A i \in 1..Len(t) : Len(s) + i \in 1..(Len(s) + Len(t))
                             /\ (Len(s) + i) - 1 = Len(s) + (i - 1)
    BY <1>1
  <2>2. \A i \in 1..Len(s) : i \in 1..(Len(s) + Len(t))
    BY <1>1
  <2>3. /\ v[0] = 0 /\ w[0] = 0
        /\ \A i \in 0..Len(s) : v[i] \in Nat
        /\ \A i \in 0..Len(t) : w[i] \in Nat
        /\ \A i \in 1..Len(s) : v[i] = 10 * v[i - 1] + s[i]
        /\ \A i \in 1..Len(t) : w[i] = 10 * w[i - 1] + t[i]
    BY <1>3, <1>4 DEF RunningValue
  <2>4. \A i \in 1..(Len(s) + Len(t)) : u[i] = 10 * u[i - 1] + (s \o t)[i]
    BY <1>1, <1>2 DEF RunningValue
  <2>5. \A i \in 1..Len(s) : u[i] = 10 * u[i - 1] + s[i]
    BY <1>1, <2>2, <2>4
  <2>6. \A i \in 1..Len(t) : u[Len(s) + i] = 10 * u[Len(s) + (i - 1)] + t[i]
    BY <1>1, <2>1, <2>4
  <2>7. u[0] = 0
    BY <1>2 DEF RunningValue
  <2> QED
    BY <2>3, <2>5, <2>6, <2>7
<1> DEFINE same == {i \in Nat : i <= Len(s) => u[i] = v[i]}
           shifted == {i \in Nat : i <= Len(t) =>
                         u[Len(s) + i] = v[Len(s)] * PowerOfTen[i] + w[i]}
<1>6. ASSUME NEW i \in Nat, \A j \in Nat : j < i => j \in same
      PROVE  i \in same
  <2>1. CASE i = 0
    BY <1>5, <2>1
  <2>2. CASE i # 0 /\ i <= Len(s)
    <3>1. i - 1 \in Nat /\ i - 1 < i /\ i - 1 <= Len(s) /\ i \in 1..Len(s)
      BY <1>1, <1>6, <2>2
    <3>2. u[i - 1] = v[i - 1]
      BY <1>6, <3>1
    <3>3. u[i] = v[i]
      BY <1>5, <3>1, <3>2
    <3> QED
      BY <1>6, <3>3
  <2>3. CASE ~(i <= Len(s))
    BY <1>6, <2>3
  <2> QED
    BY <2>1, <2>2, <2>3
<1>7. u[Len(s)] = v[Len(s)] /\ v[Len(s)] \in Nat
  <2>1. \A i \in Nat : i \in same
    <3> HIDE DEF same
    <3> QED
      BY <1>6, Induction
  <2> QED
    BY <1>1, <1>5, <2>1
<1>8. ASSUME NEW i \in Nat, \A j \in Nat : j < i => j \in shifted
      PROVE  i \in shifted
  <2>1. CASE i = 0
    <3>1. Len(s) + i = Len(s) /\ PowerOfTen[i] = 1 /\ w[i] = 0
      BY <1>1, <1>5, <2>1, Powers
    <3>2. u[Len(s) + i] = v[Len(s)] * PowerOfTen[i] + w[i]
      BY <1>7, <3>1
    <3> QED
      BY <1>8, <3>2
  <2>2. CASE i # 0 /\ i <= Len(t)
    <3>1. i - 1 \in shifted /\ i \in 1..Len(t) /\ i - 1 \in Nat /\ i = (i - 1) + 1
      BY <1>1, <1>8, <2>2
    <3> DEFINE p == PowerOfTen[i - 1]
               a == v[Len(s)]
               b == w[i - 1]
    <3>2. p \in Nat /\ PowerOfTen[i] = 10 * p
      BY <3>1, Powers
    <3>3. b \in Nat /\ t[i] \in Nat /\ w[i] = 10 * b + t[i]
      BY <1>1, <1>5, <3>1
    <3>4. u[Len(s) + i] = 10 * (a * p + b) + t[i]
      BY <1>1, <1>5, <2>2, <3>1
    <3>5. 10 * (a * p + b) + t[i] = a * (10 * p) + (10 * b + t[i])
      <4>1. a \in Nat
        BY <1>7
      <4> HIDE DEF a, b, p
      <4> QED
        BY <3>2, <3>3, <4>1
    <3> QED
      BY <3>2, <3>3, <3>4, <3>5
  <2>3. CASE ~(i <= Len(t))
    BY <1>8, <2>3
  <2> QED
    BY <2>1, <2>2, <2>3
<1>9. Len(t) \in shifted
  <2>1. \A i \in Nat : i \in shifted
    <3> HIDE DEF shifted
    <3> QED
      BY <1>8, Induction
  <2> QED
    BY <1>1, <2>1
<1> QED
  BY <1>1, <1>2, <1>3, <1>4, <1>9

\* One digit is its own value, and another one after the rest is added to ten times that.
LEMMA ValueOfAppend ==
  ASSUME NEW s \in Seq(Nat), NEW d \in Nat
  PROVE  /\ DigitsValue(<<d>>) = d
         /\ DigitsValue(Append(s, d)) = 10 * DigitsValue(s) + d
<1>1. <<d>> \in Seq(Nat) /\ Len(<<d>>) = 1 /\ <<d>>[1] = d /\ Append(s, d) = s \o <<d>>
  OBVIOUS
<1>2. PICK v : RunningValue(v, <<d>>) /\ DigitsValue(<<d>>) = v[1]
  BY <1>1, RunningValues
<1>3. v[0] = 0 /\ v[1] = 10 * v[0] + d
  <2>1. v[1] = 10 * v[1 - 1] + <<d>>[1]
    BY <1>1, <1>2 DEF RunningValue
  <2> QED
    BY <1>1, <1>2, <2>1 DEF RunningValue
<1>4. DigitsValue(<<d>>) = d
  BY <1>2, <1>3
<1>5. PowerOfTen[1] = 10
  <2>1. PowerOfTen[0 + 1] = 10 * PowerOfTen[0]
    BY Powers, 0 \in Nat, Zenon
  <2> QED
    BY <2>1, Powers
<1>6. DigitsValue(s \o <<d>>) = DigitsValue(s) * PowerOfTen[1] + DigitsValue(<<d>>)
  BY <1>1, ValueOfConcat
<1>7. DigitsValue(s) \in Nat
  BY ValueIsNat
<1> QED
  BY <1>1, <1>4, <1>5, <1>6, <1>7

\* So many decimal digits come to less than that power of ten.
LEMMA ValueBound ==
  ASSUME NEW s \in Seq(Digit)
  PROVE  DigitsValue(s) < PowerOfTen[Len(s)]
<1>1. s \in Seq(Nat) /\ Len(s) \in Nat /\ \A i \in 1..Len(s) : s[i] \in 0..9
  BY DEF Digit
<1>2. PICK v : RunningValue(v, s) /\ DigitsValue(s) = v[Len(s)]
  BY <1>1, RunningValues
<1>3. /\ v[0] = 0 /\ \A i \in 0..Len(s) : v[i] \in Nat
      /\ \A i \in 1..Len(s) : v[i] = 10 * v[i - 1] + s[i]
  BY <1>2 DEF RunningValue
<1> DEFINE small == {i \in Nat : i <= Len(s) => v[i] < PowerOfTen[i]}
<1>4. ASSUME NEW i \in Nat, \A j \in Nat : j < i => j \in small
      PROVE  i \in small
  <2>1. CASE i = 0
    BY <1>3, <2>1, Powers
  <2>2. CASE i # 0 /\ i <= Len(s)
    <3>1. i - 1 \in small /\ i \in 1..Len(s) /\ i - 1 \in Nat /\ i = (i - 1) + 1
      BY <1>1, <1>4, <2>2
    <3> DEFINE p == PowerOfTen[i - 1]
               a == v[i - 1]
               d == s[i]
    <3>2. PowerOfTen[i] = 10 * p /\ p \in Nat
      BY <3>1, Powers
    <3>3. a < p /\ a \in Nat /\ d \in 0..9
      BY <1>1, <1>3, <2>2, <3>1
    <3>4. v[i] = 10 * a + d
      BY <1>3, <3>1
    <3>5. 10 * a + d < 10 * p
      <4> HIDE DEF a, d, p
      <4> QED
        BY <3>2, <3>3
    <3> QED
      BY <1>4, <3>2, <3>4, <3>5
  <2>3. CASE ~(i <= Len(s))
    BY <1>4, <2>3
  <2> QED
    BY <2>1, <2>2, <2>3
<1>5. \A i \in Nat : i \in small
  <2> HIDE DEF small
  <2> QED
    BY <1>4, Induction
<1> QED
  BY <1>1, <1>2, <1>5

\* A power of ten is the product of those whose exponents add up to its own.
LEMMA PowerOfSum ==
  ASSUME NEW m \in Nat, NEW n \in Nat
  PROVE  PowerOfTen[m + n] = PowerOfTen[m] * PowerOfTen[n]
<1> DEFINE product == {i \in Nat : PowerOfTen[m + i] = PowerOfTen[m] * PowerOfTen[i]}
<1>1. ASSUME NEW i \in Nat, \A j \in Nat : j < i => j \in product
      PROVE  i \in product
  <2>1. CASE i = 0
    <3>1. m + i = m /\ PowerOfTen[i] = 1 /\ PowerOfTen[m] \in Nat
      BY <2>1, Powers
    <3> QED
      BY <1>1, <3>1
  <2>2. CASE i # 0
    <3>1. i - 1 \in product /\ i - 1 \in Nat /\ i = (i - 1) + 1
          /\ m + (i - 1) \in Nat /\ m + i = (m + (i - 1)) + 1
      BY <1>1, <2>2
    <3> DEFINE p == PowerOfTen[m]
               q == PowerOfTen[i - 1]
    <3>2. PowerOfTen[i] = 10 * q /\ q \in Nat /\ p \in Nat
      BY <3>1, Powers
    <3>3. PowerOfTen[m + i] = 10 * (p * q)
      BY <3>1, Powers
    <3>4. 10 * (p * q) = p * (10 * q)
      <4> HIDE DEF p, q
      <4> QED
        BY <3>2
    <3> QED
      BY <1>1, <3>2, <3>3, <3>4
  <2> QED
    BY <2>1, <2>2
<1>2. \A i \in Nat : i \in product
  <2> HIDE DEF product
  <2> QED
    BY <1>1, Induction
<1> QED
  BY <1>2

\* The digits of a number come to that number, and are no more than they need be.
LEMMA DigitsOfNumber ==
  ASSUME NEW n \in Nat
  PROVE  /\ DigitsOf[n] \in Seq(Digit) /\ DigitsOf[n] \in Seq(Nat) /\ DigitsOf[n] # <<>>
         /\ DigitsValue(DigitsOf[n]) = n
         /\ \A k \in Nat : k > 0 /\ n < PowerOfTen[k] => Len(DigitsOf[n]) <= k
         /\ n < 10 => DigitsOf[n] = <<n>>
<1> DEFINE V == Seq(Nat)
           stop == 0..9
           base == [i \in 0..9 |-> <<i>>]
           prev == [i \in Nat |-> i \div 10]
           step == [i \in Nat |-> [s \in V |-> Append(s, i % 10)]]
           Solves(f) == f = [i \in Nat |-> IF i < 10 THEN <<i>> ELSE Append(f[i \div 10], i % 10)]
<1>1. ASSUME NEW i \in Nat
      PROVE  /\ i \div 10 \in Nat /\ i % 10 \in 0..9 /\ i = 10 * (i \div 10) + (i % 10)
             /\ i >= 10 => i \div 10 < i
  <2>1. 10 \in Nat /\ 10 > 0 /\ i \in Int
    BY <1>1
  <2>2. i \div 10 \in Nat /\ i % 10 \in 0..(10 - 1) /\ i = (i \div 10) * 10 + (i % 10)
    BY <1>1, <2>1, Division
  <2>3. i >= 10 => i \div 10 < i
    BY <1>1
  <2> QED
    BY <2>2, <2>3
<1>2. IsRecursion(Nat, V, stop, base, prev, step)
  <2>1. Nat \subseteq Nat /\ stop \subseteq Nat /\ \A i \in stop : base[i] \in V
    OBVIOUS
  <2>2. \A i \in Nat \ stop : i \in Nat /\ i >= 10 /\ prev[i] = i \div 10
    OBVIOUS
  <2>3. \A i \in Nat \ stop : prev[i] \in Nat /\ prev[i] < i
    <3> HIDE DEF prev, stop
    <3> QED
      BY <1>1, <2>2
  <2>4. ASSUME NEW i \in Nat \ stop, NEW s \in V PROVE step[i][s] \in V
    <3>1. step[i][s] = Append(s, i % 10) /\ i % 10 \in Nat
      BY <1>1, <2>2
    <3> QED
      BY <3>1
  <2> HIDE DEF V, stop, base, prev, step
  <2> QED
    BY <2>1, <2>3, <2>4 DEF IsRecursion
<1>3. \E f : IsSolution(f, Nat, V, stop, base, prev, step)
  BY <1>2, Recursion, Zenon
<1>4. PICK f : IsSolution(f, Nat, V, stop, base, prev, step)
  BY <1>3
<1>5. f \in [Nat -> V] /\ \A i \in Nat : f[i] = IF i < 10 THEN <<i>> ELSE Append(f[i \div 10], i % 10)
  <2>1. f \in [Nat -> V]
    BY <1>4 DEF IsSolution
  <2>2. ASSUME NEW i \in Nat, i < 10 PROVE f[i] = <<i>>
    <3>1. i \in stop /\ base[i] = <<i>>
      BY <2>2
    <3> HIDE DEF stop, base, prev, step
    <3> QED
      BY <1>4, <3>1 DEF IsSolution
  <2>3. ASSUME NEW i \in Nat, ~(i < 10) PROVE f[i] = Append(f[i \div 10], i % 10)
    <3>1. i \div 10 \in Nat /\ f[i \div 10] \in V /\ prev[i] = i \div 10 /\ i \notin stop
      BY <1>1, <2>1, <2>3
    <3>2. f[i] = step[i][f[i \div 10]]
      <4> HIDE DEF stop, base, prev, step
      <4> QED
        BY <1>4, <3>1 DEF IsSolution
    <3> QED
      BY <3>1, <3>2
  <2> QED
    BY <2>1, <2>2, <2>3
<1>6. Solves(f)
  <2> HIDE DEF V
  <2> QED
    BY <1>5
<1>7. Solves(DigitsOf)
  BY <1>6, Zenon DEF DigitsOf
<1>8. \A i \in Nat : DigitsOf[i] = IF i < 10 THEN <<i>> ELSE Append(DigitsOf[i \div 10], i % 10)
  BY <1>7
<1> DEFINE Good(i) == /\ DigitsOf[i] \in Seq(Digit) /\ DigitsOf[i] # <<>>
                      /\ DigitsValue(DigitsOf[i]) = i
                      /\ \A k \in Nat : k > 0 /\ i < PowerOfTen[k] => Len(DigitsOf[i]) <= k
           good == {i \in Nat : Good(i)}
<1>9. ASSUME NEW i \in Nat, \A j \in Nat : j < i => j \in good
      PROVE  Good(i)
  <2>1. CASE i < 10
    <3>1. DigitsOf[i] = <<i>> /\ i \in Digit
      <4>1. i \in 0..9
        BY <1>9, <2>1
      <4> QED
        BY <1>8, <1>9, <2>1, <4>1 DEF Digit
    <3>2. <<>> \in Seq(Nat) /\ i \in Nat
      BY <1>9
    <3>3. DigitsValue(<<i>>) = i
      BY <3>2, ValueOfAppend
    <3> QED
      BY <3>1, <3>3
  <2>2. CASE ~(i < 10)
    <3> DEFINE q == i \div 10
               d == i % 10
               s == DigitsOf[q]
    <3>1. q \in Nat /\ q < i /\ d \in 0..9 /\ i = 10 * q + d
      BY <1>1, <1>9, <2>2
    <3>2. DigitsOf[i] = Append(s, d)
      BY <1>8, <1>9, <2>2
    <3>3. Good(q)
      <4> HIDE DEF Good, q
      <4> QED
        BY <1>9, <3>1
    <3>4. s \in Seq(Digit) /\ s \in Seq(Nat) /\ d \in Digit /\ d \in Nat /\ DigitsValue(s) = q
      BY <3>1, <3>3 DEF Digit
    <3> HIDE DEF q, d
    <3>5. Append(s, d) \in Seq(Digit) /\ Append(s, d) # <<>> /\ Len(Append(s, d)) = Len(s) + 1
      BY <3>4
    <3>6. DigitsValue(Append(s, d)) = i
      BY <3>1, <3>4, ValueOfAppend
    <3>7. ASSUME NEW k \in Nat, k > 0, i < PowerOfTen[k] PROVE Len(s) + 1 <= k
      <4>1. k - 1 \in Nat /\ k = (k - 1) + 1 /\ PowerOfTen[k] = 10 * PowerOfTen[k - 1]
            /\ PowerOfTen[k - 1] \in Nat
        BY <3>7, Powers
      <4>2. q < PowerOfTen[k - 1]
        BY <3>1, <3>7, <4>1
      <4>3. k - 1 # 0
        BY <1>9, <2>2, <3>7, <4>1, Powers
      <4>4. Len(s) <= k - 1
        BY <3>3, <4>1, <4>2, <4>3
      <4> QED
        BY <3>4, <3>7, <4>4
    <3> QED
      BY <3>2, <3>5, <3>6, <3>7
  <2> QED
    BY <2>1, <2>2
<1>10. \A i \in Nat : i \in good
  <2> HIDE DEF Good
  <2>1. \A i \in Nat : (\A j \in Nat : j < i => j \in good) => i \in good
    BY <1>9
  <2> HIDE DEF good
  <2> QED
    BY <2>1, Induction
<1>11. Good(n)
  <2> HIDE DEF Good
  <2> QED
    BY <1>10
<1>12. n < 10 => DigitsOf[n] = <<n>>
  BY <1>8
<1>13. DigitsOf[n] \in Seq(Nat)
  <2>1. Digit \subseteq Nat
    BY DEF Digit
  <2>2. DigitsOf[n] \in Seq(Digit)
    BY <1>11
  <2> QED
    BY <2>1, <2>2, SeqOfSuperset
<1> QED
  BY <1>11, <1>12, <1>13

-----------------------------------------------------------------------------
(* The texts of amounts.                                                   *)

\* Digits are sequences of digits, and the other way round.
LEMMA DigitsAreText ==
  ASSUME NEW s \in Seq(Character)
  PROVE  /\ AllDigits(s) <=> s # <<>> /\ s \in Seq(Digit)
         /\ s \in Seq(Digit) => s \in Seq(Nat)
<1>1. Len(s) \in Nat /\ DOMAIN s = 1..Len(s) /\ s = [i \in 1..Len(s) |-> s[i]]
  OBVIOUS
<1>2. ToSet(s) \subseteq Digit <=> \A i \in 1..Len(s) : s[i] \in Digit
  BY <1>1 DEF ToSet
<1>3. (\A i \in 1..Len(s) : s[i] \in Digit) => s \in Seq(Digit)
  BY <1>1
<1>4. s \in Seq(Digit) => \A i \in 1..Len(s) : s[i] \in Digit
  BY <1>1
<1>5. Digit \subseteq Nat
  BY DEF Digit
<1> QED
  BY <1>2, <1>3, <1>4, <1>5, SeqOfSuperset DEF AllDigits

\* A scaled fraction is the fraction's characters, as many as there are, then zeros.
LEMMA ScaledText ==
  ASSUME NEW s \in Seq(Character), NEW d \in Nat
  PROVE  /\ Scaled(s, d) \in Seq(Character) /\ Len(Scaled(s, d)) = d
         /\ \A i \in 1..d : Scaled(s, d)[i] = IF i <= Len(s) THEN s[i] ELSE 0
<1>1. Len(s) \in Nat /\ \A i \in 1..Len(s) : s[i] \in Character
  OBVIOUS
<1>2. CASE Len(s) > d
  <2>1. /\ SubSeq(s, 1, d) \in Seq(Character) /\ Len(SubSeq(s, 1, d)) = d
        /\ \A i \in 1..d : SubSeq(s, 1, d)[i] = s[i]
    BY <1>1, <1>2
  <2> QED
    BY <1>1, <1>2, <2>1 DEF Scaled
<1>3. CASE ~(Len(s) > d)
  <2> DEFINE z == Zeros(d - Len(s))
  <2>1. d - Len(s) \in Nat
    BY <1>1, <1>3
  <2>2. z \in Seq({0}) /\ Len(z) = d - Len(s)
    BY <2>1, ValueOfZeros
  <2>3. {0} \subseteq Character
    BY DEF Character, Digit
  <2>4. z \in Seq(Character) /\ \A i \in 1..Len(z) : z[i] = 0
    BY <2>2, <2>3, SeqOfSuperset
  <2> HIDE DEF z
  <2>5. /\ s \o z \in Seq(Character) /\ Len(s \o z) = Len(s) + Len(z)
        /\ \A i \in 1..Len(s) : (s \o z)[i] = s[i]
        /\ \A i \in 1..Len(z) : (s \o z)[Len(s) + i] = z[i]
    BY <2>4
  <2>6. ASSUME NEW i \in 1..d, ~(i <= Len(s)) PROVE (s \o z)[i] = 0
    <3>1. i - Len(s) \in 1..Len(z) /\ Len(s) + (i - Len(s)) = i
      BY <1>1, <2>2, <2>6
    <3> QED
      BY <2>4, <2>5, <3>1
  <2>7. Scaled(s, d) = s \o z
    BY <1>3 DEF Scaled, z
  <2> QED
    BY <1>1, <2>1, <2>2, <2>5, <2>6, <2>7
<1> QED
  BY <1>2, <1>3

\* The fraction that the TypeScript parser reads is what stands before a further point.
LEMMA FirstFractionText ==
  ASSUME NEW s \in Seq(Character)
  PROVE  /\ FirstFraction(s) \in Seq(Character) /\ Len(FirstFraction(s)) <= Len(s)
         /\ \A i \in 1..Len(FirstFraction(s)) : FirstFraction(s)[i] = s[i]
         /\ Len(FirstFraction(s)) < Len(s) => s[Len(FirstFraction(s)) + 1] = Point
         /\ (\A i \in 1..Len(s) : s[i] # Point) => FirstFraction(s) = s
<1> DEFINE points == {i \in DOMAIN s : s[i] = Point}
           first == CHOOSE i \in points : \A j \in points : i <= j
<1>1. Len(s) \in Nat /\ DOMAIN s = 1..Len(s)
  OBVIOUS
<1>2. CASE points = {}
  <2>1. FirstFraction(s) = s
    BY <1>2 DEF FirstFraction
  <2> QED
    BY <1>1, <2>1
<1>3. CASE points # {}
  <2>1. points \subseteq Nat
    BY <1>1
  <2>2. first \in points
    <3>1. \E i \in points : \A j \in points : i <= j
      BY <1>3, <2>1, FirstOf
    <3> QED
      BY <3>1, Zenon
  <2>3. first \in 1..Len(s) /\ s[first] = Point /\ FirstFraction(s) = SubSeq(s, 1, first - 1)
    BY <1>1, <1>3, <2>2 DEF FirstFraction
  <2> HIDE DEF first
  <2>4. /\ SubSeq(s, 1, first - 1) \in Seq(Character) /\ Len(SubSeq(s, 1, first - 1)) = first - 1
        /\ \A i \in 1..(first - 1) : SubSeq(s, 1, first - 1)[i] = s[i]
    BY <1>1, <2>3
  <2> QED
    BY <1>1, <2>3, <2>4
<1> QED
  BY <1>2, <1>3

\* What the integer parser of Go makes of a text.
LEMMA SetStringResult ==
  ASSUME NEW s \in Seq(Character)
  PROVE  /\ AllDigits(s) => SetString(s) = {DigitsValue(s)} /\ DigitsValue(s) \in Nat
         /\ ~AllDigits(s) => \A n \in SetString(s) : s # <<>> /\ s[1] \in {Minus, Plus}
         /\ SetString(s) \subseteq Int
<1>1. AllDigits(s) => SetString(s) = {DigitsValue(s)} /\ DigitsValue(s) \in Nat
  BY DigitsAreText, ValueIsNat DEF SetString
<1>2. ASSUME ~AllDigits(s), NEW n \in SetString(s)
      PROVE  s # <<>> /\ s[1] \in {Minus, Plus} /\ n \in Int
  <2>1. s # <<>> /\ Head(s) \in {Minus, Plus} /\ AllDigits(Tail(s))
        /\ n = IF Head(s) = Minus THEN -DigitsValue(Tail(s)) ELSE DigitsValue(Tail(s))
    BY <1>2 DEF SetString, Fail
  <2>2. Tail(s) \in Seq(Character) /\ Head(s) = s[1]
    BY <2>1
  <2>3. DigitsValue(Tail(s)) \in Nat
    BY <2>1, <2>2, DigitsAreText, ValueIsNat
  <2> QED
    BY <2>1, <2>2, <2>3
<1> QED
  BY <1>1, <1>2

\* The signs, the point and the rest are no digits.
LEMMA NoDigits == Minus \notin Digit /\ Plus \notin Digit /\ Point \notin Digit /\ 0 \in Digit
  BY DEF Minus, Plus, Point, Digit

\* The parsers of the two languages never read two amounts from one text.
LEMMA ParsersAgree ==
  ASSUME NEW t, IsText(t), NEW d \in Nat,
         NEW n \in GoParseAmount(t, d), NEW m \in JsParseAmount(t, d)
  PROVE  n = m
<1> DEFINE whole == t.whole
           frac == t.frac
           ff == FirstFraction(frac)
<1>1. whole \in Seq(Character) /\ frac \in Seq(Character)
  <2>1. whole \in Seq(Character \ {Point}) /\ frac \in Seq(Character)
        /\ Character \ {Point} \subseteq Character
    BY DEF IsText
  <2> QED
    BY <2>1, SeqOfSuperset
<1>2. CASE ~t.point
  <2>1. AllDigits(whole) /\ m = DigitsValue(whole) /\ n \in SetString(whole)
    BY <1>2 DEF GoParseAmount, JsParseAmount, Fail
  <2> QED
    BY <1>1, <2>1, SetStringResult
<1>3. CASE t.point
  <2>1. /\ whole = <<>> \/ AllDigits(whole)
        /\ ff = <<>> \/ AllDigits(ff)
        /\ m = DigitsValue(whole) * PowerOfTen[d] + DigitsValue(Scaled(ff, d))
    BY <1>3 DEF JsParseAmount, Fail
  <2>2. PICK w \in SetString(whole) :
          \/ frac = <<>> /\ n = w * PowerOfTen[d]
          \/ frac # <<>> /\ \E f \in SetString(Scaled(frac, d)) : n = w * PowerOfTen[d] + f
    BY <1>3 DEF GoParseAmount
  <2>3. w = DigitsValue(whole) /\ w \in Nat /\ PowerOfTen[d] \in Nat
    BY <1>1, <2>1, <2>2, SetStringResult, Powers
  <2>4. /\ ff \in Seq(Character) /\ Len(ff) \in Nat /\ Len(frac) \in Nat /\ Len(ff) <= Len(frac)
        /\ \A i \in 1..Len(ff) : ff[i] = frac[i]
        /\ Len(ff) < Len(frac) => frac[Len(ff) + 1] = Point
    BY <1>1, FirstFractionText
  <2>5. /\ Scaled(frac, d) \in Seq(Character) /\ Len(Scaled(frac, d)) = d
        /\ \A i \in 1..d : Scaled(frac, d)[i] = IF i <= Len(frac) THEN frac[i] ELSE 0
        /\ Scaled(ff, d) \in Seq(Character) /\ Len(Scaled(ff, d)) = d
        /\ \A i \in 1..d : Scaled(ff, d)[i] = IF i <= Len(ff) THEN ff[i] ELSE 0
    BY <1>1, <2>4, ScaledText
  <2>6. CASE frac = <<>>
    <3>1. Len(frac) = 0 /\ Len(ff) = 0
      BY <2>4, <2>6
    <3>2. Zeros(d) \in Seq({0}) /\ Len(Zeros(d)) = d /\ DigitsValue(Zeros(d)) = 0
      BY ValueOfZeros
    <3>3. Scaled(ff, d) = Zeros(d)
      <4>1. \A i \in 1..d : Scaled(ff, d)[i] = 0 /\ Zeros(d)[i] = 0
        BY <2>5, <3>1, <3>2
      <4> QED
        BY <2>5, <3>2, <4>1, SeqEqual
    <3> QED
      BY <2>1, <2>2, <2>3, <2>6, <3>2, <3>3
  <2>7. CASE frac # <<>>
    <3>1. PICK f \in SetString(Scaled(frac, d)) : n = w * PowerOfTen[d] + f
      BY <2>2, <2>7
    <3>2. AllDigits(Scaled(frac, d))
      <4>1. SUFFICES ASSUME ~AllDigits(Scaled(frac, d)) PROVE FALSE
        OBVIOUS
      <4>2. Scaled(frac, d) # <<>> /\ Scaled(frac, d)[1] \in {Minus, Plus}
        BY <2>5, <3>1, <4>1, SetStringResult
      <4>3. 1 \in 1..d /\ 1 <= Len(frac)
        BY <1>1, <2>4, <2>5, <2>7, <4>2
      <4>4. frac[1] \in {Minus, Plus}
        BY <2>5, <4>2, <4>3
      <4>5. Len(ff) # 0 /\ ff[1] \in {Minus, Plus}
        BY <2>4, <4>3, <4>4 DEF Minus, Plus, Point
      <4>6. AllDigits(ff) /\ 1 \in DOMAIN ff
        BY <2>1, <2>4, <4>5
      <4> QED
        BY <4>5, <4>6, NoDigits DEF AllDigits, ToSet
    <3>3. Scaled(ff, d) = Scaled(frac, d)
      <4>1. \A i \in 1..d : Scaled(frac, d)[i] # Point
        BY <2>5, <3>2, NoDigits DEF AllDigits, ToSet
      <4>2. Len(ff) < d => Len(ff) = Len(frac)
        <5>1. SUFFICES ASSUME Len(ff) < d, Len(ff) < Len(frac) PROVE FALSE
          BY <2>4
        <5>2. Len(ff) + 1 \in 1..d /\ Len(ff) + 1 <= Len(frac)
          BY <2>4, <5>1
        <5> QED
          BY <2>4, <2>5, <4>1, <5>1, <5>2
      <4>3. \A i \in 1..d : Scaled(ff, d)[i] = Scaled(frac, d)[i]
        BY <2>4, <2>5, <4>2
      <4> QED
        BY <2>5, <4>3, SeqEqual
    <3> QED
      BY <2>1, <2>3, <2>5, <3>1, <3>2, <3>3, SetStringResult
  <2> QED
    BY <2>6, <2>7
<1> QED
  BY <1>2, <1>3

\* What is read is an integer, and never negative in TypeScript.
LEMMA ParsedNumbers ==
  ASSUME NEW t, IsText(t), NEW d \in Nat
  PROVE  GoParseAmount(t, d) \subseteq Int /\ JsParseAmount(t, d) \subseteq Nat
<1> DEFINE frac == t.frac
           ff == FirstFraction(frac)
           p == PowerOfTen[d]
<1>1. t.whole \in Seq(Character) /\ frac \in Seq(Character)
  <2>1. t.whole \in Seq(Character \ {Point}) /\ frac \in Seq(Character)
        /\ Character \ {Point} \subseteq Character
    BY DEF IsText
  <2> QED
    BY <2>1, SeqOfSuperset
<1>2. p \in Nat
  BY Powers
<1>3. SetString(t.whole) \subseteq Int /\ SetString(Scaled(frac, d)) \subseteq Int
  BY <1>1, ScaledText, SetStringResult
<1>4. \A n \in SetString(t.whole) : n \in Int /\ n * p \in Int
      /\ \A f \in SetString(Scaled(frac, d)) : n * p + f \in Int
  <2> HIDE DEF p
  <2> QED
    BY <1>2, <1>3
<1>5. GoParseAmount(t, d) \subseteq Int
  BY <1>3, <1>4 DEF GoParseAmount
<1>6. AllDigits(t.whole) => DigitsValue(t.whole) \in Nat
  BY <1>1, SetStringResult
<1>7. ASSUME t.whole = <<>> \/ AllDigits(t.whole), ff = <<>> \/ AllDigits(ff)
      PROVE  DigitsValue(t.whole) * p + DigitsValue(Scaled(ff, d)) \in Nat
  <2>1. DigitsValue(t.whole) \in Nat
    BY <1>6, <1>7, ValueOfZeros
  <2>2. ff \in Seq(Character) /\ Len(ff) \in Nat
        /\ \A i \in 1..Len(ff) : ff[i] \in Digit
    <3>1. ff \in Seq(Character)
      BY <1>1, FirstFractionText
    <3>2. ff = <<>> \/ ff \in Seq(Digit)
      BY <1>7, <3>1, DigitsAreText
    <3> QED
      BY <3>1, <3>2
  <2>3. Scaled(ff, d) \in Seq(Digit)
    <3>1. /\ Scaled(ff, d) \in Seq(Character) /\ Len(Scaled(ff, d)) = d
          /\ \A i \in 1..d : Scaled(ff, d)[i] = IF i <= Len(ff) THEN ff[i] ELSE 0
      BY <2>2, ScaledText
    <3>2. \A i \in 1..d : Scaled(ff, d)[i] \in Digit
      BY <2>2, <3>1, NoDigits
    <3> QED
      BY <3>1, <3>2
  <2>4. DigitsValue(Scaled(ff, d)) \in Nat
    BY <2>3, ValueIsNat, SeqOfSuperset DEF Digit
  <2> HIDE DEF p
  <2> QED
    BY <1>2, <2>1, <2>4
<1>8. JsParseAmount(t, d) \subseteq Nat
  BY <1>6, <1>7 DEF JsParseAmount, Fail
<1> QED
  BY <1>5, <1>8

\* A sequence cut in two is the one part after the other.
LEMMA CutInTwo ==
  ASSUME NEW S, NEW s \in Seq(S), NEW d \in Nat, d <= Len(s)
  PROVE  /\ SubSeq(s, 1, d) \in Seq(S) /\ SubSeq(s, d + 1, Len(s)) \in Seq(S)
         /\ Len(SubSeq(s, d + 1, Len(s))) = Len(s) - d
         /\ s = SubSeq(s, 1, d) \o SubSeq(s, d + 1, Len(s))
<1> DEFINE left == SubSeq(s, 1, d)
           right == SubSeq(s, d + 1, Len(s))
<1>1. left \in Seq(S) /\ Len(left) = d /\ \A i \in 1..d : left[i] = s[i]
  OBVIOUS
<1>2. right \in Seq(S) /\ Len(right) = Len(s) - d
      /\ \A i \in 1..(Len(s) - d) : right[i] = s[d + i]
  OBVIOUS
<1> HIDE DEF left, right
<1>3. /\ left \o right \in Seq(S) /\ Len(left \o right) = Len(left) + Len(right)
      /\ \A i \in 1..Len(left) : (left \o right)[i] = left[i]
      /\ \A i \in 1..Len(right) : (left \o right)[Len(left) + i] = right[i]
  BY <1>1, <1>2
<1>4. ASSUME NEW i \in 1..Len(s) PROVE (left \o right)[i] = s[i]
  <2>1. CASE i <= d
    BY <1>1, <1>3, <1>4, <2>1
  <2>2. CASE ~(i <= d)
    <3>1. i - d \in 1..Len(right) /\ i - d \in 1..(Len(s) - d) /\ d + (i - d) = i
      BY <1>2, <1>4, <2>2
    <3>2. (left \o right)[d + (i - d)] = right[i - d]
      BY <1>1, <1>3, <3>1
    <3>3. right[i - d] = s[d + (i - d)]
      BY <1>2, <3>1
    <3> QED
      BY <3>1, <3>2, <3>3
  <2> QED
    BY <2>1, <2>2
<1>5. Len(left \o right) = Len(s)
  BY <1>1, <1>2, <1>3
<1>6. s = left \o right
  BY <1>3, <1>4, <1>5, SeqEqual
<1> QED
  BY <1>1, <1>2, <1>6 DEF left, right

\* Both parsers read digits around a point as their multiple of 10^d, rounded down.
LEMMA PlainText ==
  ASSUME NEW t, IsText(t), t.point, AllDigits(t.whole), AllDigits(t.frac), NEW d \in Nat
  PROVE  LET exact    == DigitsValue(t.whole \o t.frac) * PowerOfTen[d]
             expected == {exact \div PowerOfTen[Len(t.frac)]}
         IN  /\ JsParseAmount(t, d) = expected
             /\ GoParseAmount(t, d) = IF d = 0 THEN Fail ELSE expected
<1> DEFINE whole == t.whole
           frac == t.frac
           len == Len(frac)
           w == DigitsValue(whole)
           f == DigitsValue(Scaled(frac, d))
           exact == DigitsValue(whole \o frac) * PowerOfTen[d]
<1>1. /\ whole \in Seq(Character) /\ frac \in Seq(Character)
      /\ whole \in Seq(Digit) /\ frac \in Seq(Digit)
      /\ whole \in Seq(Nat) /\ frac \in Seq(Nat) /\ frac # <<>> /\ whole # <<>>
      /\ len \in Nat /\ len > 0
  <2>1. whole \in Seq(Character \ {Point}) /\ frac \in Seq(Character)
        /\ Character \ {Point} \subseteq Character
    BY DEF IsText
  <2>2. whole \in Seq(Character)
    BY <2>1, SeqOfSuperset
  <2> QED
    BY <2>1, <2>2, DigitsAreText
<1>2. FirstFraction(frac) = frac
  <2>1. \A i \in 1..Len(frac) : frac[i] # Point
    BY <1>1, NoDigits
  <2> QED
    BY <1>1, <2>1, FirstFractionText
<1>3. JsParseAmount(t, d) = {w * PowerOfTen[d] + f}
  BY <1>2 DEF JsParseAmount
<1>4. /\ Scaled(frac, d) \in Seq(Character) /\ Len(Scaled(frac, d)) = d
      /\ Scaled(frac, d) \in Seq(Digit) /\ Scaled(frac, d) \in Seq(Nat)
  <2>1. /\ Scaled(frac, d) \in Seq(Character) /\ Len(Scaled(frac, d)) = d
        /\ \A i \in 1..d : Scaled(frac, d)[i] = IF i <= Len(frac) THEN frac[i] ELSE 0
    BY <1>1, ScaledText
  <2>2. \A i \in 1..d : Scaled(frac, d)[i] \in Digit
    BY <1>1, <2>1, NoDigits
  <2>3. Scaled(frac, d) \in Seq(Digit)
    BY <2>1, <2>2
  <2> QED
    BY <2>1, <2>3, DigitsAreText
<1>5. GoParseAmount(t, d) = IF d = 0 THEN Fail ELSE {w * PowerOfTen[d] + f}
  <2>1. SetString(whole) = {w}
    BY <1>1, SetStringResult
  <2>2. SetString(Scaled(frac, d)) = IF d = 0 THEN Fail ELSE {f}
    <3>1. CASE d = 0
      <4>1. Scaled(frac, d) = <<>>
        BY <1>4, <3>1
      <4> QED
        BY <3>1, <4>1 DEF SetString, AllDigits
    <3>2. CASE d # 0
      <4>1. AllDigits(Scaled(frac, d))
        BY <1>4, <3>2, DigitsAreText
      <4> QED
        BY <1>4, <3>2, <4>1, SetStringResult
    <3> QED
      BY <3>1, <3>2
  <2>3. GoParseAmount(t, d) =
          {n * PowerOfTen[d] + x : n \in SetString(whole), x \in SetString(Scaled(frac, d))}
    BY <1>1 DEF GoParseAmount
  <2> QED
    BY <2>1, <2>2, <2>3 DEF Fail
<1>6. Scaled(frac, d) = IF len <= d THEN frac \o Zeros(d - len) ELSE SubSeq(frac, 1, d)
  BY <1>1 DEF Scaled
<1>7. exact \div PowerOfTen[len] = w * PowerOfTen[d] + f
  <2> DEFINE P == PowerOfTen[d]
             L == PowerOfTen[len]
             v == DigitsValue(frac)
  <2>1. P \in Nat /\ P > 0 /\ L \in Nat /\ L > 0 /\ w \in Nat /\ v \in Nat /\ f \in Nat
    BY <1>1, <1>4, Powers, ValueIsNat
  <2>2. DigitsValue(whole \o frac) = w * L + v
    BY <1>1, ValueOfConcat
  <2>3. CASE len <= d
    <3> DEFINE rest == d - len
               R == PowerOfTen[rest]
    <3>1. rest \in Nat /\ len + rest = d
      BY <1>1, <2>3
    <3>2. R \in Nat /\ P = L * R
      <4>1. PowerOfTen[len + rest] = PowerOfTen[len] * PowerOfTen[rest]
        BY <1>1, <3>1, PowerOfSum
      <4> QED
        BY <3>1, <4>1, Powers
    <3>3. f = v * R
      <4>1. Scaled(frac, d) = frac \o Zeros(rest)
        BY <1>6, <2>3
      <4>2. Zeros(rest) \in Seq(Nat) /\ Len(Zeros(rest)) = rest /\ DigitsValue(Zeros(rest)) = 0
        BY <3>1, ValueOfZeros
      <4>3. DigitsValue(frac \o Zeros(rest)) = v * R + 0
        BY <1>1, <4>2, ValueOfConcat
      <4> HIDE DEF R, v
      <4> QED
        BY <2>1, <3>2, <4>1, <4>3
    <3>4. (w * P + f) * L = exact
      <4>1. exact = (w * L + v) * P
        BY <2>2
      <4> HIDE DEF w, P, L, v, R, f, exact
      <4>2. (w * P + v * R) * L = w * P * L + v * (R * L)
        BY <2>1, <3>2
      <4>3. (w * L + v) * P = w * L * P + v * P
        BY <2>1
      <4>4. w * P * L = w * L * P /\ R * L = P
        BY <2>1, <3>2
      <4> QED
        BY <3>3, <4>1, <4>2, <4>3, <4>4
    <3>5. w * P + f \in Int /\ exact \in Int /\ exact < (w * P + f) * L + L
      <4> HIDE DEF w, P, L, f, exact
      <4> QED
        BY <2>1, <3>4
    <3> HIDE DEF w, P, L, f, exact
    <3>6. exact \div L = w * P + f
      BY <2>1, <3>4, <3>5, Division
    <3> QED
      BY <3>6 DEF P, L
  <2>4. CASE ~(len <= d)
    <3> DEFINE rest == len - d
               R == PowerOfTen[rest]
               left == SubSeq(frac, 1, d)
               right == SubSeq(frac, d + 1, len)
               r == DigitsValue(right)
    <3>1. rest \in Nat /\ d + rest = len
      BY <1>1, <2>4
    <3>2. R \in Nat /\ L = P * R
      <4>1. PowerOfTen[d + rest] = PowerOfTen[d] * PowerOfTen[rest]
        BY <1>1, <3>1, PowerOfSum
      <4> QED
        BY <3>1, <4>1, Powers
    <3>3. /\ left \in Seq(Digit) /\ right \in Seq(Digit) /\ frac = left \o right
          /\ Len(right) = rest
      <4>1. d <= len
        BY <2>4, <1>1
      <4> QED
        BY <1>1, <4>1, CutInTwo
    <3>4. left \in Seq(Nat) /\ right \in Seq(Nat) /\ r \in Nat /\ r < R
      <4>1. left \in Seq(Nat) /\ right \in Seq(Nat)
        <5>1. Digit \subseteq Nat
          BY DEF Digit
        <5> HIDE DEF left, right
        <5> QED
          BY <3>3, <5>1, SeqOfSuperset
      <4> QED
        BY <3>3, <4>1, ValueIsNat, ValueBound
    <3>5. v = f * R + r
      <4>1. Scaled(frac, d) = left
        BY <1>6, <2>4
      <4>2. DigitsValue(left \o right) = DigitsValue(left) * R + r
        BY <3>3, <3>4, ValueOfConcat
      <4> QED
        BY <3>3, <4>1, <4>2
    <3>6. exact = (w * L + v) * P
      BY <2>2
    <3> HIDE DEF w, P, L, v, R, r, f, exact
    <3>7. exact = (w * P + f) * L + r * P
      <4>1. (w * L + (f * R + r)) * P = w * L * P + f * (R * P) + r * P
        BY <2>1, <3>2, <3>4
      <4>2. (w * P + f) * L = w * P * L + f * L
        BY <2>1
      <4>3. w * P * L = w * L * P /\ R * P = L
        BY <2>1, <3>2
      <4> QED
        BY <3>5, <3>6, <4>1, <4>2, <4>3
    <3>8. r * P \in Nat /\ r * P < L
      BY <2>1, <3>2, <3>4
    <3>9. w * P + f \in Int /\ (w * P + f) * L \in Int
      BY <2>1
    <3>10. exact \in Int /\ (w * P + f) * L <= exact /\ exact < (w * P + f) * L + L
      BY <2>1, <3>7, <3>8, <3>9
    <3>11. exact \div L = w * P + f
      BY <2>1, <3>9, <3>10, Division
    <3> QED
      BY <3>11 DEF P, L
  <2> QED
    BY <2>3, <2>4
<1> QED
  BY <1>3, <1>5, <1>7

\* A set of numbers up to a bound, such as the places in a text, has a last one.
LEMMA LastOf ==
  ASSUME NEW n \in Nat, NEW places, places \subseteq 1..n, places # {}
  PROVE  \E i \in places : \A j \in places : i >= j
<1> DEFINE fromEnd == {n - i : i \in places}
<1>1. \A i \in places : i \in Nat /\ i <= n /\ n - i \in Nat
  OBVIOUS
<1>2. fromEnd \subseteq Nat /\ fromEnd # {}
  BY <1>1, Zenon
<1>3. PICK m \in fromEnd : \A k \in fromEnd : m <= k
  BY <1>2, FirstOf, Zenon
<1>4. PICK i \in places : m = n - i
  BY <1>3, Zenon
<1>5. \A j \in places : n - i <= n - j
  BY <1>3, <1>4, Zenon
<1>6. \A j \in places : i >= j
  BY <1>1, <1>4, <1>5
<1> QED
  BY <1>4, <1>6

\* What is left without the zeros at its end.
LEMMA TrimmedText ==
  ASSUME NEW s \in Seq(Character)
  PROVE  /\ TrimZeros(s) \in Seq(Character) /\ Len(TrimZeros(s)) <= Len(s)
         /\ \A i \in 1..Len(TrimZeros(s)) : TrimZeros(s)[i] = s[i]
         /\ \A i \in 1..Len(s) : i > Len(TrimZeros(s)) => s[i] = 0
<1> DEFINE kept == {i \in DOMAIN s : s[i] # 0}
           last == CHOOSE i \in kept : \A j \in kept : i >= j
<1>1. Len(s) \in Nat /\ DOMAIN s = 1..Len(s)
  OBVIOUS
<1>2. CASE kept = {}
  <2>1. TrimZeros(s) = <<>>
    BY <1>2 DEF TrimZeros
  <2> QED
    BY <1>1, <1>2, <2>1
<1>3. CASE kept # {}
  <2>1. \E i \in kept : \A j \in kept : i >= j
    BY <1>1, <1>3, LastOf
  <2>2. last \in kept /\ \A j \in kept : last >= j
    BY <2>1, Zenon
  <2>3. TrimZeros(s) = SubSeq(s, 1, last) /\ last \in 1..Len(s)
    BY <1>1, <1>3, <2>2 DEF TrimZeros
  <2>4. \A i \in 1..Len(s) : i > last => s[i] = 0
    <3>1. \A i \in 1..Len(s) : s[i] # 0 => last >= i
      BY <1>1, <2>2
    <3> QED
      BY <2>3, <3>1
  <2> HIDE DEF last
  <2>5. /\ SubSeq(s, 1, last) \in Seq(Character) /\ Len(SubSeq(s, 1, last)) = last
        /\ \A i \in 1..last : SubSeq(s, 1, last)[i] = s[i]
    BY <2>3
  <2> QED
    BY <2>3, <2>4, <2>5
<1> QED
  BY <1>2, <1>3

\* The text of an integer: of a natural number its digits, and never with a point.
LEMMA TextOfInteger ==
  ASSUME NEW n \in Int
  PROVE  /\ IntegerText(n) \in Seq(Character \ {Point}) /\ IntegerText(n) \in Seq(Character)
         /\ IntegerText(n) # <<>>
         /\ n \in Nat => IntegerText(n) = DigitsOf[n]
<1>1. Digit \subseteq Character \ {Point} /\ Character \ {Point} \subseteq Character
      /\ Minus \in Character \ {Point}
  BY DEF Digit, Character, Point, Minus
<1>2. n \in Nat => IntegerText(n) = DigitsOf[n]
  BY DEF IntegerText
<1>3. IntegerText(n) \in Seq(Character \ {Point}) /\ IntegerText(n) # <<>>
  <2>1. CASE n >= 0
    <3>1. DigitsOf[n] \in Seq(Digit) /\ DigitsOf[n] # <<>> /\ IntegerText(n) = DigitsOf[n]
      BY <1>2, <2>1, DigitsOfNumber
    <3> QED
      BY <1>1, <3>1, SeqOfSuperset
  <2>2. CASE n < 0
    <3>1. -n \in Nat
      BY <2>2
    <3>2. DigitsOf[-n] \in Seq(Digit)
      BY <3>1, DigitsOfNumber
    <3>3. DigitsOf[-n] \in Seq(Character \ {Point})
      BY <1>1, <3>2, SeqOfSuperset
    <3>4. IntegerText(n) = <<Minus>> \o DigitsOf[-n]
      BY <2>2 DEF IntegerText
    <3> QED
      BY <1>1, <3>3, <3>4
  <2> QED
    BY <2>1, <2>2
<1> QED
  BY <1>1, <1>2, <1>3, SeqOfSuperset

\* A formatted amount is a text, and the languages agree on it where it is not negative.
LEMMA FormatIsText ==
  ASSUME NEW n \in Int, NEW d \in Nat
  PROVE  /\ IsText(GoFormatAmount(n, d))
         /\ n \in Nat => JsFormatAmount(n, d) = GoFormatAmount(n, d)
<1> DEFINE P == PowerOfTen[d]
           q == n \div P
           r == n % P
<1>1. P \in Nat /\ P > 0
  BY Powers
<1>2. q \in Int /\ r \in 0..(P - 1) /\ n = q * P + r /\ r \in Int
  <2> HIDE DEF P
  <2> QED
    BY <1>1, Division
<1>3. IsText(GoFormatAmount(n, d))
  <2> DEFINE padded == PadStart(IntegerText(r), d)
             zeros == Zeros(d - Len(IntegerText(r)))
  <2>1. IntegerText(q) \in Seq(Character \ {Point})
    BY <1>2, TextOfInteger
  <2>2. padded \in Seq(Character)
    <3>1. IntegerText(r) \in Seq(Character)
      BY <1>2, TextOfInteger
    <3>2. 0 \in Character
      BY DEF Character, Digit
    <3>3. zeros \in Seq(Character)
      <4> DEFINE k == d - Len(IntegerText(r))
      <4>1. k \in Int
        BY <3>1
      <4>2. CASE k >= 0
        <5>1. zeros \in Seq({0}) /\ {0} \subseteq Character
          BY <3>2, <4>1, <4>2, ValueOfZeros
        <5> QED
          BY <5>1, SeqOfSuperset
      <4>3. CASE k < 0
        <5>1. 1..k = 1..0
          <6> HIDE DEF k
          <6> QED
            BY <4>1, <4>3
        <5>2. Zeros(k) = Zeros(0)
          BY <5>1, Zenon DEF Zeros
        <5>3. Zeros(0) \in Seq({0}) /\ {0} \subseteq Character
          BY <3>2, ValueOfZeros
        <5> QED
          BY <5>2, <5>3, SeqOfSuperset
      <4> QED
        BY <4>1, <4>2, <4>3
    <3>4. padded = zeros \o IntegerText(r)
      BY DEF PadStart
    <3> HIDE DEF padded, zeros
    <3> QED
      BY <3>1, <3>3, <3>4
  <2>3. TrimZeros(padded) \in Seq(Character)
    BY <2>2, TrimmedText
  <2>4. GoFormatAmount(n, d) = IF r = 0 THEN Text(IntegerText(q), FALSE, <<>>)
                               ELSE Text(IntegerText(q), TRUE, TrimZeros(padded))
    BY DEF GoFormatAmount, FormatParts
  <2>5. <<>> \in Seq(Character)
    OBVIOUS
  <2> HIDE DEF q, r, padded
  <2>6. CASE r = 0
    BY <2>1, <2>4, <2>5, <2>6 DEF IsText, Text
  <2>7. CASE r # 0
    BY <2>1, <2>3, <2>4, <2>7 DEF IsText, Text
  <2> QED
    BY <2>6, <2>7
<1>4. ASSUME n \in Nat PROVE JsFormatAmount(n, d) = GoFormatAmount(n, d)
  <2>1. Truncated(n, P) = q
    BY <1>4 DEF Truncated
  <2>2. n - q * P = r
    <3> HIDE DEF q, r, P
    <3> QED
      BY <1>1, <1>2
  <2> QED
    BY <2>1, <2>2 DEF JsFormatAmount, GoFormatAmount
<1> QED
  BY <1>3, <1>4

\* An amount with a fraction is read back as it was; one without, as its quotient.
LEMMA ReadBack ==
  ASSUME NEW n \in Nat, NEW d \in Nat, NEW t, t = GoFormatAmount(n, d)
  PROVE  /\ t.point => GoParseAmount(t, d) = {n} /\ JsParseAmount(t, d) = {n}
         /\ ~t.point => \A m \in GoParseAmount(t, d) \cup JsParseAmount(t, d) :
                          m * PowerOfTen[d] = n
<1> DEFINE P == PowerOfTen[d]
           q == n \div P
           r == n % P
           padded == PadStart(IntegerText(r), d)
<1>1. P \in Nat /\ P > 0
  BY Powers
<1>2. q \in Nat /\ r \in 0..(P - 1) /\ n = q * P + r /\ r \in Nat
  <2> HIDE DEF P
  <2> QED
    BY <1>1, Division
<1>3. t = IF r = 0 THEN Text(IntegerText(q), FALSE, <<>>)
          ELSE Text(IntegerText(q), TRUE, TrimZeros(padded))
  BY DEF GoFormatAmount, FormatParts
<1>4. /\ IntegerText(q) \in Seq(Character) /\ IntegerText(q) \in Seq(Digit)
      /\ IntegerText(q) # <<>> /\ DigitsValue(IntegerText(q)) = q
  <2> HIDE DEF q
  <2>1. q \in Int /\ IntegerText(q) = DigitsOf[q] /\ IntegerText(q) \in Seq(Character)
    BY <1>2, TextOfInteger
  <2> QED
    BY <1>2, <2>1, DigitsOfNumber
<1>5. AllDigits(IntegerText(q)) /\ SetString(IntegerText(q)) = {q}
  BY <1>4, DigitsAreText, SetStringResult
<1>6. CASE r = 0
  <2>1. ~t.point /\ t.whole = IntegerText(q)
    BY <1>3, <1>6 DEF Text
  <2>2. GoParseAmount(t, d) = {q} /\ JsParseAmount(t, d) = {q}
    BY <1>4, <1>5, <2>1 DEF GoParseAmount, JsParseAmount
  <2> HIDE DEF q, r, P
  <2>3. q * P = n
    BY <1>1, <1>2, <1>6
  <2> QED
    BY <2>1, <2>2, <2>3 DEF P
<1>7. CASE r # 0
  <2> DEFINE digits == IntegerText(r)
             zeros == Zeros(d - Len(digits))
             frac == TrimZeros(padded)
  <2>1. t.point /\ t.whole = IntegerText(q) /\ t.frac = frac
    BY <1>3, <1>7 DEF Text
  <2>2. d > 0
    <3>1. d # 0
      BY <1>1, <1>2, <1>7, Powers
    <3> QED
      BY <3>1
  <2>3. /\ digits \in Seq(Digit) /\ digits \in Seq(Nat) /\ digits # <<>>
        /\ DigitsValue(digits) = r /\ Len(digits) <= d
    <3>1. digits = DigitsOf[r] /\ r < PowerOfTen[d]
      <4>1. r < PowerOfTen[d]
        <5> HIDE DEF r
        <5> QED
          BY <1>1, <1>2
      <4>2. r \in Int
        <5> HIDE DEF r
        <5> QED
          BY <1>2
      <4>3. digits = DigitsOf[r]
        <5> HIDE DEF r
        <5> QED
          BY <1>2, <4>2, TextOfInteger
      <4> QED
        BY <4>1, <4>3
    <3> HIDE DEF r, digits
    <3> QED
      BY <1>2, <2>2, <3>1, DigitsOfNumber
  <2>4. /\ padded \in Seq(Digit) /\ padded \in Seq(Nat) /\ padded \in Seq(Character)
        /\ Len(padded) = d /\ DigitsValue(padded) = r
    <3>1. padded = zeros \o digits
      BY DEF PadStart
    <3>2. Len(digits) \in Nat /\ d - Len(digits) \in Nat
      <4> HIDE DEF digits
      <4> QED
        BY <2>3
    <3>3. /\ zeros \in Seq({0}) /\ zeros \in Seq(Nat) /\ Len(zeros) = d - Len(digits)
          /\ DigitsValue(zeros) = 0
      <4> HIDE DEF digits
      <4> QED
        BY <3>2, ValueOfZeros
    <3>4. zeros \in Seq(Digit)
      <4>1. {0} \subseteq Digit
        BY NoDigits
      <4> HIDE DEF zeros
      <4> QED
        BY <3>3, <4>1, SeqOfSuperset
    <3> HIDE DEF padded, zeros, digits
    <3>5. DigitsValue(zeros \o digits) = 0 * PowerOfTen[Len(digits)] + r
      BY <2>3, <3>3, ValueOfConcat
    <3>6. PowerOfTen[Len(digits)] \in Nat
      BY <3>2, Powers
    <3>7. DigitsValue(padded) = r
      BY <1>2, <3>1, <3>5, <3>6
    <3>8. padded \in Seq(Digit) /\ Len(padded) = d
      BY <2>3, <3>1, <3>2, <3>3, <3>4
    <3>9. Digit \subseteq Nat /\ Digit \subseteq Character
      BY DEF Digit, Character
    <3> QED
      BY <3>7, <3>8, <3>9, SeqOfSuperset
  <2> HIDE DEF padded, digits
  <2>5. /\ frac \in Seq(Character) /\ Len(frac) \in Nat /\ Len(frac) <= d
        /\ \A i \in 1..Len(frac) : frac[i] = padded[i]
        /\ \A i \in 1..d : i > Len(frac) => padded[i] = 0
    BY <2>4, TrimmedText
  <2>6. frac \in Seq(Digit)
    <3>1. \A i \in 1..Len(frac) : i \in 1..d /\ padded[i] \in Digit
      BY <2>4, <2>5
    <3> HIDE DEF frac
    <3> QED
      BY <2>5, <3>1
  <2> HIDE DEF frac
  <2>7. frac # <<>>
    <3>1. SUFFICES ASSUME frac = <<>> PROVE FALSE
      OBVIOUS
    <3>2. \A i \in 1..d : padded[i] = 0
      BY <2>5, <3>1
    <3>3. /\ Zeros(d) \in Seq(Nat) /\ Len(Zeros(d)) = d /\ DigitsValue(Zeros(d)) = 0
          /\ \A i \in 1..d : Zeros(d)[i] = 0
      BY ValueOfZeros DEF Zeros
    <3>4. padded = Zeros(d)
      BY <2>4, <3>2, <3>3, SeqEqual
    <3> QED
      BY <1>7, <2>4, <3>3, <3>4
  <2>8. Scaled(frac, d) = padded
    <3>1. /\ Scaled(frac, d) \in Seq(Character) /\ Len(Scaled(frac, d)) = d
          /\ \A i \in 1..d : Scaled(frac, d)[i] = IF i <= Len(frac) THEN frac[i] ELSE 0
      BY <2>5, ScaledText
    <3>2. \A i \in 1..d : Scaled(frac, d)[i] = padded[i]
      BY <2>5, <3>1
    <3> QED
      BY <2>4, <3>1, <3>2, SeqEqual
  <2>9. FirstFraction(frac) = frac
    <3>1. \A i \in 1..Len(frac) : frac[i] # Point
      BY <2>5, <2>6, NoDigits
    <3> QED
      BY <2>5, <3>1, FirstFractionText
  <2>10. AllDigits(frac) /\ SetString(padded) = {r}
    <3>1. AllDigits(frac) /\ AllDigits(padded)
      BY <2>2, <2>4, <2>5, <2>6, <2>7, DigitsAreText
    <3> QED
      BY <2>4, <3>1, SetStringResult
  <2> HIDE DEF q, r
  <2>11. GoParseAmount(t, d) = {q * P + r}
    BY <1>5, <2>1, <2>7, <2>8, <2>10 DEF GoParseAmount
  <2>12. JsParseAmount(t, d) = {q * P + r}
    BY <1>4, <1>5, <2>1, <2>4, <2>8, <2>9, <2>10 DEF JsParseAmount
  <2> QED
    BY <1>2, <2>1, <2>11, <2>12
<1> QED
  BY <1>6, <1>7

\* What the page takes for a number is the number that the integer parsers read, if any.
LEMMA PageReads ==
  ASSUME NEW t, IsText(t), NEW n \in NumberOf(t)
  PROVE  SetString(Characters(t)) \subseteq {n} /\ BigIntOf(Characters(t)) \subseteq {n}
<1> DEFINE whole == t.whole
           frac == t.frac
           c == Characters(t)
<1>1. whole \in Seq(Character) /\ frac \in Seq(Character) /\ (~t.point => frac = <<>>)
  <2>1. whole \in Seq(Character \ {Point}) /\ frac \in Seq(Character)
        /\ Character \ {Point} \subseteq Character /\ (~t.point => frac = <<>>)
    BY DEF IsText
  <2> QED
    BY <2>1, SeqOfSuperset
<1>2. CASE t.point
  <2>1. c = whole \o <<Point>> \o frac
    BY <1>2 DEF Characters
  <2> DEFINE l == Len(whole)
  <2>2. /\ c \in Seq(Character) /\ l \in Nat /\ Len(c) >= l + 1 /\ c[l + 1] = Point
        /\ l > 0 => c[1] = whole[1]
    <3>1. Point \in Character
      BY DEF Character
    <3>2. /\ whole \o <<Point>> \in Seq(Character) /\ Len(whole \o <<Point>>) = l + 1
          /\ (whole \o <<Point>>)[l + 1] = Point
          /\ l > 0 => (whole \o <<Point>>)[1] = whole[1]
      BY <1>1, <3>1
    <3> DEFINE first == whole \o <<Point>>
    <3>3. /\ first \in Seq(Character) /\ Len(first) = l + 1 /\ first[l + 1] = Point
          /\ l > 0 => first[1] = whole[1]
      BY <3>2
    <3>4. c = first \o frac /\ l \in Nat
      BY <1>1, <2>1
    <3> HIDE DEF first, l, whole, frac, c
    <3>5. first \o frac \in Seq(Character) /\ Len(first \o frac) = Len(first) + Len(frac)
      BY <1>1, <3>3
    <3>6. \A i \in 1..Len(first) : (first \o frac)[i] = first[i]
      BY <1>1, <3>3
    <3>7. Len(frac) \in Nat
      BY <1>1
    <3>8. Len(c) >= l + 1
      BY <3>3, <3>4, <3>5, <3>7
    <3>9. c[l + 1] = Point
      BY <3>3, <3>4, <3>6
    <3>10. l > 0 => c[1] = first[1]
      BY <3>3, <3>4, <3>6
    <3> QED
      BY <3>3, <3>4, <3>5, <3>8, <3>9, <3>10
  <2> HIDE DEF c, l
  <2>3. c # <<>> /\ ~AllDigits(c)
    BY <2>2, NoDigits DEF AllDigits, ToSet
  <2>4. SetString(c) = {}
    <3>1. SUFFICES ASSUME Head(c) \in {Minus, Plus}, AllDigits(Tail(c)) PROVE FALSE
      BY <2>3 DEF SetString, Fail
    <3>2. l # 0
      <4>1. Head(c) = c[1]
        BY <2>2, <2>3
      <4> QED
        BY <2>2, <3>1, <4>1 DEF Minus, Plus, Point
    <3>3. l \in DOMAIN Tail(c) /\ Tail(c)[l] = Point
      BY <2>2, <2>3, <3>2
    <3> QED
      BY <3>1, <3>3, NoDigits DEF AllDigits, ToSet
  <2> QED
    BY <2>3, <2>4 DEF BigIntOf, c
<1>3. CASE ~t.point
  <2>1. c = whole /\ frac = <<>>
    BY <1>1, <1>3 DEF Characters
  <2>2. UnsignedPart(whole) \in Seq(Character) /\ UnsignedPart(whole) \o <<>> = UnsignedPart(whole)
    BY <1>1 DEF UnsignedPart
  <2>3. /\ AllDigits(UnsignedPart(whole)) \/ whole = <<>>
        /\ n = Signed(whole, DigitsValue(UnsignedPart(whole)))
    BY <2>1, <2>2 DEF NumberOf
  <2>4. CASE whole = <<>>
    BY <2>1, <2>3, <2>4, ValueOfZeros, 0 \in Nat
       DEF Signed, UnsignedPart, SetString, BigIntOf, AllDigits, Fail
  <2>5. CASE whole # <<>> /\ AllDigits(whole)
    <3>1. Head(whole) \notin {Minus, Plus}
      BY <1>1, <2>5, NoDigits DEF AllDigits, ToSet
    <3> QED
      BY <2>1, <2>3, <2>5, <3>1 DEF Signed, UnsignedPart, SetString, BigIntOf
  <2>6. CASE whole # <<>> /\ ~AllDigits(whole)
    <3>1. whole # <<>> /\ Head(whole) \in {Minus, Plus} /\ UnsignedPart(whole) = Tail(whole)
      BY <2>3, <2>6 DEF UnsignedPart
    <3> QED
      BY <2>1, <2>3, <2>6, <3>1 DEF Signed, SetString, BigIntOf, Minus, Plus
  <2> QED
    BY <2>4, <2>5, <2>6
<1> QED
  BY <1>2, <1>3

-----------------------------------------------------------------------------
(* The page's display: digits in groups.                                   *)

\* The first part of a sequence and the part that follows it.
LEMMA PartAfterPart ==
  ASSUME NEW S, NEW s \in Seq(S), NEW a \in Nat, NEW b \in Nat, a <= b, b <= Len(s)
  PROVE  SubSeq(s, 1, a) \o SubSeq(s, a + 1, b) = SubSeq(s, 1, b)
<1> DEFINE left == SubSeq(s, 1, a)
           right == SubSeq(s, a + 1, b)
           both == SubSeq(s, 1, b)
<1>1. /\ left \in Seq(S) /\ Len(left) = a /\ \A k \in 1..a : left[k] = s[k]
      /\ both \in Seq(S) /\ Len(both) = b /\ \A k \in 1..b : both[k] = s[k]
  OBVIOUS
<1>2. right \in Seq(S) /\ Len(right) = b - a
  OBVIOUS
<1>3. \A k \in 1..(b - a) : right[k] = s[a + k]
  OBVIOUS
<1> HIDE DEF left, right, both
<1>4. left \o right \in Seq(S) /\ Len(left \o right) = b
  <2>1. left \in Seq(S) /\ Len(left) = a
    BY <1>1, Zenon
  <2>2. left \o right \in Seq(S) /\ Len(left \o right) = Len(left) + Len(right)
    BY <1>2, <2>1
  <2> QED
    BY <1>2, <2>1, <2>2
<1>5. ASSUME NEW k \in 1..b PROVE (left \o right)[k] = both[k]
  <2>1. CASE k <= a
    BY <1>1, <1>2, <2>1
  <2>2. CASE ~(k <= a)
    <3>1. k - a \in 1..(b - a) /\ a + (k - a) = k
      BY <2>2
    <3>2. (left \o right)[k] = right[k - a]
      BY <1>1, <1>2, <2>2
    <3> QED
      BY <1>1, <1>3, <3>1, <3>2
  <2> QED
    BY <2>1, <2>2
<1>6. left \o right = both
  BY <1>1, <1>4, <1>5, SeqEqual
<1> QED
  BY <1>6 DEF left, right, both

\* A part of one place or of two.
LEMMA OneOrTwo ==
  ASSUME NEW S, NEW s \in Seq(S), NEW p \in 1..Len(s)
  PROVE  /\ SubSeq(s, p, p) = <<s[p]>>
         /\ p + 1 <= Len(s) => SubSeq(s, p, p + 1) = <<s[p], s[p + 1]>>
<1>1. Len(s) \in Nat /\ s[p] \in S
  OBVIOUS
<1>2. /\ SubSeq(s, p, p) \in Seq(S) /\ Len(SubSeq(s, p, p)) = 1 /\ SubSeq(s, p, p)[1] = s[p]
  OBVIOUS
<1>3. SubSeq(s, p, p) = <<s[p]>>
  <2> DEFINE part == SubSeq(s, p, p)
  <2> HIDE DEF part
  <2>1. part \in Seq(S) /\ Len(part) = 1 /\ part[1] = s[p]
    BY <1>2 DEF part
  <2>2. part = <<s[p]>>
    BY <2>1
  <2> QED
    BY <2>2 DEF part
<1>4. ASSUME p + 1 <= Len(s) PROVE SubSeq(s, p, p + 1) = <<s[p], s[p + 1]>>
  <2> DEFINE part == SubSeq(s, p, p + 1)
  <2>1. p \in Nat /\ p + 1 \in 1..Len(s) /\ s[p + 1] \in S
    BY <1>4
  <2>2. part \in Seq(S) /\ Len(part) = 2
    BY <1>4, <2>1
  <2>3. part[1] = s[p] /\ part[2] = s[p + 1]
    BY <1>4, <2>1
  <2> HIDE DEF part
  <2>4. part = <<s[p], s[p + 1]>>
    BY <2>2, <2>3
  <2> QED
    BY <2>4 DEF part
<1> QED
  BY <1>3, <1>4

\* A sequence that is cut into n pieces, each from where the last one ended.
IsCut(whole, n, pieces, cut) ==
  /\ cut \in [0..n -> Nat] /\ cut[0] = 0 /\ cut[n] = Len(whole)
  /\ \A i \in 1..n : /\ cut[i - 1] <= cut[i] /\ cut[i] <= Len(whole)
                     /\ pieces[i] = SubSeq(whole, cut[i - 1] + 1, cut[i])

\* The pieces of a sequence, written one after the other, are the sequence.
LEMMA FlattenedPieces ==
  ASSUME NEW S, NEW whole \in Seq(S), NEW n \in Nat, n > 0,
         NEW pieces \in [1..n -> Seq(S)], NEW cut, IsCut(whole, n, pieces, cut)
  PROVE  FlattenSeq(pieces) = whole
<1> USE DEF IsCut
<1> DEFINE base == [i \in {1} |-> pieces[1]]
           prev == [i \in 1..n |-> i - 1]
           step == [i \in 1..n |-> [s \in Seq(S) |-> s \o pieces[i]]]
           Solves(f) == f = [i \in 1..n |-> IF i = 1 THEN pieces[i] ELSE f[i - 1] \o pieces[i]]
           flatten == CHOOSE f : Solves(f)
<1>1. IsRecursion(1..n, Seq(S), {1}, base, prev, step)
  <2>1. ASSUME NEW i \in (1..n) \ {1} PROVE prev[i] \in 1..n /\ prev[i] < i
    OBVIOUS
  <2>2. ASSUME NEW i \in (1..n) \ {1}, NEW s \in Seq(S) PROVE step[i][s] \in Seq(S)
    <3>1. pieces[i] \in Seq(S) /\ step[i][s] = s \o pieces[i]
      OBVIOUS
    <3> HIDE DEF step
    <3> QED
      BY <3>1
  <2>3. 1..n \subseteq Nat /\ {1} \subseteq 1..n /\ base[1] \in Seq(S)
    OBVIOUS
  <2> HIDE DEF step, prev, base
  <2> QED
    BY <2>1, <2>2, <2>3 DEF IsRecursion
<1>2. PICK f : IsSolution(f, 1..n, Seq(S), {1}, base, prev, step)
  BY <1>1, Recursion, Zenon
<1>3. f \in [1..n -> Seq(S)] /\ f[1] = pieces[1]
  <2>1. f \in [1..n -> Seq(S)] /\ 1 \in 1..n /\ 1 \in {1}
    BY <1>2 DEF IsSolution
  <2>2. f[1] = base[1]
    BY <1>2, <2>1, Zenon DEF IsSolution
  <2> QED
    BY <2>1, <2>2
<1>4. ASSUME NEW i \in 1..n, i # 1 PROVE f[i] = f[i - 1] \o pieces[i]
  <2>1. i - 1 \in 1..n /\ f[i - 1] \in Seq(S) /\ prev[i] = i - 1
    BY <1>3, <1>4
  <2>2. f[i] = step[i][f[i - 1]]
    BY <1>2, <1>4, <2>1 DEF IsSolution
  <2> QED
    BY <2>1, <2>2
<1>5. Solves(f)
  <2>1. \A i \in 1..n : f[i] = IF i = 1 THEN pieces[i] ELSE f[i - 1] \o pieces[i]
    BY <1>3, <1>4
  <2> QED
    BY <1>3, <2>1
<1>6. Solves(flatten)
  BY <1>5, Zenon
<1>7. FlattenSeq(pieces) = flatten[n]
  <2>1. Len(pieces) = n
    OBVIOUS
  <2> QED
    BY <2>1 DEF FlattenSeq
<1>8. \A i \in 1..n : flatten[i] = IF i = 1 THEN pieces[i] ELSE flatten[i - 1] \o pieces[i]
  BY <1>6
<1> HIDE DEF flatten
<1>9. ASSUME NEW i \in 1..n, i # 1, flatten[i - 1] = SubSeq(whole, 1, cut[i - 1])
      PROVE  flatten[i] = SubSeq(whole, 1, cut[i])
  <2>1. flatten[i] = SubSeq(whole, 1, cut[i - 1]) \o SubSeq(whole, cut[i - 1] + 1, cut[i])
    BY <1>8, <1>9
  <2>2. i - 1 \in 0..n /\ i \in 0..n
    OBVIOUS
  <2>3. cut[i - 1] \in Nat /\ cut[i] \in Nat
    BY <2>2, Zenon
  <2>4. cut[i - 1] <= cut[i] /\ cut[i] <= Len(whole)
    BY Zenon
  <2> QED
    BY <2>1, <2>3, <2>4, PartAfterPart, Zenon
<1>10. flatten[1] = SubSeq(whole, 1, cut[1])
  <2>1. 1 \in 1..n /\ cut[1 - 1] = 0 /\ cut[1 - 1] + 1 = 1
    OBVIOUS
  <2>2. flatten[1] = pieces[1] /\ pieces[1] = SubSeq(whole, cut[1 - 1] + 1, cut[1])
    BY <1>8, <2>1
  <2> QED
    BY <2>1, <2>2
<1> DEFINE joined == {i \in Nat : i \in 1..n => flatten[i] = SubSeq(whole, 1, cut[i])}
<1>11. ASSUME NEW i \in Nat, \A j \in Nat : j < i => j \in joined
       PROVE  i \in joined
  <2>1. CASE i \in 1..n /\ i # 1
    <3>1. i - 1 \in Nat /\ i - 1 < i /\ i - 1 \in 1..n
      BY <2>1
    <3>2. flatten[i - 1] = SubSeq(whole, 1, cut[i - 1])
      BY <1>11, <3>1
    <3> QED
      BY <1>9, <1>11, <2>1, <3>2
  <2>2. CASE i \notin 1..n \/ i = 1
    BY <1>10, <1>11, <2>2
  <2> QED
    BY <2>1, <2>2
<1>12. \A i \in Nat : i \in joined
  <2> HIDE DEF joined
  <2> QED
    BY <1>11, Induction
<1>13. flatten[n] = SubSeq(whole, 1, Len(whole))
  BY <1>12
<1> QED
  BY <1>7, <1>13

\* The characters that the last m digits of a longer grouped text take.
Width(m) == m + m \div 3

\* The digits among the last e characters of a grouped text.
DigitsAmong(e) == e - e \div 4

\* Where the points stand.
LEMMA Thousands ==
  ASSUME NEW m \in Nat
  PROVE  /\ Width(m) \in Nat /\ Width(m) % 4 # 3 /\ DigitsAmong(Width(m)) = m
         /\ m > 0 => IF m % 3 = 0 THEN Width(m) = Width(m - 1) + 2 /\ (Width(m) - 1) % 4 = 3
                     ELSE Width(m) = Width(m - 1) + 1
         /\ \A e \in Nat : e <= Width(m) => DigitsAmong(e) \in 0..m
<1> DEFINE q == m \div 3
           r == m % 3
<1>1. q \in Nat /\ r \in 0..2 /\ m = 3 * q + r
  OBVIOUS
<1>2. Width(m) = 4 * q + r
  BY <1>1 DEF Width
<1>3. ASSUME m > 0 PROVE IF r = 0 THEN Width(m - 1) = 4 * q - 2 ELSE Width(m - 1) = 4 * q + r - 1
  BY <1>1, <1>3 DEF Width
<1> HIDE DEF q, r
<1>4. Width(m) % 4 # 3 /\ DigitsAmong(Width(m)) = m
  BY <1>1, <1>2 DEF DigitsAmong
<1>5. ASSUME m > 0, m % 3 = 0 PROVE (Width(m) - 1) % 4 = 3
  <2>1. q >= 1 /\ Width(m) - 1 = 4 * (q - 1) + 3
    BY <1>1, <1>2, <1>5 DEF r
  <2> QED
    BY <1>1, <2>1
<1>6. ASSUME NEW e \in Nat, e <= Width(m) PROVE DigitsAmong(e) \in 0..m
  BY <1>1, <1>2, <1>6 DEF DigitsAmong
<1> QED
  BY <1>1, <1>2, <1>3, <1>4, <1>5, <1>6 DEF r

\* Going on by one character, the digits grow by one unless it is a point.
LEMMA DigitByDigit ==
  ASSUME NEW e \in Nat
  PROVE  /\ DigitsAmong(e) \in Nat
         /\ IF e % 4 = 3 THEN DigitsAmong(e + 1) = DigitsAmong(e)
            ELSE DigitsAmong(e + 1) = DigitsAmong(e) + 1
  BY DEF DigitsAmong

\* Digits with a point wherever a multiple of three of them follow.
GroupedText(s) ==
  LET length == Width(Len(s) - 1) + 1
  IN  [p \in 1..length |-> IF (length - p) % 4 = 3 THEN Point
                           ELSE s[Len(s) - DigitsAmong(length - p)]]

\* It has the places that its definition looks for.
LEMMA GroupedTextIsText ==
  ASSUME NEW s \in Seq(Digit), s # <<>>
  PROVE  LET length == Width(Len(s) - 1) + 1
         IN  /\ GroupedText(s) \in Seq(Digit \cup {Point}) /\ Len(GroupedText(s)) = length
             /\ length \in Nat /\ length > 0
             /\ \A p \in 1..length :
                  IF (length - p) % 4 = 3 THEN GroupedText(s)[p] = Point
                  ELSE /\ Len(s) - DigitsAmong(length - p) \in 1..Len(s)
                       /\ GroupedText(s)[p] = s[Len(s) - DigitsAmong(length - p)]
                       /\ GroupedText(s)[p] # Point
<1> DEFINE length == Width(Len(s) - 1) + 1
<1>1. Len(s) \in Nat /\ Len(s) > 0 /\ \A i \in 1..Len(s) : s[i] \in Digit
  OBVIOUS
<1>2. length \in Nat /\ length > 0
  <2>1. Len(s) - 1 \in Nat
    BY <1>1
  <2>2. Width(Len(s) - 1) \in Nat
    BY <2>1, Thousands
  <2> QED
    BY <2>2
<1>3. \A e \in Nat : e <= Width(Len(s) - 1) => DigitsAmong(e) \in 0..(Len(s) - 1)
  <2>1. Len(s) - 1 \in Nat
    BY <1>1
  <2> QED
    BY <2>1, Thousands
<1>4. ASSUME NEW p \in 1..length
      PROVE  length - p \in Nat /\ Len(s) - DigitsAmong(length - p) \in 1..Len(s)
  <2>1. length - p \in Nat /\ length - p <= Width(Len(s) - 1)
    <3>1. length - p <= length - 1 /\ length - p \in Nat /\ length - 1 = Width(Len(s) - 1)
      BY <1>1, <1>2 DEF Width
    <3> QED
      BY <3>1
  <2>2. DigitsAmong(length - p) \in 0..(Len(s) - 1)
    BY <1>3, <2>1
  <2> QED
    BY <1>1, <2>1, <2>2
<1>5. GroupedText(s) = [p \in 1..length |-> IF (length - p) % 4 = 3 THEN Point
                                            ELSE s[Len(s) - DigitsAmong(length - p)]]
  BY DEF GroupedText
<1> HIDE DEF length
<1>6. \A p \in 1..length :
        IF (length - p) % 4 = 3 THEN GroupedText(s)[p] = Point
        ELSE GroupedText(s)[p] = s[Len(s) - DigitsAmong(length - p)]
  BY <1>5
<1>7. \A p \in 1..length :
        (length - p) % 4 # 3 => GroupedText(s)[p] \in Digit /\ GroupedText(s)[p] # Point
  BY <1>1, <1>4, <1>6, NoDigits
<1>8. GroupedText(s) \in [1..length -> Digit \cup {Point}]
  BY <1>5, <1>6, <1>7
<1>9. GroupedText(s) \in Seq(Digit \cup {Point}) /\ Len(GroupedText(s)) = length
  BY <1>2, <1>8
<1> QED
  BY <1>2, <1>4, <1>6, <1>7, <1>9 DEF length

\* This is what the page makes of digits.
LEMMA GroupedDigits ==
  ASSUME NEW s \in Seq(Digit), s # <<>>
  PROVE  Grouped(s) = GroupedText(s)
<1> DEFINE n == Len(s)
           length == Width(n - 1) + 1
           out == GroupedText(s)
           start(i) == IF i = 0 THEN 0 ELSE length - Width(n - i)
           cut == [i \in 0..n |-> start(i)]
           Pointed(i) == i > 1 /\ (n - i + 1) % 3 = 0
           pieces == [i \in 1..n |-> IF Pointed(i) THEN <<Point, s[i]>> ELSE <<s[i]>>]
<1>1. n \in Nat /\ n > 0 /\ DOMAIN s = 1..n /\ \A i \in 1..n : s[i] \in Digit
  OBVIOUS
<1>2. /\ out \in Seq(Digit \cup {Point}) /\ Len(out) = length /\ length \in Nat /\ length > 0
      /\ \A p \in 1..length :
           IF (length - p) % 4 = 3 THEN out[p] = Point
           ELSE out[p] = s[n - DigitsAmong(length - p)]
  BY GroupedTextIsText
<1>3. ASSUME NEW i \in 1..n
      PROVE  /\ n - i \in Nat /\ Width(n - i) \in Nat /\ Width(n - i) % 4 # 3
             /\ DigitsAmong(Width(n - i)) = n - i
             /\ Width(n - i) < length
             /\ i > 1 =>
                  /\ n - i + 1 \in Nat /\ n - (i - 1) = n - i + 1 /\ i - 1 \in 1..n
                  /\ IF Pointed(i)
                     THEN Width(n - i + 1) = Width(n - i) + 2 /\ (Width(n - i + 1) - 1) % 4 = 3
                     ELSE Width(n - i + 1) = Width(n - i) + 1
  <2> HIDE DEF n
  <2>1. n - i \in Nat /\ n - i <= n - 1 /\ n - 1 \in Nat
    BY <1>1
  <2>2. /\ Width(n - i) \in Nat /\ Width(n - i) % 4 # 3
        /\ DigitsAmong(Width(n - i)) = n - i
    BY <2>1, Thousands
  <2>3. \A a, b \in Nat : a <= b => Width(a) <= Width(b)
    BY DEF Width
  <2>4. Width(n - i) <= Width(n - 1) /\ Width(n - 1) \in Nat
    BY <2>1, <2>3, Thousands
  <2>5. ASSUME i > 1
        PROVE  /\ n - i + 1 \in Nat /\ n - (i - 1) = n - i + 1 /\ i - 1 \in 1..n
               /\ n - i + 1 > 0 /\ (n - i + 1) - 1 = n - i
    BY <1>1, <2>5
  <2>6. \A m \in Nat : m > 0 =>
          IF m % 3 = 0 THEN Width(m) = Width(m - 1) + 2 /\ (Width(m) - 1) % 4 = 3
          ELSE Width(m) = Width(m - 1) + 1
    BY Thousands
  <2>7. ASSUME i > 1
        PROVE  IF Pointed(i)
               THEN Width(n - i + 1) = Width(n - i) + 2 /\ (Width(n - i + 1) - 1) % 4 = 3
               ELSE Width(n - i + 1) = Width(n - i) + 1
    <3> DEFINE m == n - i + 1
    <3>1. m \in Nat /\ m > 0 /\ m - 1 = n - i
      BY <2>5, <2>7
    <3> HIDE DEF m
    <3>2. IF m % 3 = 0 THEN Width(m) = Width(m - 1) + 2 /\ (Width(m) - 1) % 4 = 3
          ELSE Width(m) = Width(m - 1) + 1
      BY <2>6, <3>1
    <3> QED
      BY <2>7, <3>1, <3>2 DEF m
  <2>8. Width(n - i) < length
    BY <2>2, <2>4
  <2> QED
    BY <2>1, <2>2, <2>5, <2>7, <2>8
<1>5. Width(0) = 0
  BY DEF Width
<1>6. Grouped(s) = FlattenSeq(pieces)
  BY <1>1 DEF Grouped
<1>7. length = Width(n - 1) + 1
  OBVIOUS
<1> HIDE DEF length, out, n
<1>8. 0 \in 0..n /\ \A i \in 1..n : i \in 0..n /\ i # 0
  BY <1>1
<1>9. cut[0] = 0 /\ \A i \in 1..n : cut[i] = length - Width(n - i)
  BY <1>8
<1>10. cut \in [0..n -> Nat] /\ cut[n] = length
  <2>1. ASSUME NEW i \in 0..n PROVE start(i) \in Nat
    <3>1. CASE i = 0
      BY <3>1
    <3>2. CASE i # 0
      <4>1. i \in 1..n
        BY <3>2
      <4>2. Width(n - i) \in Nat /\ Width(n - i) < length
        BY <1>3, <4>1
      <4> QED
        BY <1>2, <4>1, <4>2
    <3> QED
      BY <3>1, <3>2
  <2>2. n \in 1..n /\ n - n = 0 /\ length - 0 = length
    BY <1>1, <1>2
  <2>3. cut[n] = length
    BY <1>5, <1>9, <2>2
  <2> HIDE DEF start
  <2> QED
    BY <2>1, <2>3
<1>11. \A i \in 1..n : pieces[i] = IF Pointed(i) THEN <<Point, s[i]>> ELSE <<s[i]>>
  OBVIOUS
<1>12. pieces \in [1..n -> Seq(Digit \cup {Point})]
  <2>1. ASSUME NEW i \in 1..n
        PROVE  (IF Pointed(i) THEN <<Point, s[i]>> ELSE <<s[i]>>) \in Seq(Digit \cup {Point})
    <3>1. s[i] \in Digit
      BY <1>1
    <3>2. <<Point, s[i]>> \in Seq(Digit \cup {Point}) /\ <<s[i]>> \in Seq(Digit \cup {Point})
      BY <3>1
    <3> HIDE DEF Pointed
    <3> QED
      BY <3>2, Zenon
  <2> HIDE DEF Pointed
  <2> QED
    BY <2>1
<1> HIDE DEF cut, pieces
<1>13. ASSUME NEW i \in 1..n
       PROVE  /\ cut[i - 1] <= cut[i] /\ cut[i] <= length
              /\ pieces[i] = SubSeq(out, cut[i - 1] + 1, cut[i])
  <2> DEFINE last == length - Width(n - i)
  <2>1. cut[i] = last
    BY <1>9
  <2>2. /\ last \in 1..length /\ length - last = Width(n - i)
        /\ Width(n - i) \in Nat /\ Width(n - i) % 4 # 3 /\ DigitsAmong(Width(n - i)) = n - i
    BY <1>2, <1>3
  <2>3. out[last] = s[i]
    <3>1. n - (n - i) = i
      BY <1>1
    <3> HIDE DEF last
    <3>2. out[last] = s[n - DigitsAmong(length - last)]
      BY <1>2, <2>2
    <3> QED
      BY <2>2, <3>1, <3>2
  <2>4. ASSUME NEW p \in 1..length
        PROVE  /\ SubSeq(out, p, p) = <<out[p]>>
               /\ p + 1 <= length => SubSeq(out, p, p + 1) = <<out[p], out[p + 1]>>
    <3>1. p \in 1..Len(out) /\ Len(out) \in Nat
      BY <1>2
    <3>2. SubSeq(out, p, p) = <<out[p]>>
      BY <1>2, <3>1, OneOrTwo
    <3>3. ASSUME p + 1 <= length PROVE SubSeq(out, p, p + 1) = <<out[p], out[p + 1]>>
      BY <1>2, <3>1, <3>3, OneOrTwo
    <3> QED
      BY <3>2, <3>3
  <2> HIDE DEF last
  <2>5. CASE Pointed(i)
    <3>1. /\ i - 1 \in 1..n /\ n - (i - 1) = n - i + 1
          /\ Width(n - i + 1) = Width(n - i) + 2 /\ (Width(n - i + 1) - 1) % 4 = 3
      BY <1>3, <2>5
    <3>2. cut[i - 1] = length - Width(n - i + 1) /\ Width(n - i + 1) < length
      <4>1. cut[i - 1] = length - Width(n - (i - 1)) /\ Width(n - (i - 1)) < length
        BY <1>3, <1>9, <3>1
      <4> QED
        BY <3>1, <4>1
    <3>3. cut[i - 1] = last - 2 /\ last - 1 \in 1..length
          /\ length - (last - 1) = Width(n - i + 1) - 1
      BY <1>2, <2>2, <3>1, <3>2
    <3>4. out[last - 1] = Point
      BY <1>2, <3>1, <3>3, OneOrTwo
    <3>5. SubSeq(out, last - 1, last) = <<out[last - 1], out[last]>>
      <4>1. last - 1 \in 1..length /\ (last - 1) + 1 = last /\ last <= length
        BY <1>2, <2>2, <3>3
      <4> QED
        BY <2>4, <4>1
    <3>6. cut[i - 1] + 1 = last - 1 /\ cut[i - 1] <= last /\ last <= length
      BY <2>2, <3>3
    <3> QED
      BY <1>11, <2>1, <2>3, <2>5, <3>4, <3>5, <3>6
  <2>6. CASE ~Pointed(i)
    <3>1. cut[i - 1] = last - 1
      <4>1. CASE i = 1
        <5>1. cut[i - 1] = 0 /\ n - i = n - 1
          BY <1>9, <4>1
        <5> QED
          BY <1>2, <1>7, <2>2, <5>1
      <4>2. CASE i # 1
        <5>1. i > 1
          BY <1>1, <4>2
        <5>2. /\ i - 1 \in 1..n /\ n - (i - 1) = n - i + 1
              /\ Width(n - i + 1) = Width(n - i) + 1
          BY <1>3, <2>6, <5>1
        <5>3. cut[i - 1] = length - Width(n - i + 1)
          BY <1>9, <5>2
        <5> QED
          BY <1>2, <2>2, <5>2, <5>3
      <4> QED
        BY <4>1, <4>2
    <3>2. SubSeq(out, last, last) = <<out[last]>>
      BY <2>2, <2>4
    <3>3. cut[i - 1] + 1 = last /\ cut[i - 1] <= last /\ last <= length
      BY <1>2, <2>2, <3>1
    <3> QED
      BY <1>11, <2>1, <2>3, <2>6, <3>2, <3>3
  <2> QED
    BY <2>5, <2>6
<1>14. FlattenSeq(pieces) = out
  <2>1. Len(out) = length /\ out \in Seq(Digit \cup {Point})
    BY <1>2
  <2>2. cut[n] = Len(out) /\ cut[0] = 0
    BY <1>9, <1>10, <2>1
  <2>3. IsCut(out, n, pieces, cut)
    BY <1>10, <1>13, <2>1, <2>2 DEF IsCut
  <2> QED
    BY <1>1, <1>12, <2>1, <2>3, FlattenedPieces
<1> QED
  BY <1>6, <1>14 DEF out

\* Without its points, the grouped text is the digits again.
LEMMA WithoutItsPoints ==
  ASSUME NEW s \in Seq(Digit), s # <<>>
  PROVE  WithoutPoints(GroupedText(s)) = s
<1> DEFINE n == Len(s)
           length == Width(n - 1) + 1
           out == GroupedText(s)
           start(p) == IF p = 0 THEN 0 ELSE n - DigitsAmong(length - p)
           cut == [p \in 0..length |-> start(p)]
           pieces == [p \in 1..length |-> IF out[p] = Point THEN <<>> ELSE <<out[p]>>]
<1>1. n \in Nat /\ n > 0 /\ n - 1 \in Nat /\ \A i \in 1..n : s[i] \in Digit
  OBVIOUS
<1>2. /\ out \in Seq(Digit \cup {Point}) /\ Len(out) = length /\ length \in Nat /\ length > 0
      /\ \A p \in 1..length :
           IF (length - p) % 4 = 3 THEN out[p] = Point
           ELSE /\ n - DigitsAmong(length - p) \in 1..n
                /\ out[p] = s[n - DigitsAmong(length - p)] /\ out[p] # Point
  BY GroupedTextIsText
<1>3. WithoutPoints(out) = FlattenSeq(pieces)
  <2>1. DOMAIN out = 1..length
    BY <1>2
  <2> QED
    BY <2>1 DEF WithoutPoints
<1>4. DigitsAmong(length - 1) = n - 1 /\ DigitsAmong(0) = 0
      /\ \A e \in Nat : e <= length - 1 => DigitsAmong(e) \in 0..(n - 1)
  <2>1. /\ Width(n - 1) \in Nat /\ DigitsAmong(Width(n - 1)) = n - 1
        /\ \A e \in Nat : e <= Width(n - 1) => DigitsAmong(e) \in 0..(n - 1)
    BY <1>1, Thousands
  <2>2. length - 1 = Width(n - 1)
    BY <2>1
  <2> QED
    BY <2>1, <2>2 DEF DigitsAmong
<1> HIDE DEF n, length, out
<1>5. ASSUME NEW p \in 1..length
      PROVE  /\ cut[p] = n - DigitsAmong(length - p) /\ cut[p] \in 1..n
             /\ IF p > 1 /\ (length - p) % 4 = 3 THEN cut[p - 1] = cut[p]
                ELSE cut[p - 1] = cut[p] - 1
             /\ p = 1 => (length - p) % 4 # 3
  <2> DEFINE e == length - p
  <2>1. e \in Nat /\ e <= length - 1 /\ p \in Nat /\ p - 1 \in 0..length
    BY <1>2
  <2>2. DigitsAmong(e) \in 0..(n - 1)
    BY <1>4, <2>1
  <2>3. cut[p] = n - DigitsAmong(e)
    BY <2>1
  <2>4. cut[p - 1] = IF p = 1 THEN 0 ELSE n - DigitsAmong(length - (p - 1))
    BY <2>1
  <2>5. CASE p = 1
    <3>1. cut[p] = 1 /\ cut[p - 1] = 0
      BY <1>1, <1>4, <2>3, <2>4, <2>5
    <3>2. e % 4 # 3
      <4>1. e = Width(n - 1)
        BY <1>1, <1>2, <2>5, Thousands DEF length
      <4> QED
        BY <1>1, <4>1, Thousands
    <3> QED
      BY <1>1, <2>3, <2>5, <3>1, <3>2
  <2>6. CASE p # 1
    <3>1. length - (p - 1) = e + 1 /\ p > 1
      BY <1>2, <2>1, <2>6
    <3> HIDE DEF e, cut
    <3>2. cut[p - 1] = n - DigitsAmong(e + 1)
      BY <2>4, <2>6, <3>1
    <3>3. IF e % 4 = 3 THEN DigitsAmong(e + 1) = DigitsAmong(e)
          ELSE DigitsAmong(e + 1) = DigitsAmong(e) + 1
      BY <2>1, DigitByDigit
    <3>4. IF e % 4 = 3 THEN cut[p - 1] = cut[p] ELSE cut[p - 1] = cut[p] - 1
      BY <1>1, <2>2, <2>3, <3>2, <3>3
    <3>5. cut[p] \in 1..n
      BY <1>1, <2>2, <2>3
    <3> QED
      BY <2>3, <2>6, <3>1, <3>4, <3>5 DEF e
  <2> QED
    BY <2>5, <2>6
<1>6. cut[0] = 0 /\ cut[length] = n /\ cut \in [0..length -> Nat]
  <2>1. cut[0] = 0
    BY <1>2
  <2>2. cut[length] = n
    BY <1>1, <1>2, <1>4, <1>5
  <2>3. ASSUME NEW p \in 0..length PROVE start(p) \in Nat
    <3>1. CASE p = 0
      BY <3>1
    <3>2. CASE p # 0
      <4>1. length - p \in Nat /\ length - p <= length - 1
        BY <1>2, <3>2
      <4>2. DigitsAmong(length - p) \in 0..(n - 1)
        BY <1>4, <4>1
      <4> QED
        BY <1>1, <3>2, <4>2
    <3> QED
      BY <3>1, <3>2
  <2> HIDE DEF start
  <2>4. cut \in [0..length -> Nat]
    BY <2>3
  <2> QED
    BY <2>1, <2>2, <2>4
<1>7. \A p \in 1..length : pieces[p] = IF out[p] = Point THEN <<>> ELSE <<out[p]>>
  OBVIOUS
<1> HIDE DEF cut
<1>8. pieces \in [1..length -> Seq(Digit)]
  <2>1. ASSUME NEW p \in 1..length
        PROVE  (IF out[p] = Point THEN <<>> ELSE <<out[p]>>) \in Seq(Digit)
    BY <1>1, <1>2
  <2> QED
    BY <2>1
<1> HIDE DEF pieces
<1>9. ASSUME NEW p \in 1..length
      PROVE  /\ cut[p - 1] <= cut[p] /\ cut[p] <= n
             /\ pieces[p] = SubSeq(s, cut[p - 1] + 1, cut[p])
  <2>1. cut[p] \in 1..n /\ cut[p] = n - DigitsAmong(length - p)
    BY <1>5
  <2>2. CASE (length - p) % 4 = 3
    <3>1. out[p] = Point /\ cut[p - 1] = cut[p]
      <4>1. p > 1
        BY <1>5, <2>2
      <4> QED
        BY <1>2, <1>5, <2>2, <4>1
    <3>2. \A c \in 1..n : SubSeq(s, c + 1, c) = <<>>
      BY <1>1
    <3>3. pieces[p] = <<>>
      BY <1>7, <3>1
    <3>4. SubSeq(s, cut[p - 1] + 1, cut[p]) = <<>>
      BY <2>1, <3>1, <3>2
    <3>5. cut[p - 1] <= cut[p] /\ cut[p] <= n
      BY <1>1, <2>1, <3>1
    <3> QED
      BY <3>3, <3>4, <3>5
  <2>3. CASE (length - p) % 4 # 3
    <3>1. out[p] = s[cut[p]] /\ out[p] # Point /\ cut[p - 1] = cut[p] - 1
      BY <1>2, <1>5, <2>1, <2>3
    <3>2. SubSeq(s, cut[p], cut[p]) = <<s[cut[p]]>>
      BY <2>1, OneOrTwo DEF n
    <3>3. cut[p - 1] + 1 = cut[p] /\ cut[p - 1] <= cut[p] /\ cut[p] <= n
      BY <1>1, <2>1, <3>1
    <3>4. pieces[p] = <<s[cut[p]]>>
      BY <1>7, <3>1
    <3> QED
      BY <3>2, <3>3, <3>4
  <2> QED
    BY <2>2, <2>3
<1>10. FlattenSeq(pieces) = s
  <2>1. IsCut(s, length, pieces, cut)
    BY <1>6, <1>9 DEF IsCut, n
  <2> QED
    BY <1>2, <1>8, <2>1, FlattenedPieces
<1> QED
  BY <1>3, <1>10 DEF out

\* The digits of a number without the zeros before it: at least one, of the same value.
LEMMA TrimmedDigits ==
  ASSUME NEW s \in Seq(Digit), s # <<>>
  PROVE  /\ TrimLeadingZeros(s) \in Seq(Digit) /\ TrimLeadingZeros(s) # <<>>
         /\ DigitsValue(TrimLeadingZeros(s)) = DigitsValue(s)
<1> DEFINE kept == {i \in DOMAIN s : s[i] # 0} \cup {Len(s)}
           first == CHOOSE i \in kept : \A j \in kept : i <= j
           zeros == SubSeq(s, 1, first - 1)
           rest == SubSeq(s, first, Len(s))
<1>1. Len(s) \in Nat /\ Len(s) > 0 /\ DOMAIN s = 1..Len(s) /\ s \in Seq(Nat)
      /\ \A i \in 1..Len(s) : s[i] \in Digit
  BY DEF Digit
<1>2. kept \subseteq Nat /\ kept # {} /\ kept \subseteq 1..Len(s)
  BY <1>1
<1>3. \E i \in kept : \A j \in kept : i <= j
  BY <1>2, FirstOf, Zenon
<1>4. first \in kept /\ \A j \in kept : first <= j
  BY <1>3, Zenon
<1>5. TrimLeadingZeros(s) = rest
  BY DEF TrimLeadingZeros
<1>6. first \in 1..Len(s)
  BY <1>2, <1>4
<1>7. \A i \in 1..(first - 1) : s[i] = 0
  <2>1. \A i \in 1..Len(s) : s[i] # 0 => first <= i
    BY <1>1, <1>4
  <2> QED
    BY <1>6, <2>1
<1> HIDE DEF first
<1>8. first - 1 \in Nat /\ first - 1 <= Len(s) /\ (first - 1) + 1 = first
  BY <1>6
<1>9. /\ zeros \in Seq(Digit) /\ Len(zeros) = first - 1
      /\ \A i \in 1..(first - 1) : zeros[i] = 0
  BY <1>6, <1>7, <1>8
<1>10. rest \in Seq(Digit) /\ Len(rest) = Len(s) - (first - 1) /\ s = zeros \o rest
  BY <1>8, CutInTwo
<1>11. zeros = Zeros(first - 1)
  <2>1. /\ Zeros(first - 1) \in Seq({0}) /\ Len(Zeros(first - 1)) = first - 1
        /\ \A i \in 1..(first - 1) : Zeros(first - 1)[i] = 0
    BY <1>8 DEF Zeros
  <2>2. Zeros(first - 1) \in Seq(Digit)
    BY <2>1, SeqOfSuperset DEF Digit
  <2> HIDE DEF zeros
  <2> QED
    BY <1>9, <2>1, <2>2, SeqEqual
<1> HIDE DEF zeros, rest
<1>12. zeros \in Seq(Nat) /\ rest \in Seq(Nat)
  <2>1. Digit \subseteq Nat
    BY DEF Digit
  <2> QED
    BY <1>9, <1>10, <2>1, SeqOfSuperset
<1>13. /\ DigitsValue(zeros \o rest) =
            DigitsValue(zeros) * PowerOfTen[Len(rest)] + DigitsValue(rest)
       /\ DigitsValue(zeros) = 0 /\ DigitsValue(rest) \in Nat
       /\ PowerOfTen[Len(rest)] \in Nat
  <2>1. Len(rest) \in Nat
    BY <1>12
  <2>2. DigitsValue(zeros \o rest) =
          DigitsValue(zeros) * PowerOfTen[Len(rest)] + DigitsValue(rest)
    BY <1>12, ValueOfConcat
  <2>3. DigitsValue(zeros) = 0
    BY <1>8, <1>11, ValueOfZeros
  <2> QED
    BY <1>12, <2>1, <2>2, <2>3, ValueIsNat, Powers
<1>14. rest # <<>>
  BY <1>1, <1>6, <1>10
<1>15. DigitsValue(rest) = DigitsValue(s)
  <2>1. DigitsValue(s) = DigitsValue(zeros) * PowerOfTen[Len(rest)] + DigitsValue(rest)
    BY <1>10, <1>13, Zenon
  <2>2. DigitsValue(zeros) * PowerOfTen[Len(rest)] = 0
    BY <1>13
  <2> QED
    BY <1>13, <2>1, <2>2
<1> QED
  BY <1>5, <1>10, <1>14, <1>15

\* What the page shows of an amount in digits.
LEMMA DisplayOfDigits ==
  ASSUME NEW s \in Seq(Digit), s # <<>>, NEW d \in Nat
  PROVE  LET x == FormatDisplay(s, d)
             digits == WithoutPoints(x.whole)
         IN  /\ AllDigits(digits) /\ Len(x.frac) = d
             /\ DigitsValue(digits \o x.frac) = DigitsValue(s)
             /\ \A i \in DOMAIN x.whole : x.whole[i] = Point <=> (Len(x.whole) - i) % 4 = 3
<1> DEFINE zeros == Zeros(d + 1 - Len(s))
           padded == PadStart(s, d + 1)
           cut == Len(padded) - d
           left == SubSeq(padded, 1, cut)
           right == SubSeq(padded, cut + 1, Len(padded))
           trimmed == TrimLeadingZeros(left)
           x == FormatDisplay(s, d)
<1>1. Digit \subseteq Nat /\ 0 \in Digit /\ Len(s) \in Nat /\ Len(s) > 0
  BY DEF Digit
<1>2. zeros \in Seq(Digit) /\ Len(zeros) \in Nat /\ Len(zeros) + Len(s) >= d + 1
      /\ DigitsValue(zeros) = 0
  <2>1. CASE d + 1 - Len(s) \in Nat
    <3>1. zeros \in Seq({0}) /\ Len(zeros) = d + 1 - Len(s) /\ DigitsValue(zeros) = 0
      BY <2>1, ValueOfZeros
    <3>2. zeros \in Seq(Digit)
      <4> HIDE DEF zeros
      <4> QED
        BY <1>1, <3>1, SeqOfSuperset
    <3> QED
      BY <1>1, <2>1, <3>1, <3>2
  <2>2. CASE d + 1 - Len(s) \notin Nat
    <3>1. d + 1 - Len(s) < 0
      BY <1>1, <2>2
    <3>2. zeros = <<>>
      BY <3>1 DEF Zeros
    <3>3. DigitsValue(<<>>) = 0 /\ <<>> \in Seq(Digit) /\ Len(<<>>) = 0
      BY ValueOfZeros, 0 \in Nat
    <3> HIDE DEF zeros
    <3> QED
      BY <1>1, <3>1, <3>2, <3>3
  <2> QED
    BY <2>1, <2>2
<1>3. padded = zeros \o s
  BY DEF PadStart
<1>4. x = Text(Grouped(trimmed), d > 0, right)
  BY DEF FormatDisplay
<1>5. x.whole = Grouped(trimmed) /\ x.frac = right
  BY <1>4 DEF Text
<1> HIDE DEF zeros, padded, x
<1>6. padded \in Seq(Digit) /\ Len(padded) >= d + 1 /\ Len(padded) \in Nat
  BY <1>1, <1>2, <1>3
<1>7. cut \in Nat /\ cut > 0 /\ cut <= Len(padded)
  BY <1>6
<1>8. /\ left \in Seq(Digit) /\ right \in Seq(Digit) /\ Len(right) = d /\ padded = left \o right
  <2> HIDE DEF cut
  <2>1. Len(padded) - cut = d
    BY <1>6 DEF cut
  <2> QED
    BY <1>6, <1>7, <2>1, CutInTwo
<1>9. Len(left) = cut
  BY <1>6, <1>7
<1> HIDE DEF left, right, cut
<1>10. left # <<>>
  BY <1>7, <1>8, <1>9
<1>11. trimmed \in Seq(Digit) /\ trimmed # <<>> /\ DigitsValue(trimmed) = DigitsValue(left)
  BY <1>8, <1>10, TrimmedDigits
<1> HIDE DEF trimmed
<1>12. x.whole = GroupedText(trimmed) /\ WithoutPoints(x.whole) = trimmed
  BY <1>5, <1>11, GroupedDigits, WithoutItsPoints
<1>13. AllDigits(trimmed)
  BY <1>11 DEF AllDigits, ToSet
<1>14. DigitsValue(trimmed \o right) = DigitsValue(s)
  <2>1. /\ trimmed \in Seq(Nat) /\ right \in Seq(Nat) /\ left \in Seq(Nat)
        /\ zeros \in Seq(Nat) /\ s \in Seq(Nat)
    BY <1>1, <1>2, <1>8, <1>11, SeqOfSuperset
  <2>2. DigitsValue(trimmed \o right) = DigitsValue(left \o right)
    <3>1. /\ DigitsValue(trimmed \o right)
               = DigitsValue(trimmed) * PowerOfTen[Len(right)] + DigitsValue(right)
          /\ DigitsValue(left \o right)
               = DigitsValue(left) * PowerOfTen[Len(right)] + DigitsValue(right)
      BY <2>1, ValueOfConcat
    <3> QED
      BY <1>11, <3>1, Zenon
  <2>3. DigitsValue(zeros \o s) = DigitsValue(zeros) * PowerOfTen[Len(s)] + DigitsValue(s)
    BY <2>1, ValueOfConcat
  <2>4. DigitsValue(zeros) * PowerOfTen[Len(s)] = 0 /\ DigitsValue(s) \in Nat
    <3>1. PowerOfTen[Len(s)] \in Nat /\ DigitsValue(s) \in Nat
      BY <1>1, <2>1, Powers, ValueIsNat
    <3> QED
      BY <1>2, <3>1
  <2> QED
    BY <1>3, <1>8, <2>2, <2>3, <2>4
<1>15. \A i \in DOMAIN x.whole : x.whole[i] = Point <=> (Len(x.whole) - i) % 4 = 3
  <2> DEFINE out == GroupedText(trimmed)
  <2>1. /\ out \in Seq(Digit \cup {Point})
        /\ \A i \in 1..Len(out) :
             IF (Len(out) - i) % 4 = 3 THEN out[i] = Point ELSE out[i] # Point
    BY <1>11, GroupedTextIsText
  <2> HIDE DEF out
  <2>2. \A i \in DOMAIN out : out[i] = Point <=> (Len(out) - i) % 4 = 3
    BY <2>1
  <2> QED
    BY <1>12, <2>2 DEF out
<1> QED
  BY <1>5, <1>8, <1>12, <1>13, <1>14, <1>15 DEF x

-----------------------------------------------------------------------------
(* An amount that is read and written in turn.                             *)

\* What the readers and the page hold is what they make of the text that is there now;
\* and a text that was written is the format of the units it was written from.
ExchangeInv ==
  /\ decimals \in Nat
  /\ IsText(text)
  /\ goUnits \subseteq GoParseAmount(text, decimals)
  /\ jsUnits \subseteq JsParseAmount(text, decimals)
  /\ signed \subseteq NumberOf(text)
  /\ AllDigits(Characters(text)) => shown \subseteq {FormatDisplay(text.whole, decimals)}
  /\ \A n \in origin : n \in Int /\ text = GoFormatAmount(n, decimals)

\* A configured text has not been read yet.
LEMMA InitExchangeInv ==
  ASSUME ExchangeInit
  PROVE  ExchangeInv
<1>1. decimals \in Nat
  BY DecimalsAssumption DEF ExchangeInit
<1>2. IsText(text)
  BY TextsAssumption DEF ExchangeInit
<1>3. goUnits = {} /\ jsUnits = {} /\ signed = {} /\ origin = {} /\ shown = {}
  BY DEF ExchangeInit, Fail
<1> QED
  BY <1>1, <1>2, <1>3 DEF ExchangeInv

\* A text that has just been written from units, whichever program read those.
LEMMA ExchangeWrite ==
  ASSUME ExchangeInv, NEW n \in Int, NEW new, new = GoFormatAmount(n, decimals),
         Write(n, new)
  PROVE  ExchangeInv'
<1>1. decimals \in Nat /\ decimals' = decimals /\ text' = new /\ origin' = {n}
  BY DEF ExchangeInv, Write
<1>2. goUnits' = {} /\ jsUnits' = {} /\ signed' = {} /\ shown' = {}
  BY DEF Write, Fail
<1>3. IsText(new)
  BY <1>1, FormatIsText
<1> QED
  BY <1>1, <1>2, <1>3 DEF ExchangeInv

\* What is read is read in the text that is there; what is written was read before.
LEMMA ExchangeStep ==
  ASSUME ExchangeInv, [ExchangeNext]_exchangeVars
  PROVE  ExchangeInv'
<1>1. CASE GoReads
  <2>1. goUnits' = GoParseAmount(text, decimals)
    BY <1>1 DEF GoReads
  <2> QED
    BY <1>1, <2>1 DEF ExchangeInv, GoReads
<1>2. CASE JsReads
  <2>1. jsUnits' = JsParseAmount(text, decimals)
    BY <1>2 DEF JsReads
  <2> QED
    BY <1>2, <2>1 DEF ExchangeInv, JsReads
<1>3. CASE PageSigns
  <2>1. signed' \subseteq NumberOf(text)
    BY <1>3 DEF PageSigns, PageParseAmount
  <2> QED
    BY <1>3, <2>1 DEF ExchangeInv, PageSigns
<1>4. CASE PageShows
  <2>1. AllDigits(Characters(text)) => shown' = {FormatDisplay(text.whole, decimals)}
    BY <1>4 DEF PageShows
  <2> QED
    BY <1>4, <2>1 DEF ExchangeInv, PageShows
<1>5. ASSUME NEW n \in goUnits, GoWrites(n)
      PROVE  ExchangeInv'
  <2>1. n \in Int
    BY <1>5, ParsedNumbers DEF ExchangeInv
  <2>2. Write(n, GoFormatAmount(n, decimals))
    BY <1>5 DEF GoWrites
  <2> QED
    BY <2>1, <2>2, ExchangeWrite
<1>6. ASSUME NEW n \in jsUnits, JsWrites(n)
      PROVE  ExchangeInv'
  <2>1. n \in Nat /\ decimals \in Nat
    BY <1>6, ParsedNumbers DEF ExchangeInv
  <2>2. JsFormatAmount(n, decimals) = GoFormatAmount(n, decimals)
    BY <2>1, FormatIsText
  <2>3. Write(n, GoFormatAmount(n, decimals))
    BY <1>6, <2>2 DEF JsWrites
  <2> QED
    BY <2>1, <2>3, ExchangeWrite
<1>7. CASE UNCHANGED exchangeVars
  BY <1>7 DEF ExchangeInv, exchangeVars
<1> QED
  BY <1>1, <1>2, <1>3, <1>4, <1>5, <1>6, <1>7 DEF ExchangeNext

\* The invariant holds of every text that is ever written, however often it went
\* through either language.
THEOREM ExchangeInvariance == ExchangeSpec => []ExchangeInv
<1>1. ExchangeInit => ExchangeInv
  BY InitExchangeInv
<1>2. ExchangeInv /\ [ExchangeNext]_exchangeVars => ExchangeInv'
  BY ExchangeStep
<1> QED
  BY <1>1, <1>2, PTL DEF ExchangeSpec

\* A plain decimal price is rounded down to atomic units by both languages.
THEOREM RoundedDown == ExchangeSpec => []PlainTextIsRoundedDown
<1>1. ExchangeInv => PlainTextIsRoundedDown
  <2>1. SUFFICES ASSUME ExchangeInv, text.point, AllDigits(text.whole), AllDigits(text.frac)
                 PROVE  LET exact    == DigitsValue(text.whole \o text.frac) * PowerOfTen[decimals]
                            expected == {exact \div PowerOfTen[Len(text.frac)]}
                        IN  /\ JsParseAmount(text, decimals) = expected
                            /\ GoParseAmount(text, decimals) =
                                 IF decimals = 0 THEN Fail ELSE expected
    BY DEF PlainTextIsRoundedDown
  <2> QED
    BY <2>1, PlainText DEF ExchangeInv
<1> QED
  BY <1>1, ExchangeInvariance, PTL

\* Both languages read the same units in any text that both accept.
THEOREM OneTextOneAmount == ExchangeSpec => []ReadersAgree
<1>1. ExchangeInv => ReadersAgree
  <2>1. SUFFICES ASSUME ExchangeInv, goUnits # {}, jsUnits # {}
                 PROVE  goUnits = jsUnits
    BY DEF ReadersAgree, Fail
  <2>2. \A n \in goUnits, m \in jsUnits : n = m
    BY <2>1, ParsersAgree DEF ExchangeInv
  <2> QED
    BY <2>1, <2>2
<1> QED
  BY <1>1, ExchangeInvariance, PTL

\* What was formatted is read back as itself, or in the way that asks for less.
THEOREM NothingIsAdded == ExchangeSpec => []NeverReadsBackAsMore
<1>1. ExchangeInv => NeverReadsBackAsMore
  <2>1. SUFFICES ASSUME ExchangeInv, NEW n \in origin, n >= 0
                 PROVE  /\ text.point => /\ GoParseAmount(text, decimals) = {n}
                                         /\ JsParseAmount(text, decimals) = {n}
                        /\ \A m \in goUnits \cup jsUnits : m = n \/ m * PowerOfTen[decimals] = n
    BY DEF NeverReadsBackAsMore
  <2>2. n \in Nat /\ decimals \in Nat /\ text = GoFormatAmount(n, decimals)
    BY <2>1 DEF ExchangeInv
  <2>3. \A m \in goUnits \cup jsUnits :
          m \in GoParseAmount(text, decimals) \cup JsParseAmount(text, decimals)
    BY <2>1 DEF ExchangeInv
  <2>4. /\ text.point => /\ GoParseAmount(text, decimals) = {n}
                         /\ JsParseAmount(text, decimals) = {n}
        /\ ~text.point => \A m \in GoParseAmount(text, decimals) \cup JsParseAmount(text, decimals) :
                            m * PowerOfTen[decimals] = n
    BY <2>2, ReadBack
  <2> QED
    BY <2>3, <2>4
<1> QED
  BY <1>1, ExchangeInvariance, PTL

\* The page signs the number that the verifiers read.
THEOREM PageAgrees == ExchangeSpec => []PageSignsWhatIsRead
<1>1. ExchangeInv => PageSignsWhatIsRead
  BY PageReads DEF ExchangeInv, PageSignsWhatIsRead
<1> QED
  BY <1>1, ExchangeInvariance, PTL

\* What the page displays reads back as the amount.
THEOREM DisplaysTheAmount == ExchangeSpec => []DisplayReadsBack
<1>1. ExchangeInv => DisplayReadsBack
  <2>1. SUFFICES ASSUME ExchangeInv, AllDigits(Characters(text))
                 PROVE  \A x \in {FormatDisplay(text.whole, decimals)} :
                          LET digits == WithoutPoints(x.whole)
                          IN  /\ AllDigits(digits) /\ Len(x.frac) = decimals
                              /\ DigitsValue(digits \o x.frac) = DigitsValue(text.whole)
                              /\ \A i \in DOMAIN x.whole :
                                   x.whole[i] = Point <=> (Len(x.whole) - i) % 4 = 3
    BY DEF ExchangeInv, DisplayReadsBack
  <2>2. decimals \in Nat /\ text.whole \in Seq(Character \ {Point}) /\ text.frac \in Seq(Character)
    BY <2>1 DEF ExchangeInv, IsText
  <2>3. ~text.point
    <3>1. SUFFICES ASSUME text.point PROVE FALSE
      OBVIOUS
    <3>2. Characters(text) = text.whole \o <<Point>> \o text.frac
      BY <3>1 DEF Characters
    <3> DEFINE whole == text.whole
               frac == text.frac
               place == Len(whole) + 1
    <3>3. whole \in Seq(Character) /\ frac \in Seq(Character) /\ <<Point>> \in Seq(Character)
      BY <2>2, SeqOfSuperset DEF Character
    <3> HIDE DEF whole, frac
    <3>4. /\ whole \o <<Point>> \in Seq(Character) /\ Len(whole \o <<Point>>) = place
          /\ place \in Nat /\ place > 0 /\ (whole \o <<Point>>)[place] = Point
      BY <3>3
    <3>5. /\ place \in DOMAIN (whole \o <<Point>> \o frac)
          /\ (whole \o <<Point>> \o frac)[place] = Point
      <4> DEFINE left == whole \o <<Point>>
      <4> HIDE DEF left, place
      <4>1. left \in Seq(Character) /\ Len(left) = place /\ left[place] = Point
        BY <3>4 DEF left
      <4>2. place \in DOMAIN (left \o frac) /\ (left \o frac)[place] = Point
        BY <3>3, <3>4, <4>1
      <4> QED
        BY <4>2 DEF left
    <3>6. Point \in ToSet(Characters(text))
      BY <3>2, <3>5 DEF ToSet, whole, frac
    <3> QED
      BY <2>1, <3>6, NoDigits DEF AllDigits
  <2>4. text.whole \in Seq(Digit) /\ text.whole # <<>>
    BY <2>1, <2>2, <2>3 DEF Characters, AllDigits, ToSet
  <2> QED
    BY <2>2, <2>4, DisplayOfDigits
<1> QED
  BY <1>1, ExchangeInvariance, PTL

-----------------------------------------------------------------------------
(* The Go resource server.                                                 *)

\* What is asked of a route, if anything, comes from the configuration.
LEMMA GoPriceIsConfigured ==
  ASSUME moneyParsers \in Seq(Parsers), NEW rt \in Routes,
         NEW a \in GoParsePrice(rt, moneyParsers)
  PROVE  a \in Priced
<1>1. CASE rt.price.kind = "explicit"
  BY <1>1 DEF GoParsePrice, Priced
<1>2. CASE rt.price.kind # "explicit"
  <2>1. a \in AskParsers(moneyParsers, rt.network, {Skips, Errs})
    BY <1>2 DEF GoParsePrice, Fail
  <2>2. PICK i \in DOMAIN moneyParsers : a = moneyParsers[i].answer
    BY <2>1 DEF AskParsers
  <2>3. moneyParsers[i] \in Parsers
    BY <2>2
  <2> QED
    BY <1>2, <2>2, <2>3 DEF Priced
<1> QED
  BY <1>1, <1>2

\* The decimals that an amount is converted with.
LEMMA DecimalsOfAsset ==
  ASSUME \A k \in DOMAIN assetDecimals : assetDecimals[k] \in Decimals, NEW asset, NEW network
  PROVE  /\ GetAssetDecimals(assetDecimals, asset, network) \in Decimals \cup {DefaultDecimals}
         /\ GetAssetDecimals(assetDecimals, asset, network) \in Nat
  BY DecimalsAssumption, DefaultDecimalsAssumption DEF GetAssetDecimals


\* The extra of request c's amount is a map of its own, or one that outlives it.
Whose(c, a) == a.extra = c \/ a.extra \in LongLived

\* Its amount has not been converted yet.
AsPriced(a) ==
  a = AssetAmount(a.amount, a.asset, a.extra) /\ \E b \in Priced : a.amount = b.amount

\* A client can pay it.
Payable(payTo, asset, amount) ==
  /\ IsValidAddress(payTo)
  /\ IsValidContractPackageHash(asset)
  /\ AllDigits(amount.whole) => IsDecimal(amount)

Named(extra) == extra.name # "" /\ extra.version # ""

\* What the facilitator announces for the route's network.
Announces(extra, rt, keys) ==
  \A key \in keys : extra[key] = SupportedExtra[rt.network][key]

\* Where each request is, and what it has checked and forwarded by then.
GoCall(c) ==
  /\ pc[c] # "answered" => answer[c] = {}
  /\ pc[c] = "idle" => wanted[c] = {} /\ route[c] = {}
  /\ \A rt, other \in route[c] : rt = other
  /\ \A a, b \in wanted[c] : a = b
  /\ \A a \in wanted[c] : Whose(c, a)
  /\ pc[c] = "priced" => \A a \in wanted[c] : AsPriced(a)
  /\ pc[c] = "forwarding" => \A a \in wanted[c], rt \in route[c] :
       /\ Payable(rt.payTo, a.asset, a.amount)
       /\ Named(maps[a.extra]) /\ pending[c] \subseteq ForwardedKeys(rt.network)
       /\ ~WrittenFromElsewhere(c) =>
            Announces(maps[a.extra], rt, ForwardedKeys(rt.network) \ pending[c])
  /\ \A x \in answer[c] :
       /\ Payable(x.payTo, x.asset, x.amount) /\ Named(x)
       /\ \A rt \in route[c] :
            ~WrittenFromElsewhere(c) => Announces(x, rt, ForwardedKeys(rt.network))

GoTypes ==
  /\ moneyParsers \in Seq(Parsers)
  /\ \A k \in DOMAIN assetDecimals : assetDecimals[k] \in Decimals
  /\ DOMAIN maps = DOMAIN PriceMaps \cup Requests
  /\ \A m \in DOMAIN maps : DOMAIN maps[m] = DOMAIN EmptyExtra
  /\ DOMAIN pc = Requests /\ DOMAIN route = Requests /\ DOMAIN wanted = Requests
  /\ DOMAIN pending = Requests /\ DOMAIN answer = Requests
  /\ \A c \in Requests : route[c] \subseteq Routes /\ writers[c] \subseteq Requests

GoInv == GoTypes /\ \A c \in Requests : GoCall(c)

\* No request has come yet.
LEMMA InitGoInv ==
  ASSUME GoInit
  PROVE  GoInv
<1>1. /\ moneyParsers = <<>> /\ assetDecimals = <<>>
      /\ maps = [m \in DOMAIN PriceMaps \cup Requests |->
                   IF m \in Requests THEN EmptyExtra ELSE PriceMaps[m]]
      /\ pc = [c \in Requests |-> "idle"] /\ route = [c \in Requests |-> {}]
      /\ wanted = [c \in Requests |-> {}] /\ answer = [c \in Requests |-> {}]
      /\ pending = [c \in Requests |-> {}] /\ writers = [c \in Requests |-> {}]
  BY DEF GoInit, ServerInit
<1>2. GoTypes
  <2>1. moneyParsers \in Seq(Parsers) /\ DOMAIN assetDecimals = {}
    BY <1>1
  <2>2. \A m \in DOMAIN maps : DOMAIN maps[m] = DOMAIN EmptyExtra
    BY <1>1, PricesAssumption
  <2> QED
    BY <1>1, <2>1, <2>2 DEF GoTypes
<1>3. ASSUME NEW c \in Requests
      PROVE  GoCall(c)
  BY <1>1 DEF GoCall
<1> QED
  BY <1>2, <1>3 DEF GoInv

\* What has been written from elsewhere stays so.
LEMMA StaysWritten ==
  ASSUME GoTypes, NEW c \in Requests, wanted'[c] = wanted[c], writers[c] \subseteq writers'[c],
         \A d \in Requests : route[d] # {} => route'[d] = route[d],
         WrittenFromElsewhere(c)
  PROVE  WrittenFromElsewhere(c)'
<1>1. PICK a \in wanted[c] : a.extra \in LongLived
  BY DEF WrittenFromElsewhere
<1>2. PICK d \in writers[c] : \E rt \in route[c], other \in route[d] : other.network # rt.network
  BY DEF WrittenFromElsewhere
<1>3. d \in Requests /\ route'[d] = route[d] /\ route'[c] = route[c]
  BY <1>2 DEF GoTypes
<1>4. d \in writers'[c] /\ \E rt \in route'[c], other \in route'[d] : other.network # rt.network
  BY <1>2, <1>3
<1>5. a \in wanted'[c]
  BY <1>1
<1> QED
  BY <1>1, <1>4, <1>5 DEF WrittenFromElsewhere, LongLived

\* A request is not concerned by what others do, unless they write into its map.
LEMMA GoUnconcerned ==
  ASSUME NEW c \in Requests, GoCall(c),
         pc'[c] = pc[c], route'[c] = route[c], wanted'[c] = wanted[c],
         pending'[c] = pending[c], answer'[c] = answer[c],
         WrittenFromElsewhere(c) => WrittenFromElsewhere(c)',
         \A a \in wanted[c] : maps'[a.extra] = maps[a.extra]
  PROVE  GoCall(c)'
<1>1. /\ pc'[c] # "answered" => answer'[c] = {}
      /\ pc'[c] = "idle" => wanted'[c] = {} /\ route'[c] = {}
      /\ \A rt, other \in route'[c] : rt = other
      /\ \A a, b \in wanted'[c] : a = b
  BY DEF GoCall
<1>2. \A a \in wanted'[c] : Whose(c, a)'
  BY DEF GoCall, Whose, LongLived
<1>3. pc'[c] = "priced" => \A a \in wanted'[c] : AsPriced(a)
  BY DEF GoCall
<1>4. pc'[c] = "forwarding" => \A a \in wanted'[c], rt \in route'[c] :
       /\ Payable(rt.payTo, a.asset, a.amount)
       /\ Named(maps'[a.extra]) /\ pending'[c] \subseteq ForwardedKeys(rt.network)
       /\ ~WrittenFromElsewhere(c)' =>
            Announces(maps'[a.extra], rt, ForwardedKeys(rt.network) \ pending'[c])
  BY DEF GoCall
<1>5. \A x \in answer'[c] :
       /\ Payable(x.payTo, x.asset, x.amount) /\ Named(x)
       /\ \A rt \in route'[c] :
            ~WrittenFromElsewhere(c)' => Announces(x, rt, ForwardedKeys(rt.network))
  BY DEF GoCall
<1> QED
  BY <1>1, <1>2, <1>3, <1>4, <1>5 DEF GoCall

\* The configuration concerns none.
LEMMA GoConfigures ==
  ASSUME GoInv, UNCHANGED <<requests, pending, writers>>,
         moneyParsers' \in Seq(Parsers),
         \A k \in DOMAIN assetDecimals' : assetDecimals'[k] \in Decimals
  PROVE  GoInv'
<1>1. GoTypes'
  BY DEF GoInv, GoTypes, requests
<1>2. ASSUME NEW c \in Requests PROVE GoCall(c)'
  <2>1. WrittenFromElsewhere(c) => WrittenFromElsewhere(c)'
    BY <1>2, StaysWritten DEF GoInv, requests
  <2> QED
    BY <1>2, <2>1, GoUnconcerned DEF GoInv, requests
<1> QED
  BY <1>1, <1>2 DEF GoInv

\* The map that a request is given is its own, or is in the configuration and not made
\* anew.
LEMMA GoParses ==
  ASSUME GoInv, NEW c \in Requests, NEW rt \in Routes, ParsePrice(c, rt)
  PROVE  GoInv'
<1>1. /\ GoTypes /\ GoCall(c)
      /\ pc[c] = "idle" /\ wanted[c] = {} /\ answer[c] = {} /\ route[c] = {}
  BY DEF GoInv, GoCall, ParsePrice
<1>2. /\ route' = [route EXCEPT ![c] = {rt}]
      /\ UNCHANGED <<moneyParsers, assetDecimals, pending, answer, writers>>
  BY DEF ParsePrice, config
<1> DEFINE Given(b) == AsPriced(b) /\ (b.extra = c \/ b.extra \in LongLived)
           Parsed ==
             /\ DOMAIN pc' = Requests /\ pc'[c] \in {"refused", "priced"}
             /\ DOMAIN wanted' = Requests
             /\ \A b \in wanted'[c] : Given(b)
             /\ \A b, d \in wanted'[c] : b = d
             /\ DOMAIN maps' = DOMAIN maps /\ DOMAIN maps'[c] = DOMAIN EmptyExtra
             /\ \A d \in Requests \ {c} : pc'[d] = pc[d] /\ wanted'[d] = wanted[d]
             /\ \A m \in DOMAIN maps \ {c} : maps'[m] = maps[m]
<1>3. Parsed
  <2>1. CASE GoParsePrice(rt, moneyParsers) = Fail /\ Goes(c, "refused") /\ UNCHANGED <<maps, wanted>>
    BY <1>1, <2>1 DEF GoTypes, Goes
  <2>2. ASSUME NEW a \in GoParsePrice(rt, moneyParsers),
               Goes(c, "priced"),
               IF OwnMap(a)
               THEN /\ maps' = [maps EXCEPT ![c] = Contents(a)]
                    /\ wanted' = [wanted EXCEPT ![c] = {[a EXCEPT !.extra = c]}]
               ELSE /\ maps' = maps
                    /\ wanted' = [wanted EXCEPT ![c] = {a}]
        PROVE  Parsed
    <3>1. a \in Priced
      BY <1>1, <2>2, GoPriceIsConfigured DEF GoTypes
    <3>2. /\ a = AssetAmount(a.amount, a.asset, a.extra)
          /\ a.extra \in DOMAIN PriceMaps \cup {NoMap}
      BY <3>1, PricesAssumption
    <3>3. DOMAIN pc' = Requests /\ pc'[c] = "priced" /\ \A d \in Requests \ {c} : pc'[d] = pc[d]
      BY <1>1, <2>2 DEF GoTypes, Goes
    <3>4. CASE OwnMap(a)
      <4> DEFINE b == [a EXCEPT !.extra = c]
      <4>1. /\ b = AssetAmount(b.amount, b.asset, b.extra)
            /\ b.amount = a.amount /\ b.extra = c
        BY <3>2 DEF AssetAmount
      <4>2. DOMAIN Contents(a) = DOMAIN EmptyExtra
        BY <1>1, <3>2 DEF Contents, GoTypes
      <4>3. Given(b)
        BY <3>1, <4>1 DEF AsPriced
      <4>4. maps' = [maps EXCEPT ![c] = Contents(a)] /\ wanted' = [wanted EXCEPT ![c] = {b}]
        BY <2>2, <3>4
      <4> HIDE DEF b, Given
      <4> QED
        BY <1>1, <3>3, <4>2, <4>3, <4>4 DEF GoTypes
    <3>5. CASE ~OwnMap(a)
      <4>1. a.extra \in LongLived
        BY <3>2, <3>5 DEF OwnMap, LongLived
      <4>2. Given(a)
        BY <3>1, <3>2, <4>1 DEF AsPriced
      <4>3. maps' = maps /\ wanted' = [wanted EXCEPT ![c] = {a}]
        BY <2>2, <3>5
      <4> HIDE DEF Given
      <4> QED
        BY <1>1, <3>3, <4>2, <4>3 DEF GoTypes
    <3> QED
      BY <3>4, <3>5
  <2> QED
    BY <2>1, <2>2 DEF ParsePrice
<1>5. GoTypes'
  BY <1>1, <1>2, <1>3 DEF GoTypes
<1>6. GoCall(c)'
  <2>1. /\ route'[c] = {rt} /\ answer'[c] = {}
        /\ pc'[c] \in {"refused", "priced"}
    BY <1>1, <1>2, <1>3 DEF GoTypes
  <2>2. \A b \in wanted'[c] : AsPriced(b) /\ Whose(c, b)'
    BY <1>3, <2>1 DEF Whose
  <2>3. \A b, d \in wanted'[c] : b = d
    BY <1>3, <2>1
  <2> QED
    BY <2>1, <2>2, <2>3 DEF GoCall
<1>7. ASSUME NEW d \in Requests, d # c
      PROVE  GoCall(d)'
  <2>1. GoCall(d) /\ pc'[d] = pc[d] /\ route'[d] = route[d] /\ wanted'[d] = wanted[d]
        /\ pending'[d] = pending[d] /\ answer'[d] = answer[d]
    BY <1>1, <1>2, <1>3, <1>7 DEF GoInv, GoTypes
  <2>2. \A b \in wanted[d] : b.extra # c /\ b.extra \in DOMAIN maps
    BY <1>1, <1>7, <2>1, ReferencesAssumption DEF GoCall, Whose, LongLived, GoTypes
  <2>3. \A b \in wanted[d] : maps'[b.extra] = maps[b.extra]
    BY <1>3, <2>2
  <2>4. WrittenFromElsewhere(d) => WrittenFromElsewhere(d)'
    <3>1. \A e \in Requests : route[e] # {} => route'[e] = route[e]
      BY <1>1, <1>2 DEF GoTypes
    <3> QED
      BY <1>1, <1>2, <1>7, <2>1, <3>1, StaysWritten
  <2> QED
    BY <1>7, <2>1, <2>3, <2>4, GoUnconcerned
<1> QED
  BY <1>5, <1>6, <1>7 DEF GoInv

\* The checks pass only what can be paid.
LEMMA GoEnhances ==
  ASSUME GoInv, NEW c \in Requests, EnhancePaymentRequirements(c)
  PROVE  GoInv'
<1>1. /\ GoTypes /\ GoCall(c) /\ pc[c] = "priced" /\ answer[c] = {}
      /\ UNCHANGED <<moneyParsers, assetDecimals, maps, route, answer, writers>>
  BY DEF GoInv, GoCall, EnhancePaymentRequirements, config
<1>2. PICK rt \in route[c], a \in wanted[c] :
        IF Publishable(a.asset, rt.payTo, maps[a.extra]) /\ GoUnits(rt, a) # Fail
        THEN /\ \E u \in GoUnits(rt, a) : wanted' = [wanted EXCEPT ![c] = {[a EXCEPT !.amount = u]}]
             /\ pending' = [pending EXCEPT ![c] = ForwardedKeys(rt.network)]
             /\ Goes(c, "forwarding")
        ELSE /\ Goes(c, "refused")
             /\ UNCHANGED <<wanted, pending>>
  BY DEF EnhancePaymentRequirements
<1>3. /\ \A other \in route[c] : other = rt
      /\ \A b \in wanted[c] : b = a
      /\ Whose(c, a) /\ AsPriced(a)
  BY <1>1, <1>2 DEF GoCall
<1>6. ASSUME NEW d \in Requests, wanted'[d] = wanted[d]
      PROVE  WrittenFromElsewhere(d) => WrittenFromElsewhere(d)'
  BY <1>1, <1>6, StaysWritten
<1>4. CASE Goes(c, "refused") /\ UNCHANGED <<wanted, pending>>
  <2>1. GoTypes'
    BY <1>1, <1>4 DEF GoTypes, Goes
  <2>2. GoCall(c)'
    <3>1. pc'[c] = "refused"
      BY <1>1, <1>4 DEF GoTypes, Goes
    <3>2. Whose(c, a)'
      BY <1>1, <1>3 DEF Whose, LongLived
    <3> QED
      BY <1>1, <1>3, <1>4, <3>1, <3>2 DEF GoCall
  <2>3. ASSUME NEW d \in Requests, d # c PROVE GoCall(d)'
    BY <1>1, <1>4, <1>6, <2>3, GoUnconcerned DEF GoInv, GoTypes, Goes
  <2> QED
    BY <2>1, <2>2, <2>3 DEF GoInv
<1>5. ASSUME Publishable(a.asset, rt.payTo, maps[a.extra]),
             NEW u \in GoUnits(rt, a),
             wanted' = [wanted EXCEPT ![c] = {[a EXCEPT !.amount = u]}],
             pending' = [pending EXCEPT ![c] = ForwardedKeys(rt.network)],
             Goes(c, "forwarding")
      PROVE  GoInv'
  <2> DEFINE w == [a EXCEPT !.amount = u]
  <2>1. w.asset = a.asset /\ w.extra = a.extra /\ w.amount = u
    BY <1>3 DEF AsPriced, AssetAmount
  <2>2. wanted' = [wanted EXCEPT ![c] = {w}]
    BY <1>5
  <2> HIDE DEF w
  <2>3. GoTypes'
    BY <1>1, <1>5, <2>2 DEF GoTypes, Goes
  <2>4. Payable(rt.payTo, w.asset, w.amount) /\ Named(maps[w.extra])
    <3>1. PICK b \in Priced : a.amount = b.amount
      BY <1>3 DEF AsPriced
    <3>2. AllDigits(u.whole) => IsDecimal(u)
      BY <1>1, <1>5, <3>1, DecimalsOfAsset, AmountsAssumption DEF GoUnits, GoTypes
    <3> QED
      BY <1>5, <2>1, <3>2 DEF Payable, Named, Publishable
  <2>5. GoCall(c)'
    <3>1. /\ pc'[c] = "forwarding" /\ wanted'[c] = {w} /\ answer'[c] = {} /\ maps' = maps
          /\ route'[c] = route[c] /\ pending'[c] = ForwardedKeys(rt.network)
      BY <1>1, <1>5, <2>2 DEF GoTypes, Goes
    <3>2. Whose(c, w)'
      BY <1>1, <1>3, <2>1 DEF Whose, LongLived
    <3>3. \A other \in route'[c] : Announces(maps'[w.extra], other, {})
      BY DEF Announces
    <3>4. \A other \in route'[c] :
            /\ other = rt /\ ForwardedKeys(other.network) \ pending'[c] = {}
            /\ pending'[c] \subseteq ForwardedKeys(other.network)
      BY <1>3, <3>1
    <3> QED
      BY <2>4, <3>1, <3>2, <3>3, <3>4 DEF GoCall
  <2>6. ASSUME NEW d \in Requests, d # c PROVE GoCall(d)'
    BY <1>1, <1>5, <1>6, <2>2, <2>6, GoUnconcerned DEF GoInv, GoTypes, Goes
  <2> QED
    BY <2>3, <2>5, <2>6 DEF GoInv
<1> QED
  BY <1>2, <1>4, <1>5

\* The requirements are written out once every value has been forwarded.
LEMMA GoPublishes ==
  ASSUME GoInv, NEW c \in Requests, Publish(c)
  PROVE  GoInv'
<1>1. /\ GoTypes /\ GoCall(c) /\ pc[c] = "forwarding" /\ pending[c] = {}
      /\ UNCHANGED <<moneyParsers, assetDecimals, maps, route, wanted, pending, writers>>
      /\ pc' = [pc EXCEPT ![c] = "answered"]
  BY DEF GoInv, Publish, Goes, config
<1>2. PICK rt \in route[c], a \in wanted[c] :
        answer' = [answer EXCEPT ![c] = {Publication(rt, a.asset, a.amount, maps[a.extra])}]
  BY DEF Publish
<1>3. /\ \A other \in route[c] : other = rt
      /\ \A b \in wanted[c] : b = a
      /\ Whose(c, a) /\ Payable(rt.payTo, a.asset, a.amount) /\ Named(maps[a.extra])
      /\ ~WrittenFromElsewhere(c) => Announces(maps[a.extra], rt, ForwardedKeys(rt.network))
  BY <1>1, <1>2 DEF GoCall
<1>4. GoTypes'
  BY <1>1, <1>2 DEF GoTypes
<1> DEFINE x == Publication(rt, a.asset, a.amount, maps[a.extra])
<1>5. /\ Payable(x.payTo, x.asset, x.amount) /\ Named(x)
      /\ ~WrittenFromElsewhere(c) => Announces(x, rt, ForwardedKeys(rt.network))
  <2>1. /\ x.payTo = rt.payTo /\ x.asset = a.asset /\ x.amount = a.amount
        /\ \A key \in DOMAIN EmptyExtra : x[key] = maps[a.extra][key]
    BY DEF Publication, EmptyExtra
  <2>2. ForwardedKeys(rt.network) \subseteq DOMAIN EmptyExtra
    BY <1>1, <1>2, ExtensionsAssumption DEF GoTypes
  <2> HIDE DEF x
  <2>3. Named(x)
    BY <1>3, <2>1 DEF Named, EmptyExtra
  <2> QED
    BY <1>3, <2>1, <2>2, <2>3 DEF Payable, Announces
<1>8. ASSUME NEW d \in Requests
      PROVE  WrittenFromElsewhere(d) => WrittenFromElsewhere(d)'
  BY <1>1, <1>8, StaysWritten
<1>6. GoCall(c)'
  <2>1. pc'[c] = "answered" /\ answer'[c] = {x} /\ route'[c] = route[c] /\ wanted'[c] = wanted[c]
    BY <1>1, <1>2 DEF GoTypes
  <2>2. Whose(c, a)'
    BY <1>1, <1>3 DEF Whose, LongLived
  <2>3. WrittenFromElsewhere(c) => WrittenFromElsewhere(c)'
    BY <1>8
  <2> HIDE DEF x
  <2> QED
    BY <1>3, <1>5, <2>1, <2>2, <2>3 DEF GoCall
<1>7. ASSUME NEW d \in Requests, d # c PROVE GoCall(d)'
  BY <1>1, <1>2, <1>7, <1>8, GoUnconcerned DEF GoInv, GoTypes
<1> QED
  BY <1>4, <1>6, <1>7 DEF GoInv

\* A request that writes into its map disturbs no other that has the same one, unless
\* their routes are on different networks: which is then on record.
LEMMA GoForwards ==
  ASSUME GoInv, NEW c \in Requests, NEW key \in ExtensionKeys, ForwardKey(c, key)
  PROVE  GoInv'
<1>1. /\ GoTypes /\ GoCall(c) /\ pc[c] = "forwarding"
      /\ UNCHANGED <<moneyParsers, assetDecimals, pc, route, wanted, answer>>
      /\ pending' = [pending EXCEPT ![c] = @ \ {key}]
  BY DEF GoInv, ForwardKey, config
<1>2. PICK rt \in route[c], a \in wanted[c] :
        /\ maps' = [maps EXCEPT ![a.extra][key] = SupportedExtra[rt.network][key]]
        /\ Written(c, a.extra)
  BY DEF ForwardKey
<1>3. /\ \A other \in route[c] : other = rt
      /\ \A b \in wanted[c] : b = a
      /\ Whose(c, a)
      /\ rt \in Routes /\ a.extra \in DOMAIN maps
      /\ key \in ForwardedKeys(rt.network)
  <2>1. key \in pending[c]
    BY DEF ForwardKey
  <2> QED
    BY <1>1, <1>2, <2>1 DEF GoCall, GoTypes, Whose, LongLived
<1>4. /\ DOMAIN maps' = DOMAIN maps
      /\ \A m \in DOMAIN maps : DOMAIN maps'[m] = DOMAIN EmptyExtra
      /\ \A m \in DOMAIN maps : m # a.extra => maps'[m] = maps[m]
      /\ \A k \in DOMAIN EmptyExtra :
           maps'[a.extra][k] = IF k = key THEN SupportedExtra[rt.network][key]
                               ELSE maps[a.extra][k]
  BY <1>1, <1>2, <1>3 DEF GoTypes
<1>8. \A d \in Requests : /\ writers[d] \subseteq writers'[d]
                          /\ writers'[d] \subseteq writers[d] \cup {c}
                          /\ Forwards(d, a.extra) => c \in writers'[d]
  BY <1>2 DEF Written
<1>5. GoTypes'
  BY <1>1, <1>4, <1>8 DEF GoTypes
<1>9. ASSUME NEW d \in Requests
      PROVE  WrittenFromElsewhere(d) => WrittenFromElsewhere(d)'
  BY <1>1, <1>8, <1>9, StaysWritten
\* The map stays good for any request that has it, of the same network or not minding.
<1>6. ASSUME NEW d \in Requests, NEW other \in route[d], pc[d] = "forwarding",
             NEW b \in wanted[d]
      PROVE  /\ Named(maps'[b.extra]) /\ pending'[d] \subseteq ForwardedKeys(other.network)
             /\ ~WrittenFromElsewhere(d)' =>
                  Announces(maps'[b.extra], other, ForwardedKeys(other.network) \ pending'[d])
  <2>1. /\ GoCall(d) /\ other \in Routes /\ Whose(d, b) /\ b.extra \in DOMAIN maps
        /\ Named(maps[b.extra]) /\ pending'[d] \subseteq ForwardedKeys(other.network)
        /\ ~WrittenFromElsewhere(d) =>
             Announces(maps[b.extra], other, ForwardedKeys(other.network) \ pending[d])
    <3>1. GoCall(d) /\ pending'[d] \subseteq pending[d]
      BY <1>1, <1>6 DEF GoInv, GoTypes
    <3> QED
      BY <1>1, <1>6, <3>1 DEF GoCall, GoTypes, Whose, LongLived
  <2>2. CASE b.extra # a.extra
    <3>1. d # c /\ pending'[d] = pending[d] /\ maps'[b.extra] = maps[b.extra]
      BY <1>1, <1>3, <1>4, <1>6, <2>1, <2>2 DEF GoTypes
    <3> QED
      BY <1>9, <2>1, <3>1
  <2>3. CASE b.extra = a.extra
    <3>1. ~WrittenFromElsewhere(d)' => other.network = rt.network
      <4>1. CASE d = c
        BY <1>3, <1>6, <4>1
      <4>2. CASE d # c
        <5>1. b.extra \in LongLived
          BY <1>3, <1>6, <2>1, <2>3, <4>2, ReferencesAssumption DEF Whose, LongLived
        <5>2. c \in writers'[d]
          BY <1>6, <1>8, <2>3 DEF Forwards
        <5>3. /\ b \in wanted'[d] /\ b.extra \in LongLived'
              /\ other \in route'[d] /\ rt \in route'[c]
          BY <1>1, <1>2, <1>6, <5>1 DEF LongLived
        <5> QED
          BY <5>2, <5>3 DEF WrittenFromElsewhere
      <4> QED
        BY <4>1, <4>2
    <3>2. /\ ForwardedKeys(rt.network) \subseteq DOMAIN EmptyExtra
          /\ key \in {"name", "version"} => SupportedExtra[rt.network][key] # ""
      BY <1>3, ExtensionsAssumption
    <3>3. Named(maps'[b.extra])
      <4>1. "name" \in DOMAIN EmptyExtra /\ "version" \in DOMAIN EmptyExtra
        BY DEF EmptyExtra
      <4>2. maps'[b.extra]["name"] # "" /\ maps'[b.extra]["version"] # ""
        BY <1>4, <2>1, <2>3, <3>2, <4>1 DEF Named
      <4> QED
        BY <4>2 DEF Named
    <3>4. ASSUME ~WrittenFromElsewhere(d)',
                 NEW k \in ForwardedKeys(other.network) \ pending'[d]
          PROVE  maps'[b.extra][k] = SupportedExtra[other.network][k]
      <4>1. k \in DOMAIN EmptyExtra /\ other.network = rt.network
        BY <3>1, <3>2, <3>4
      <4>2. CASE k = key
        BY <1>4, <2>3, <4>1, <4>2
      <4>3. CASE k # key
        <5>1. k \notin pending[d]
          BY <1>1, <3>4, <4>3 DEF GoTypes
        <5>2. maps[b.extra][k] = SupportedExtra[other.network][k]
          BY <1>9, <2>1, <3>4, <5>1 DEF Announces
        <5> QED
          BY <1>4, <2>3, <4>1, <4>3, <5>2
      <4> QED
        BY <4>2, <4>3
    <3> QED
      BY <2>1, <3>3, <3>4 DEF Announces
  <2> QED
    BY <2>2, <2>3
<1>7. ASSUME NEW d \in Requests PROVE GoCall(d)'
  <2>1. GoCall(d) /\ pc' = pc /\ route' = route /\ wanted' = wanted /\ answer' = answer
    BY <1>1 DEF GoInv
  <2>2. \A b \in wanted[d] : Whose(d, b)'
    BY <2>1 DEF GoCall, Whose, LongLived
  <2>3. pc[d] = "forwarding" => \A b \in wanted[d], other \in route[d] :
       /\ Payable(other.payTo, b.asset, b.amount)
       /\ Named(maps'[b.extra]) /\ pending'[d] \subseteq ForwardedKeys(other.network)
       /\ ~WrittenFromElsewhere(d)' =>
            Announces(maps'[b.extra], other, ForwardedKeys(other.network) \ pending'[d])
    BY <1>6, <1>7, <2>1 DEF GoCall
  <2>4. WrittenFromElsewhere(d) => WrittenFromElsewhere(d)'
    BY <1>7, <1>9
  <2> QED
    BY <2>1, <2>2, <2>3, <2>4 DEF GoCall
<1> QED
  BY <1>5, <1>7 DEF GoInv

\* Each step of the Go server preserves the invariant.
LEMMA GoStep ==
  ASSUME GoInv, [GoNext]_goVars
  PROVE  GoInv'
<1>1. ASSUME NEW parser \in Parsers, RegisterMoneyParser(parser)
      PROVE  GoInv'
  BY <1>1, GoConfigures DEF GoInv, GoTypes, RegisterMoneyParser, AddParser
<1>2. ASSUME NEW key \in Registrable, NEW d \in Decimals, RegisterAsset(key, d)
      PROVE  GoInv'
  BY <1>2, GoConfigures DEF GoInv, GoTypes, RegisterAsset, AddDecimals
<1>3. CASE Listen
  BY <1>3, GoConfigures DEF GoInv, GoTypes, Listen, Serve
<1>4. ASSUME NEW c \in Requests, NEW d \in Requests, MapRace(c, d)
      PROVE  GoInv'
  BY <1>4, GoConfigures DEF GoInv, GoTypes, MapRace, config, requests
<1>5. CASE UNCHANGED goVars
  BY <1>5, GoConfigures DEF GoInv, GoTypes, goVars, config
<1> QED
  BY <1>1, <1>2, <1>3, <1>4, <1>5, GoParses, GoEnhances, GoForwards, GoPublishes DEF GoNext

\* The invariant holds in every state of the Go server.
THEOREM GoServerInvariance == GoSpec => []GoInv
<1>1. GoInit => GoInv
  BY InitGoInv
<1>2. GoInv /\ [GoNext]_goVars => GoInv'
  BY GoStep
<1> QED
  BY <1>1, <1>2, PTL DEF GoSpec

\* Every client is told what the facilitator announces for the network it pays on, unless
\* a request for another network has written into the map meanwhile.
THEOREM GoForwardsItsOwn == GoSpec => []GoForwardsItsOwnNetwork
<1>1. GoInv => GoForwardsItsOwnNetwork
  BY DEF GoInv, GoCall, Announces, GoForwardsItsOwnNetwork
<1> QED
  BY <1>1, GoServerInvariance, PTL

\* Both clients can pay what a Go server asks for.
THEOREM GoPublishesPayable == GoSpec => []PublishedIsPayable
<1>1. GoInv => PublishedIsPayable
  BY DEF GoInv, GoCall, Payable, Named, PublishedIsPayable, GoClientAccepts, JsClientAccepts,
         IsValidAddress, IsTypedAddress, IsDecimal, BigIntReads
<1> QED
  BY <1>1, GoServerInvariance, PTL

-----------------------------------------------------------------------------
(* The TypeScript resource server.                                         *)

\* What holds of the TypeScript server: a request's amount is what its price was parsed
\* to, by the parsers there are, for these are all registered before it serves.
JsTypes ==
  /\ moneyParsers \in Seq(Parsers)
  /\ \A k \in DOMAIN assetDecimals : assetDecimals[k] \in Decimals
  /\ maps = PriceMaps
  /\ DOMAIN pc = Requests /\ DOMAIN route = Requests /\ DOMAIN wanted = Requests
  /\ DOMAIN answer = Requests
  /\ \A c \in Requests : route[c] \subseteq Routes

JsCall(c) ==
  /\ ~serving => pc[c] = "idle"
  /\ pc[c] = "idle" => route[c] = {} /\ wanted[c] = {}
  /\ pc[c] # "answered" => answer[c] = {}
  /\ \A rt, other \in route[c] : rt = other
  /\ \A rt \in route[c] : wanted[c] = JsParsePrice(rt, moneyParsers)
  /\ \A x \in answer[c], rt \in route[c] : Announces(x, rt, ForwardedKeys(rt.network))
  /\ \A x \in answer[c], a \in wanted[c] : \E rt \in route[c] : x.amount \in JsUnits(rt, a)

JsInv == JsTypes /\ \A c \in Requests : JsCall(c)

\* The parser that answers a TypeScript server answers a Go server too, and no other.
LEMMA SameParser ==
  ASSUME NEW parsers \in Seq(Parsers), NEW network,
         NEW a \in AskParsers(parsers, network, {Skips})
  PROVE  /\ AskParsers(parsers, network, {Skips}) = {a}
         /\ AskParsers(parsers, network, {Skips, Errs}) = {a}
<1> DEFINE heard(over) == {i \in DOMAIN parsers : parsers[i].outcome[network] \notin over}
           asked(over) == {i \in heard(over) : /\ \A j \in heard(over) : i <= j
                                               /\ parsers[i].outcome[network] = Answers}
<1>1. \A over : AskParsers(parsers, network, over) = {parsers[i].answer : i \in asked(over)}
  BY DEF AskParsers
<1>2. PICK i \in asked({Skips}) : a = parsers[i].answer
  BY <1>1
<1>3. heard({Skips, Errs}) \subseteq heard({Skips}) /\ i \in heard({Skips, Errs})
  BY <1>2 DEF Answers, Skips, Errs
<1>4. i \in asked({Skips, Errs})
  BY <1>2, <1>3
<1>5. \A over : i \in asked(over) => asked(over) = {i}
  <2>1. \A k \in DOMAIN parsers : k \in Nat
    OBVIOUS
  <2> QED
    BY <2>1
<1> HIDE DEF asked, heard
<1>6. \A over : i \in asked(over) => AskParsers(parsers, network, over) = {a}
  BY <1>1, <1>2, <1>5
<1> QED
  BY <1>2, <1>4, <1>6

\* So do explicit prices, which Go also wants well-formed.
LEMMA SamePrice ==
  ASSUME moneyParsers \in Seq(Parsers), NEW rt \in Routes,
         NEW a \in JsParsePrice(rt, moneyParsers)
  PROVE  /\ JsUnits(rt, a) # Fail => GoParsePrice(rt, moneyParsers) = {a}
         /\ JsParsePrice(rt, moneyParsers) = {a}
         /\ a \in Priced
<1>1. CASE rt.price.kind = "explicit"
  <2>1. a = rt.price.asked /\ IsValidContractPackageHash(a.asset)
    BY <1>1 DEF JsParsePrice
  <2>2. JsUnits(rt, a) # Fail => rt.price.isString
    BY <1>1 DEF JsUnits
  <2> QED
    BY <1>1, <2>1, <2>2 DEF GoParsePrice, JsParsePrice, Priced
<1>2. CASE rt.price.kind # "explicit"
  <2>1. rt.price.readable /\ a \in AskParsers(moneyParsers, rt.network, {Skips})
    BY <1>2 DEF JsParsePrice, Fail
  <2>2. /\ AskParsers(moneyParsers, rt.network, {Skips}) = {a}
        /\ AskParsers(moneyParsers, rt.network, {Skips, Errs}) = {a}
    BY <2>1, SameParser
  <2>3. a \in Priced
    <3>1. PICK i \in DOMAIN moneyParsers : a = moneyParsers[i].answer
      BY <2>1 DEF AskParsers
    <3>2. moneyParsers[i] \in Parsers
      BY <3>1
    <3> QED
      BY <3>1, <3>2 DEF Priced
  <2> QED
    BY <1>2, <2>1, <2>2, <2>3 DEF GoParsePrice, JsParsePrice
<1> QED
  BY <1>1, <1>2

\* No request has come yet.
LEMMA InitJsInv ==
  ASSUME JsInit
  PROVE  JsInv
<1>1. moneyParsers \in Seq(Parsers) /\ DOMAIN assetDecimals = {}
  BY DEF JsInit, ServerInit
<1> QED
  BY <1>1 DEF JsInit, ServerInit, JsInv, JsTypes, JsCall

\* The configuration concerns no request, for there are none yet.
LEMMA JsConfigures ==
  ASSUME JsInv, UNCHANGED requests, serving => UNCHANGED config,
         moneyParsers' \in Seq(Parsers),
         \A k \in DOMAIN assetDecimals' : assetDecimals'[k] \in Decimals
  PROVE  JsInv'
<1>1. JsTypes'
  BY DEF JsInv, JsTypes, requests
<1>2. ASSUME NEW c \in Requests PROVE JsCall(c)'
  <2>1. /\ JsCall(c) /\ pc'[c] = pc[c] /\ route'[c] = route[c] /\ wanted'[c] = wanted[c]
        /\ answer'[c] = answer[c]
    BY <1>2 DEF JsInv, requests
  <2>2. CASE serving
    BY <2>1, <2>2 DEF JsCall, config, JsUnits
  <2>3. CASE ~serving
    BY <2>1, <2>3 DEF JsCall
  <2> QED
    BY <2>2, <2>3
<1> QED
  BY <1>1, <1>2 DEF JsInv

\* Nor is a request concerned by what another does.
LEMMA JsUnconcerned ==
  ASSUME NEW c \in Requests, JsCall(c), UNCHANGED config,
         pc'[c] = pc[c], route'[c] = route[c], wanted'[c] = wanted[c], answer'[c] = answer[c]
  PROVE  JsCall(c)'
  BY DEF JsCall, config, JsUnits

\* The price of a request is parsed by the parsers there are.
LEMMA JsParses ==
  ASSUME JsInv, NEW c \in Requests, NEW rt \in Routes, parsePrice(c, rt)
  PROVE  JsInv'
<1>1. /\ JsTypes /\ JsCall(c) /\ serving /\ pc[c] = "idle" /\ answer[c] = {}
      /\ UNCHANGED <<config, maps, answer>>
      /\ route' = [route EXCEPT ![c] = {rt}]
      /\ wanted' = [wanted EXCEPT ![c] = JsParsePrice(rt, moneyParsers)]
      /\ \E to \in {"refused", "priced"} : pc' = [pc EXCEPT ![c] = to]
  BY DEF JsInv, JsCall, parsePrice, Goes
<1>2. JsTypes'
  BY <1>1 DEF JsTypes, config
<1>3. JsCall(c)'
  BY <1>1 DEF JsCall, JsTypes, config
<1>4. ASSUME NEW d \in Requests, d # c PROVE JsCall(d)'
  BY <1>1, <1>4, JsUnconcerned DEF JsInv, JsTypes
<1> QED
  BY <1>2, <1>3, <1>4 DEF JsInv

\* The values that are forwarded go into a copy of the price's extra object.
LEMMA JsEnhances ==
  ASSUME JsInv, NEW c \in Requests, enhancePaymentRequirements(c)
  PROVE  JsInv'
<1>1. /\ JsTypes /\ JsCall(c) /\ serving /\ pc[c] = "priced" /\ answer[c] = {}
      /\ UNCHANGED <<config, maps, route, wanted>>
  BY DEF JsInv, JsCall, enhancePaymentRequirements
<1>2. PICK rt \in route[c], a \in wanted[c] :
        IF Refuses(rt, a)
        THEN Goes(c, "refused") /\ UNCHANGED answer
        ELSE /\ \E u \in JsUnits(rt, a) : answer' = [answer EXCEPT ![c] =
                  {Publication(rt, a.asset, u, Forwarded(Contents(a), rt.network))}]
             /\ Goes(c, "answered")
  BY DEF enhancePaymentRequirements
<1>3. /\ rt \in Routes /\ a \in JsParsePrice(rt, moneyParsers)
      /\ \A other \in route[c] : other = rt
      /\ \A b \in wanted[c] : b = a
  BY <1>1, <1>2, SamePrice DEF JsCall, JsTypes
<1>4. DOMAIN pc' = Requests /\ DOMAIN answer' = Requests
      /\ \A d \in Requests \ {c} : pc'[d] = pc[d] /\ answer'[d] = answer[d]
  BY <1>1, <1>2 DEF Goes, JsTypes
<1>5. JsTypes'
  BY <1>1, <1>4 DEF JsTypes, config
<1>6. JsCall(c)'
  <2>1. CASE Goes(c, "refused") /\ UNCHANGED answer
    BY <1>1, <2>1 DEF JsCall, JsTypes, Goes, config
  <2>2. ASSUME NEW u \in JsUnits(rt, a), Goes(c, "answered"),
               answer' = [answer EXCEPT ![c] =
                 {Publication(rt, a.asset, u, Forwarded(Contents(a), rt.network))}]
        PROVE  JsCall(c)'
    <3> DEFINE extra == Forwarded(Contents(a), rt.network)
               x == Publication(rt, a.asset, u, extra)
    <3>1. DOMAIN Contents(a) = DOMAIN EmptyExtra
      BY <1>1, <1>3, SamePrice, PricesAssumption DEF Contents, JsTypes
    <3>2. \A key \in ForwardedKeys(rt.network) :
            key \in DOMAIN EmptyExtra /\ extra[key] = SupportedExtra[rt.network][key]
      BY <1>3, <3>1, ExtensionsAssumption DEF Forwarded
    <3>3. x.amount = u /\ \A key \in DOMAIN EmptyExtra : x[key] = extra[key]
      BY DEF Publication, EmptyExtra
    <3>4. Announces(x, rt, ForwardedKeys(rt.network))
      BY <3>2, <3>3 DEF Announces
    <3>5. pc'[c] = "answered" /\ answer'[c] = {x}
      BY <1>1, <2>2 DEF JsTypes, Goes
    <3>6. JsUnits(rt, a)' = JsUnits(rt, a)
      BY <1>1 DEF JsUnits, config
    <3> HIDE DEF x, extra
    <3> QED
      BY <1>1, <1>3, <2>2, <3>3, <3>4, <3>5, <3>6 DEF JsCall, config, Announces
  <2> QED
    BY <1>2, <2>1, <2>2
<1>7. ASSUME NEW d \in Requests, d # c PROVE JsCall(d)'
  BY <1>1, <1>4, <1>7, JsUnconcerned DEF JsInv, JsTypes
<1> QED
  BY <1>5, <1>6, <1>7 DEF JsInv

\* Each step of the TypeScript server preserves the invariant.
LEMMA JsStep ==
  ASSUME JsInv, [JsNext]_jsVars
  PROVE  JsInv'
<1>1. ASSUME NEW parser \in Parsers, registerMoneyParser(parser)
      PROVE  JsInv'
  BY <1>1, JsConfigures DEF JsInv, JsTypes, registerMoneyParser, AddParser
<1>2. ASSUME NEW key \in Registrable, NEW d \in Decimals, registerAsset(key, d)
      PROVE  JsInv'
  BY <1>2, JsConfigures DEF JsInv, JsTypes, registerAsset, AddDecimals
<1>3. CASE listen
  BY <1>3, JsConfigures DEF JsInv, JsTypes, listen, Serve
<1>4. CASE UNCHANGED jsVars
  BY <1>4, JsConfigures DEF JsInv, JsTypes, jsVars, config
<1> QED
  BY <1>1, <1>2, <1>3, <1>4, JsParses, JsEnhances DEF JsNext

\* The invariant holds in every state of the TypeScript server.
THEOREM JsServerInvariance == JsSpec => []JsInv
<1>1. JsInit => JsInv
  BY InitJsInv
<1>2. JsInv /\ [JsNext]_jsVars => JsInv'
  BY JsStep
<1> QED
  BY <1>1, <1>2, PTL DEF JsSpec


\* A client of a TypeScript server, too, is told what the facilitator announces for the
\* network it pays on; here even where routes share an extra object.
THEOREM JsForwardsItsOwn == JsSpec => []JsForwardsItsOwnNetwork
<1>1. JsInv => JsForwardsItsOwnNetwork
  BY DEF JsInv, JsCall, Announces, JsForwardsItsOwnNetwork
<1> QED
  BY <1>1, JsServerInvariance, PTL

\* Where a TypeScript server has answered, a Go server with the same configuration
\* answers the same, or refuses.
THEOREM ServersAgree == JsSpec => []GoServerPublishesTheSame
<1>1. ASSUME JsInv, NEW c \in Requests, NEW x \in answer[c], NEW rt \in route[c],
             NEW a \in wanted[c]
      PROVE  /\ GoParsePrice(rt, moneyParsers) = {a}
             /\ \A u \in GoAmount(a.amount, GetAssetDecimals(assetDecimals, a.asset, rt.network)) :
                  u = x.amount
  <2>1. /\ JsTypes /\ rt \in Routes /\ a \in JsParsePrice(rt, moneyParsers)
        /\ x.amount \in JsUnits(rt, a)
    BY <1>1 DEF JsInv, JsTypes, JsCall
  <2>2. GoParsePrice(rt, moneyParsers) = {a} /\ IsText(a.amount)
    BY <2>1, SamePrice, PricesAssumption DEF JsTypes, Fail
  <2> DEFINE d == GetAssetDecimals(assetDecimals, a.asset, rt.network)
  <2>3. d \in Nat /\ x.amount \in JsAmount(a.amount, d)
    BY <2>1, DecimalsOfAsset DEF JsTypes, JsUnits, Fail
  <2> HIDE DEF d
  <2>4. \A n \in GoParseAmount(a.amount, d), k \in JsParseAmount(a.amount, d) : n = k
    BY <2>2, <2>3, ParsersAgree
  <2>5. \A u \in GoAmount(a.amount, d) : u = x.amount
    BY <2>3, <2>4 DEF GoAmount, JsAmount, InUnits
  <2> QED
    BY <2>2, <2>5 DEF d
<1>2. JsInv => GoServerPublishesTheSame
  BY <1>1 DEF GoServerPublishesTheSame
<1> QED
  BY <1>2, JsServerInvariance, PTL

\* A price that is converted to nothing is published as the one zero that is refused.
THEOREM ZeroIsRefused == JsSpec => []ConvertedZeroIsRefused
<1>1. ASSUME JsInv, NEW c \in Requests, NEW x \in answer[c], NEW a \in wanted[c],
             a.amount.point, DigitsValue(x.amount.whole) = 0
      PROVE  x.amount.whole = <<0>>
  <2>1. PICK rt \in route[c] :
          /\ JsTypes /\ rt \in Routes /\ a \in JsParsePrice(rt, moneyParsers)
          /\ x.amount \in JsUnits(rt, a)
    BY <1>1 DEF JsInv, JsTypes, JsCall
  <2>2. IsText(a.amount)
    BY <2>1, SamePrice, PricesAssumption DEF JsTypes
  <2> DEFINE d == GetAssetDecimals(assetDecimals, a.asset, rt.network)
  <2>3. d \in Nat /\ x.amount \in JsAmount(a.amount, d)
    BY <2>1, DecimalsOfAsset DEF JsTypes, JsUnits, Fail
  <2> HIDE DEF d
  <2>4. PICK n \in JsParseAmount(a.amount, d) : x.amount = Text(IntegerText(n), FALSE, <<>>)
    BY <1>1, <2>3 DEF JsAmount, InUnits
  <2>5. n \in Nat /\ x.amount.whole = DigitsOf[n]
    BY <2>2, <2>3, <2>4, ParsedNumbers, TextOfInteger DEF Text
  <2>6. n = 0 /\ DigitsOf[0] = <<0>>
    BY <1>1, <2>5, DigitsOfNumber
  <2> QED
    BY <2>5, <2>6
<1>2. JsInv => ConvertedZeroIsRefused
  BY <1>1 DEF ConvertedZeroIsRefused
<1> QED
  BY <1>2, JsServerInvariance, PTL
==============================================================================
