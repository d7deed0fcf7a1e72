--------------------------- MODULE VibeSwapProofs ---------------------------
(***************************************************************************)
(* Proofs about VibeSwap: integerSqrt ends and is the root; every price    *)
(* and every rounding favours the pool, for any fee and any amounts whose  *)
(* products fit into a word; and, for any users, tokens and calls, where   *)
(* supplies fit and no swap comes back to a pool: tokens are conserved,    *)
(* calls that throw move nothing, every share keeps its value.             *)
(***************************************************************************)
EXTENDS VibeSwap, FiniteSums, FiniteSetTheorems, TLAPS

Interval(v) == [low : 0..v, high : 0..2 * v + 1]
Narrow(v, g, b) == IF b.low + 1 >= b.high THEN b.low ELSE g[Halve(v, b)]
Search(g, v) == g = [b \in Interval(v) |-> Narrow(v, g, b)]
Brackets(v, b) == b.low * b.low <= v /\ v < b.high * b.high
Width(b) == b.high - b.low

LEMMA Square == ASSUME NEW a \in Nat, NEW b \in Nat, a * a <= b PROVE a <= b
<1>1. SUFFICES ASSUME a > b PROVE FALSE
  OBVIOUS
<1>2. a * a >= a
  OBVIOUS
<1>3. QED
  BY <1>1, <1>2

LEMMA SquareBelow == ASSUME NEW a \in Nat, NEW b \in Nat, b * b < a * a PROVE b < a
<1>1. SUFFICES ASSUME a <= b PROVE FALSE
  OBVIOUS
<1>2. a * a <= a * b
  BY <1>1
<1>3. a * b <= b * b
  BY <1>1
<1>4. QED
  BY <1>2, <1>3

LEMMA HalveNarrows ==
 ASSUME NEW v \in Nat, NEW b \in Interval(v), b.low + 1 < b.high
 PROVE  /\ Halve(v, b) \in Interval(v)
        /\ Width(Halve(v, b)) \in Nat /\ Width(Halve(v, b)) < Width(b)
        /\ Brackets(v, b) => Brackets(v, Halve(v, b))
<1> DEFINE mid == (b.low + b.high) \div 2
<1>1. b.low \in 0..v /\ b.high \in 0..2 * v + 1
  BY DEF Interval
<1>2. mid \in Nat /\ b.low < mid /\ mid < b.high
  BY <1>1
<1> HIDE DEF mid
<1>3. CASE mid * mid <= v
  <2>1. mid \in 0..v
    BY <1>2, <1>3, Square
  <2>2. Halve(v, b) = [b EXCEPT !.low = mid]
    BY <1>3 DEF Halve, mid
  <2>3. Halve(v, b) = [low |-> mid, high |-> b.high]
    BY <2>2 DEF Interval
  <2>4. QED
    BY <1>1, <1>2, <1>3, <2>1, <2>3 DEF Interval, Width, Brackets
<1>4. CASE ~(mid * mid <= v)
  <2>2. Halve(v, b) = [b EXCEPT !.high = mid]
    BY <1>4 DEF Halve, mid
  <2>3. Halve(v, b) = [low |-> b.low, high |-> mid]
    BY <2>2 DEF Interval
  <2>4. v < mid * mid
    BY <1>2, <1>4
  <2>5. mid \in 0..2 * v + 1
    BY <1>1, <1>2
  <2>6. QED
    BY <1>1, <1>2, <2>3, <2>4, <2>5 DEF Interval, Width, Brackets
<1>5. QED
  BY <1>3, <1>4

LEMMA SearchExists == ASSUME NEW v \in Nat PROVE \E g : Search(g, v)
<1> DEFINE UpTo(g, n) == \A b \in Interval(v) : Width(b) <= n => g[b] = Narrow(v, g, b)
           Good == {n \in Nat : \E g : UpTo(g, n)}
<1>1. \A b \in Interval(v) : b.low \in Nat /\ b.high \in Nat /\ Width(b) \in Int /\ Width(b) <= 2 * v + 1
  BY DEF Interval, Width
<1>2. \A b \in Interval(v) : b.low + 1 < b.high =>
        Halve(v, b) \in Interval(v) /\ Width(Halve(v, b)) \in Nat /\ Width(Halve(v, b)) < Width(b)
  BY HalveNarrows
<1>3. 0 \in Good
  <2> DEFINE h == [b \in Interval(v) |-> b.low]
  <2>1. UpTo(h, 0)
    BY <1>1 DEF Narrow, Width
  <2> HIDE DEF h
  <2>2. \E g : UpTo(g, 0)
    BY <2>1
  <2>3. QED
    BY <2>2
<1>4. ASSUME NEW n \in Good PROVE n + 1 \in Good
  <2>1. PICK g : UpTo(g, n)
    OBVIOUS
  <2> DEFINE h == [b \in Interval(v) |-> Narrow(v, g, b)]
  <2>2. ASSUME NEW b \in Interval(v), Width(b) <= n + 1 PROVE h[b] = Narrow(v, h, b)
    <3>1. CASE b.low + 1 >= b.high
      BY <3>1 DEF Narrow
    <3>2. CASE b.low + 1 < b.high
      <4>1. Halve(v, b) \in Interval(v) /\ Width(Halve(v, b)) <= n
        BY <1>1, <1>2, <2>2, <3>2
      <4>2. h[Halve(v, b)] = g[Halve(v, b)]
        BY <2>1, <4>1
      <4>3. QED
        BY <1>1, <3>2, <4>2 DEF Narrow
    <3>3. QED
      BY <1>1, <3>1, <3>2
  <2>3. UpTo(h, n + 1)
    BY <2>2
  <2> HIDE DEF h
  <2>4. \E k : UpTo(k, n + 1)
    BY <2>3
  <2>5. n + 1 \in Nat
    OBVIOUS
  <2>6. QED
    BY <2>4, <2>5
<1> HIDE DEF Good
<1>5. Good = Nat
  <2>1. Good \in SUBSET Nat
    BY DEF Good
  <2>2. QED
    BY <1>3, <1>4, <2>1, NumberInduction
<1>6. PICK g : UpTo(g, 2 * v + 1)
  <2>1. 2 * v + 1 \in Good
    BY <1>5
  <2>2. QED
    BY <2>1 DEF Good
<1> DEFINE h == [b \in Interval(v) |-> g[b]]
<1>7. ASSUME NEW b \in Interval(v) PROVE h[b] = Narrow(v, h, b)
  <2>1. g[b] = Narrow(v, g, b)
    BY <1>1, <1>6
  <2>2. CASE b.low + 1 >= b.high
    BY <2>1, <2>2 DEF Narrow
  <2>3. CASE b.low + 1 < b.high
    BY <1>1, <1>2, <2>1, <2>3 DEF Narrow
  <2>4. QED
    BY <1>1, <2>2, <2>3
<1>8. Search(h, v)
  BY <1>7 DEF Search
<1>9. QED
  BY <1>8

LEMMA SearchFinds ==
  ASSUME NEW v \in Nat, NEW g, Search(g, v), NEW b \in Interval(v), Brackets(v, b)
  PROVE  g[b] \in Nat /\ g[b] * g[b] <= v /\ v < (g[b] + 1) * (g[b] + 1)
<1> DEFINE Found(r) == r \in Nat /\ r * r <= v /\ v < (r + 1) * (r + 1)
           Good == {n \in Nat : \A a \in Interval(v) : Width(a) <= n /\ Brackets(v, a) => Found(g[a])}
<1>1. \A a \in Interval(v) : a.low \in Nat /\ a.high \in Nat /\ Width(a) \in Int /\ Width(a) <= 2 * v + 1
  BY DEF Interval, Width
<1>2. \A a \in Interval(v) : g[a] = Narrow(v, g, a)
  BY DEF Search
<1>3. ASSUME NEW a \in Interval(v), Brackets(v, a), a.low + 1 >= a.high PROVE Found(g[a])
  <2>1. g[a] = a.low
    BY <1>2, <1>3 DEF Narrow
  <2>2. a.low < a.high
    BY <1>1, <1>3, SquareBelow DEF Brackets
  <2>3. a.high = a.low + 1
    BY <1>1, <1>3, <2>2
  <2>4. QED
    BY <1>1, <1>3, <2>1, <2>3 DEF Brackets
<1>4. 0 \in Good
  <2>1. \A a \in Interval(v) : Width(a) <= 0 => a.low + 1 >= a.high
    BY <1>1 DEF Width
  <2>2. QED
    BY <1>3, <2>1
<1>5. ASSUME NEW n \in Good PROVE n + 1 \in Good
  <2>1. SUFFICES ASSUME NEW a \in Interval(v), Width(a) <= n + 1, Brackets(v, a) PROVE Found(g[a])
    OBVIOUS
  <2>2. CASE a.low + 1 >= a.high
    BY <1>3, <2>1, <2>2
  <2>3. CASE a.low + 1 < a.high
    <3>1. Halve(v, a) \in Interval(v) /\ Width(Halve(v, a)) <= n /\ Brackets(v, Halve(v, a))
      BY <1>1, <2>1, <2>3, HalveNarrows
    <3>2. Found(g[Halve(v, a)])
      BY <3>1
    <3>3. g[a] = g[Halve(v, a)]
      BY <1>1, <1>2, <2>3 DEF Narrow
    <3>4. QED
      BY <3>2, <3>3
  <2>4. QED
    BY <1>1, <2>2, <2>3
<1> HIDE DEF Good
<1>6. Good = Nat
  <2>1. Good \in SUBSET Nat
    BY DEF Good
  <2>2. QED
    BY <1>4, <1>5, <2>1, NumberInduction
<1>7. 2 * v + 1 \in Good
  BY <1>6
<1>8. QED
  BY <1>1, <1>7 DEF Good

\* VibeSwap.cpp, integerSqrt: the bisection finds the root, rounded down.
THEOREM RootIsTheRoot ==
  ASSUME NEW value \in Nat
  PROVE  LET r == Root(value) IN r \in Nat /\ r * r <= value /\ value < (r + 1) * (r + 1)
<1> DEFINE g == CHOOSE h : Search(h, value)
           b == [low |-> 0, high |-> 2 * value + 1]
<1>1. Search(g, value)
  BY SearchExists
<1>2. Root(value) = g[b]
  BY Zenon DEF Root, Search, Interval, Narrow
<1>3. b \in Interval(value)
  BY DEF Interval
<1>4. Brackets(value, b)
  <2>1. (2 * value + 1) * (2 * value + 1) = 4 * (value * value) + 4 * value + 1
    OBVIOUS
  <2>2. value * value \in Nat
    OBVIOUS
  <2>3. QED
    BY <2>1, <2>2 DEF Brackets
<1> HIDE DEF g, b
<1>5. g[b] \in Nat /\ g[b] * g[b] <= value /\ value < (g[b] + 1) * (g[b] + 1)
  BY <1>1, <1>3, <1>4, SearchFinds
<1>6. QED
  BY <1>2, <1>5
-----------------------------------------------------------------------------
Twice(g, n) == IF n = 0 THEN 1 ELSE 2 * g[n - 1]
Doubles(g) == g = [n \in Nat |-> Twice(g, n)]

LEMMA DoublingExists == \E g : Doubles(g)
<1> DEFINE UpTo(g, m) == \A n \in Nat : n <= m => g[n] = Twice(g, n)
           Good == {m \in Nat : \E g : UpTo(g, m)}
<1>1. 0 \in Good
  <2> DEFINE h == [n \in Nat |-> 1]
  <2>1. UpTo(h, 0)
    BY DEF Twice
  <2> HIDE DEF h
  <2>2. \E g : UpTo(g, 0)
    BY <2>1
  <2>3. QED
    BY <2>2
<1>2. ASSUME NEW m \in Good PROVE m + 1 \in Good
  <2>1. PICK g : UpTo(g, m)
    OBVIOUS
  <2> DEFINE h == [n \in Nat |-> Twice(g, n)]
  <2>2. ASSUME NEW n \in Nat, n <= m + 1 PROVE h[n] = Twice(h, n)
    <3>1. CASE n = 0
      BY <3>1 DEF Twice
    <3>2. CASE n # 0
      <4>1. n - 1 \in Nat /\ n - 1 <= m
        BY <2>2, <3>2
      <4>2. h[n - 1] = g[n - 1]
        BY <2>1, <4>1
      <4>3. QED
        BY <3>2, <4>2 DEF Twice
    <3>3. QED
      BY <3>1, <3>2
  <2>3. UpTo(h, m + 1)
    BY <2>2
  <2> HIDE DEF h
  <2>4. \E k : UpTo(k, m + 1)
    BY <2>3
  <2>5. m + 1 \in Nat
    OBVIOUS
  <2>6. QED
    BY <2>4, <2>5
<1> HIDE DEF Good
<1>3. Good = Nat
  <2>1. Good \in SUBSET Nat
    BY DEF Good
  <2>2. QED
    BY <1>1, <1>2, <2>1, NumberInduction
<1>4. \A m \in Nat : \E g : UpTo(g, m)
  BY <1>3 DEF Good
\* All solutions up to a number agree there.
<1>5. ASSUME NEW m \in Nat, NEW k \in Nat, NEW g, NEW h, UpTo(g, m), UpTo(h, k)
      PROVE  \A n \in Nat : n <= m /\ n <= k => g[n] = h[n]
  <2> DEFINE Same == {n \in Nat : n <= m /\ n <= k => g[n] = h[n]}
  <2>1. 0 \in Same
    BY <1>5 DEF Twice
  <2>2. ASSUME NEW n \in Same PROVE n + 1 \in Same
    <3>1. SUFFICES ASSUME n + 1 <= m, n + 1 <= k PROVE g[n + 1] = h[n + 1]
      OBVIOUS
    <3>2. g[n] = h[n]
      BY <3>1
    <3>3. g[n + 1] = Twice(g, n + 1) /\ h[n + 1] = Twice(h, n + 1)
      BY <1>5, <3>1
    <3>4. QED
      BY <3>2, <3>3 DEF Twice
  <2> HIDE DEF Same
  <2>3. Same = Nat
    <3>1. Same \in SUBSET Nat
      BY DEF Same
    <3>2. QED
      BY <2>1, <2>2, <3>1, NumberInduction
  <2>4. QED
    BY <2>3 DEF Same
<1> DEFINE Sol(m) == CHOOSE g : UpTo(g, m)
           all == [n \in Nat |-> Sol(n)[n]]
<1>6. ASSUME NEW n \in Nat PROVE all[n] = Twice(all, n)
  <2>1. UpTo(Sol(n), n)
    BY <1>4
  <2>2. CASE n = 0
    BY <2>1, <2>2 DEF Twice
  <2>3. CASE n # 0
    <3>1. n - 1 \in Nat
      BY <2>3
    <3>2. UpTo(Sol(n - 1), n - 1)
      BY <1>4, <3>1
    <3> HIDE DEF UpTo, Sol
    <3>3. Sol(n)[n - 1] = Sol(n - 1)[n - 1]
      BY <1>5, <2>1, <3>1, <3>2
    <3>4. Sol(n)[n] = Twice(Sol(n), n)
      BY <2>1 DEF UpTo
    <3>5. QED
      BY <2>3, <3>1, <3>3, <3>4 DEF Twice
  <2>4. QED
    BY <2>2, <2>3
<1>7. Doubles(all)
  BY <1>6 DEF Doubles
<1>8. QED
  BY <1>7

LEMMA Doubled == pow2[0] = 1 /\ \A n \in Nat : pow2[n + 1] = 2 * pow2[n]
<1>1. Doubles(pow2)
  BY DoublingExists DEF pow2, Doubles, Twice
<1>2. \A n \in Nat : pow2[n] = Twice(pow2, n)
  BY <1>1 DEF Doubles
<1>3. QED
  BY <1>2 DEF Twice

LEMMA PowerType == \A n \in Nat : pow2[n] \in Nat \ {0}
<1> DEFINE Good == {n \in Nat : pow2[n] \in Nat \ {0}}
<1>1. 0 \in Good /\ \A n \in Good : n + 1 \in Good
  BY Doubled
<1> HIDE DEF Good
<1>2. Good = Nat
  <2>1. Good \in SUBSET Nat
    BY DEF Good
  <2>2. QED
    BY <1>1, <2>1, NumberInduction
<1>3. QED
  BY <1>2 DEF Good

LEMMA PowerOfTwice == \A n \in Nat : pow2[2 * n] = pow2[n] * pow2[n]
<1> DEFINE Good == {n \in Nat : pow2[2 * n] = pow2[n] * pow2[n]}
<1>1. 0 \in Good
  BY Doubled
<1>2. ASSUME NEW n \in Good PROVE n + 1 \in Good
  <2>1. pow2[2 * n + 1] = 2 * pow2[2 * n] /\ pow2[(2 * n + 1) + 1] = 2 * pow2[2 * n + 1]
    BY Doubled
  <2>2. 2 * (n + 1) = (2 * n + 1) + 1
    OBVIOUS
  <2>3. pow2[n + 1] = 2 * pow2[n] /\ pow2[n] \in Nat
    BY Doubled, PowerType
  <2>4. pow2[2 * (n + 1)] = 2 * (2 * (pow2[n] * pow2[n]))
    BY <2>1, <2>2
  <2> DEFINE q == pow2[n]
  <2> HIDE DEF q
  <2>5. 2 * (2 * (q * q)) = (2 * q) * (2 * q)
    BY <2>3 DEF q
  <2>6. QED
    BY <2>3, <2>4, <2>5 DEF q
<1> HIDE DEF Good
<1>3. Good = Nat
  <2>1. Good \in SUBSET Nat
    BY DEF Good
  <2>2. QED
    BY <1>1, <1>2, <2>1, NumberInduction
<1>4. QED
  BY <1>3 DEF Good

\* The doubling loop ends for every value below a quarter of the word.
LEMMA LoopEnds == ASSUME NEW value \in Nat, 4 * value < Word PROVE \E k \in 0..Bits : Stops(k, value)
<1>1. PICK h \in Nat \ {0} : Bits = 2 * h
  BY SwapAssumption
<1> DEFINE k == h - 1
           q == pow2[k]
<1>2. k \in Nat /\ k \in 0..Bits /\ h = k + 1
  BY <1>1
<1>3. q \in Nat \ {0} /\ pow2[h] = 2 * q
  BY <1>2, PowerType, Doubled
<1>4. Word = (2 * q) * (2 * q)
  BY <1>1, <1>3, PowerOfTwice DEF Word
<1> HIDE DEF q
<1>5. Word = 4 * (q * q) /\ q * q \in Nat /\ q <= q * q
  BY <1>3, <1>4
<1>6. q < Word /\ q * q < Word /\ value < q * q
  BY <1>3, <1>5
<1>7. U(q) = q /\ U(q * q) = q * q
  BY <1>3, <1>5, <1>6 DEF U
<1>8. Stops(k, value)
  BY <1>6, <1>7 DEF Stops, q
<1>9. QED
  BY <1>2, <1>8
-----------------------------------------------------------------------------
(***************************************************************************)
(* The prices                                                              *)
(***************************************************************************)

LEMMA WordIsAnInteger == Word \in Nat \ {0}
BY SwapAssumption, PowerType DEF Word

\* What fits into a word is not changed by it.
LEMMA Fits == ASSUME NEW n \in Nat, n < Word PROVE U(n) = n
BY WordIsAnInteger DEF U

LEMMA Quotient ==
  ASSUME NEW n \in Nat, NEW d \in Nat \ {0}
  PROVE  /\ n \div d \in Nat
         /\ d * (n \div d) <= n
         /\ n < d * ((n \div d) + 1)
OBVIOUS

LEMMA Cancel ==
  ASSUME NEW a \in Int, NEW b \in Int, NEW c \in Nat \ {0}, a * c <= b * c
  PROVE  a <= b
OBVIOUS

\* VibeSwap.h, getAmountOut: "This preserves x*y=k after fees are applied."  Whoever
\* sells amountIn never gets the whole reserve, and leaves a product that is at
\* least what it was.
THEOREM SellingFavoursThePool ==
  ASSUME NEW amountIn \in Nat \ {0}, NEW reserveIn \in Nat \ {0}, NEW reserveOut \in Nat \ {0},
         amountIn * FeeNumerator < Word,
         reserveIn * FeeDenominator + amountIn * FeeNumerator < Word,
         amountIn * FeeNumerator * reserveOut < Word
  PROVE  LET amountOut == getAmountOut(amountIn, reserveIn, reserveOut)
         IN /\ amountOut \in Nat /\ amountOut < reserveOut
            /\ (reserveIn + amountIn) * (reserveOut - amountOut) >= reserveIn * reserveOut
<1> DEFINE amountOut == getAmountOut(amountIn, reserveIn, reserveOut)
           withFee == amountIn * FeeNumerator
           scaled == reserveIn * FeeDenominator
<1>1. withFee \in Nat \ {0} /\ scaled \in Nat \ {0} /\ FeeNumerator \in Nat \ {0} /\ FeeDenominator \in Nat
  BY SwapAssumption
<1>2. scaled + withFee \in Nat \ {0} /\ withFee * reserveOut \in Nat
  BY <1>1
<1>3. amountOut = (withFee * reserveOut) \div (scaled + withFee)
  <2>1. scaled < Word
    BY <1>1, WordIsAnInteger
  <2>2. U(withFee) = withFee /\ U(scaled) = scaled /\ U(scaled + withFee) = scaled + withFee
        /\ U(withFee * reserveOut) = withFee * reserveOut
    BY <1>1, <1>2, <2>1, Fits
  <2>3. QED
    BY <1>1, <1>2, <2>2 DEF getAmountOut
<1> HIDE DEF amountOut
<1>4. amountOut \in Nat /\ (scaled + withFee) * amountOut <= withFee * reserveOut
  BY <1>2, <1>3, Quotient
<1>5. amountOut < reserveOut
  <2>1. SUFFICES ASSUME amountOut >= reserveOut PROVE FALSE
    BY <1>4
  <2>2. (scaled + withFee) * reserveOut <= (scaled + withFee) * amountOut
    BY <1>2, <1>4, <2>1
  <2>3. scaled * reserveOut > 0
    BY <1>1
  <2>4. QED
    BY <1>1, <1>4, <2>2, <2>3
<1>6. amountOut * (reserveIn + amountIn) <= amountIn * reserveOut
  <2>1. reserveIn * FeeNumerator <= scaled
    BY <1>1, SwapAssumption
  <2>2. (reserveIn * FeeNumerator) * amountOut <= scaled * amountOut
    BY <1>1, <1>4, <2>1
  <2>3. (reserveIn * FeeNumerator + withFee) * amountOut <= withFee * reserveOut
    BY <1>1, <1>4, <2>2
  <2>4. (amountOut * (reserveIn + amountIn)) * FeeNumerator <= (amountIn * reserveOut) * FeeNumerator
    BY <1>1, <1>4, <2>3
  <2>5. QED
    BY <1>1, <1>4, <2>4, Cancel
<1>7. (reserveIn + amountIn) * (reserveOut - amountOut) =
        reserveIn * reserveOut + (amountIn * reserveOut - amountOut * (reserveIn + amountIn))
  BY <1>4
<1>8. QED
  BY <1>4, <1>5, <1>6, <1>7 DEF amountOut

\* VibeSwap.h, getAmountIn: the price of amountOut is rounded up, so that the product
\* grows with every exact purchase.
THEOREM BuyingFavoursThePool ==
  ASSUME NEW amountOut \in Nat \ {0}, NEW reserveIn \in Nat \ {0}, NEW reserveOut \in Nat,
         amountOut < reserveOut,
         reserveIn * amountOut < Word, reserveIn * amountOut * FeeDenominator < Word,
         (reserveOut - amountOut) * FeeNumerator < Word,
         reserveIn * amountOut * FeeDenominator + 1 < Word
  PROVE  LET amountIn == getAmountIn(amountOut, reserveIn, reserveOut)
         IN /\ amountIn \in Nat \ {0}
            /\ (reserveIn + amountIn) * (reserveOut - amountOut) > reserveIn * reserveOut
<1> DEFINE amountIn == getAmountIn(amountOut, reserveIn, reserveOut)
           left == reserveOut - amountOut
           denominator == left * FeeNumerator
           numerator == reserveIn * amountOut * FeeDenominator
<1>1. /\ FeeNumerator \in Nat \ {0} /\ FeeDenominator \in Nat /\ FeeNumerator <= FeeDenominator
      /\ left \in Nat \ {0} /\ reserveIn * amountOut \in Nat
  BY SwapAssumption
<1>2. denominator \in Nat \ {0} /\ numerator \in Nat
  BY <1>1
<1>3. numerator \div denominator \in Nat /\ numerator < denominator * ((numerator \div denominator) + 1)
  BY <1>2, Quotient
<1>4. (numerator \div denominator) + 1 < Word
  <2>1. numerator \div denominator <= numerator
    BY <1>2, <1>3, Quotient
  <2>2. QED
    BY <1>2, <1>3, <2>1, WordIsAnInteger
<1>5. amountIn = (numerator \div denominator) + 1
  <2>1. U(reserveIn * amountOut) = reserveIn * amountOut /\ U(numerator) = numerator
        /\ U(denominator) = denominator
    BY <1>1, <1>2, Fits
  <2>2. U((numerator \div denominator) + 1) = (numerator \div denominator) + 1
    BY <1>3, <1>4, Fits
  <2>3. QED
    BY <1>1, <1>2, <2>1, <2>2 DEF getAmountIn
<1> HIDE DEF amountIn
<1>6. amountIn \in Nat \ {0} /\ numerator < denominator * amountIn
  BY <1>3, <1>5
<1>7. reserveIn * amountOut < left * amountIn
  <2>1. (reserveIn * amountOut) * FeeNumerator <= numerator
    BY <1>1
  <2>2. denominator * amountIn = (left * amountIn) * FeeNumerator
    BY <1>1, <1>6
  <2>3. SUFFICES ASSUME left * amountIn <= reserveIn * amountOut PROVE FALSE
    BY <1>1, <1>6
  <2>4. (left * amountIn) * FeeNumerator <= (reserveIn * amountOut) * FeeNumerator
    BY <1>1, <1>6, <2>3
  <2>5. QED
    BY <1>1, <1>2, <1>6, <2>1, <2>2, <2>4
<1>8. (reserveIn + amountIn) * left = reserveIn * reserveOut + (left * amountIn - reserveIn * amountOut)
  BY <1>6
<1>9. QED
  BY <1>1, <1>6, <1>7, <1>8 DEF amountIn
-----------------------------------------------------------------------------
(***************************************************************************)
(* What stands behind a share                                              *)
(***************************************************************************)

\* A pair has a smaller and a larger token.
LEMMA PairEnds ==
  ASSUME NEW p \in Pair
  PROVE  Min(p) \in p /\ Max(p) \in p /\ Min(p) # Max(p) /\ p = {Min(p), Max(p)} /\ p \subseteq Int
<1>1. IsFiniteSet(p) /\ Cardinality(p) = 2 /\ p \subseteq Int
  <2>1. p \in SUBSET Token /\ Cardinality(p) = 2
    BY DEF Pair
  <2>2. QED
    BY <2>1, SwapAssumption, FS_Subset
<1>2. PICK a : a \in p
  <2>1. p # {}
    BY <1>1, FS_EmptySet
  <2>2. QED
    BY <2>1
<1>3. IsFiniteSet(p \ {a}) /\ Cardinality(p \ {a}) = 1
  BY <1>1, <1>2, FS_RemoveElement
<1>4. PICK b : p \ {a} = {b}
  BY <1>3, FS_Singleton
<1>5. p = {a, b} /\ a # b /\ a \in Int /\ b \in Int
  BY <1>1, <1>2, <1>4
<1>6. ASSUME NEW x \in Int, NEW y \in Int, p = {x, y}, x < y
      PROVE  Min(p) = x /\ Max(p) = y
  <2>1. \A m \in p : (\A n \in p : m <= n) <=> m = x
    BY <1>6
  <2>2. \A m \in p : (\A n \in p : m >= n) <=> m = y
    BY <1>6
  <2>3. QED
    BY <1>6, <2>1, <2>2 DEF Min, Max
<1>7. CASE a < b
  BY <1>5, <1>6, <1>7
<1>8. CASE b < a
  <2>1. p = {b, a}
    BY <1>5
  <2>2. QED
    BY <1>5, <1>6, <1>8, <2>1
<1>9. a < b \/ b < a
  BY <1>5
<1>10. QED
  BY <1>1, <1>5, <1>7, <1>8, <1>9

LEMMA TwoFactors ==
  ASSUME NEW a \in Nat, NEW b \in Nat, NEW c \in Nat, NEW d \in Nat, a <= b, c <= d
  PROVE  a * c <= b * d
<1>1. a * c <= b * c
  OBVIOUS
<1>2. b * c <= b * d
  OBVIOUS
<1>3. QED
  BY <1>1, <1>2

\* Two reserves that each keep their share keep it together.
LEMMA ValuesMultiply ==
  ASSUME NEW r0 \in Nat, NEW r1 \in Nat, NEW s \in Nat,
         NEW q0 \in Nat, NEW q1 \in Nat, NEW t \in Nat,
         r0 * t <= q0 * s, r1 * t <= q1 * s
  PROVE  (q0 * q1) * s * s >= (r0 * r1) * t * t
<1>1. r0 * t \in Nat /\ r1 * t \in Nat /\ q0 * s \in Nat /\ q1 * s \in Nat
  OBVIOUS
<1>2. (r0 * t) * (r1 * t) <= (q0 * s) * (q1 * s)
  BY <1>1, TwoFactors
<1>3. (q0 * s) * (q1 * s) = (q0 * q1) * s * s /\ (r0 * t) * (r1 * t) = (r0 * r1) * t * t
  OBVIOUS
<1>4. QED
  BY <1>2, <1>3

\* The value of a share is kept when each reserve keeps its part of it.
LEMMA ReservesKeepValue ==
  ASSUME NEW p \in Pair, totalSupply[p] \in Nat, totalSupply'[p] \in Nat,
         \A t \in p : /\ reserve[p][t] \in Nat /\ reserve'[p][t] \in Nat
                      /\ reserve[p][t] * totalSupply'[p] <= reserve'[p][t] * totalSupply[p]
  PROVE  ValueKept(p)
BY PairEnds, ValuesMultiply DEF ValueKept, Product

\* VibeSwap.cpp, removeLiquidity: what is paid out is rounded down, so that a
\* withdrawal never takes from those who stay.
THEOREM WithdrawalFavoursThePool ==
  ASSUME NEW u \in User, NEW p \in Pair, NEW liquidity \in Nat, NEW minimum \in Nat,
         reserve \in [Pair -> UNION {[q -> Nat] : q \in Pair}], reserve[p] \in [p -> Nat],
         totalSupply \in [Pair -> Nat], lpBalances[p][u] <= totalSupply[p], lpBalances[p][u] \in Nat,
         \A t \in p : liquidity * reserve[p][t] < Word,
         removeLiquidity(u, p, liquidity, minimum)
  PROVE  ValueKept(p)
<1> DEFINE amount == Withdrawal(liquidity, p)
<1>1. CASE UNCHANGED <<reserve, totalSupply>>
  BY <1>1, ReservesKeepValue
<1>2. CASE ~UNCHANGED <<reserve, totalSupply>>
  <2>1. /\ totalSupply[p] \in Nat \ {0} /\ liquidity <= totalSupply[p]
        /\ reserve' = [reserve EXCEPT ![p] = [t \in p |-> @[t] - amount[t]]]
        /\ totalSupply' = [totalSupply EXCEPT ![p] = @ - liquidity]
    <3>1. ~Reject(<<>>)
      BY <1>2 DEF Reject, pools
    <3>2. /\ totalSupply[p] > 0 /\ lpBalances[p][u] >= liquidity
          /\ reserve' = [reserve EXCEPT ![p] = [t \in p |-> @[t] - amount[t]]]
          /\ totalSupply' = [totalSupply EXCEPT ![p] = @ - liquidity]
      BY <3>1, Zenon DEF removeLiquidity
    <3>3. totalSupply[p] \in Nat
      OBVIOUS
    <3>4. QED
      BY <3>2, <3>3
  <2>2. totalSupply'[p] = totalSupply[p] - liquidity /\ totalSupply'[p] \in Nat
    BY <2>1
  <2>3. ASSUME NEW t \in p
        PROVE  /\ reserve[p][t] \in Nat /\ reserve'[p][t] \in Nat
               /\ reserve[p][t] * totalSupply'[p] <= reserve'[p][t] * totalSupply[p]
    <3> DEFINE r == reserve[p][t]  paid == amount[t]  s == totalSupply[p]
    <3>1. r \in Nat /\ liquidity * r \in Nat /\ reserve'[p][t] = r - paid
      BY <2>1
    <3>2. paid = (liquidity * r) \div s
      BY <3>1, Fits DEF Withdrawal
    <3>3. paid \in Nat /\ s * paid <= liquidity * r
      BY <2>1, <3>1, <3>2, Quotient
    <3> HIDE DEF r, paid, s, amount
    <3>4. s \in Nat \ {0} /\ liquidity <= s
      BY <2>1 DEF s
    <3>5. paid <= r
      <4>1. liquidity * r <= s * r
        BY <3>1, <3>4
      <4>2. paid * s <= r * s
        BY <3>1, <3>3, <3>4, <4>1
      <4>3. QED
        BY <3>1, <3>3, <3>4, <4>2, Cancel
    <3>6. r * (s - liquidity) <= (r - paid) * s
      BY <3>1, <3>3, <3>4
    <3>7. r - paid \in Nat
      BY <3>1, <3>3, <3>5
    <3>8. totalSupply'[p] = s - liquidity
      BY <2>2 DEF s
    <3>9. r \in Nat /\ reserve'[p][t] \in Nat /\ r * totalSupply'[p] <= reserve'[p][t] * s
      BY <3>1, <3>6, <3>7, <3>8
    <3>10. QED
      BY <3>9 DEF r, s
  <2>4. QED
    BY <2>1, <2>2, <2>3, ReservesKeepValue
<1>3. QED
  BY <1>1, <1>2

LEMMA MinOfTwo ==
  ASSUME NEW x \in Int, NEW y \in Int
  PROVE  Min({x, y}) \in {x, y} /\ Min({x, y}) <= x /\ Min({x, y}) <= y
<1>1. \E m \in {x, y} : \A n \in {x, y} : m <= n
  <2>1. CASE x <= y
    BY <2>1
  <2>2. CASE y < x
    BY <2>2
  <2>3. QED
    BY <2>1, <2>2
<1>2. Min({x, y}) \in {x, y} /\ \A n \in {x, y} : Min({x, y}) <= n
  BY <1>1 DEF Min
<1>3. QED
  BY <1>2

\* VibeSwap.cpp, addLiquidity: of two amounts the one is taken that the other asks
\* for at the present price, and never more than was offered.
LEMMA TakenIsOffered ==
  ASSUME NEW p \in Pair, NEW desired \in [p -> Nat], reserve[p] \in [p -> Nat \ {0}],
         \A s, t \in p : desired[t] * reserve[p][s] < Word
  PROVE  LET taken == FurtherDeposit(desired, p).taken
         IN taken \in [p -> Nat] /\ \A t \in p : taken[t] <= desired[t]
<1> DEFINE t0 == Min(p)  t1 == Max(p)
           d0 == desired[t0]  d1 == desired[t1]  r0 == reserve[p][t0]  r1 == reserve[p][t1]
           optimal1 == quote(d0, r0, r1)  optimal0 == quote(d1, r1, r0)
           t == IF optimal1 <= d1 THEN t1 ELSE t0
           taken == [desired EXCEPT ![t] = IF t = t1 THEN optimal1 ELSE optimal0]
<1>1. t0 \in p /\ t1 \in p /\ t0 # t1 /\ p = {t0, t1}
  BY PairEnds
<1>2. d0 \in Nat /\ d1 \in Nat /\ r0 \in Nat \ {0} /\ r1 \in Nat \ {0}
  BY <1>1
<1>3. d0 * r1 < Word /\ d1 * r0 < Word /\ d0 * r1 \in Nat /\ d1 * r0 \in Nat
  BY <1>1, <1>2
<1>4. FurtherDeposit(desired, p).taken = taken
  BY DEF FurtherDeposit
<1> HIDE DEF t0, t1, d0, d1, r0, r1
<1>5. optimal1 = (d0 * r1) \div r0 /\ optimal0 = (d1 * r0) \div r1
  BY <1>3, Fits DEF quote
<1> HIDE DEF optimal1, optimal0
<1>6. /\ optimal1 \in Nat /\ d0 * r1 < r0 * (optimal1 + 1) /\ r0 * optimal1 <= d0 * r1
      /\ optimal0 \in Nat /\ r1 * optimal0 <= d1 * r0
  BY <1>2, <1>3, <1>5, Quotient
<1>7. ASSUME NEW e \in p, NEW n \in Nat, n <= desired[e]
      PROVE  LET changed == [desired EXCEPT ![e] = n]
             IN changed \in [p -> Nat] /\ \A x \in p : changed[x] <= desired[x]
  BY <1>7
<1>8. CASE optimal1 <= d1
  <2>1. t = t1
    BY <1>8
  <2>2. taken = [desired EXCEPT ![t1] = optimal1]
    BY <2>1
  <2>3. optimal1 <= desired[t1]
    BY <1>8 DEF d1
  <2> HIDE DEF taken
  <2>4. optimal1 \in Nat
    BY <1>6
  <2>5. taken \in [p -> Nat] /\ \A x \in p : taken[x] <= desired[x]
    BY <1>1, <1>7, <2>2, <2>3, <2>4
  <2>6. QED
    BY <1>4, <2>5, Zenon
<1>9. CASE optimal1 > d1
  <2>1. r0 * d1 <= r0 * optimal1
    BY <1>2, <1>6, <1>9
  <2>2. optimal0 * r1 <= d0 * r1
    BY <1>2, <1>6, <2>1
  <2>3. optimal0 <= d0
    BY <1>2, <1>6, <2>2, Cancel
  <2>4. t = t0
    BY <1>2, <1>6, <1>9
  <2>5. taken = [desired EXCEPT ![t0] = optimal0]
    BY <1>1, <2>4
  <2>6. optimal0 <= desired[t0]
    BY <2>3 DEF d0
  <2> HIDE DEF taken
  <2>7. optimal0 \in Nat
    BY <1>6
  <2>8. taken \in [p -> Nat] /\ \A x \in p : taken[x] <= desired[x]
    BY <1>1, <1>7, <2>5, <2>6, <2>7
  <2>9. QED
    BY <1>4, <2>8, Zenon
<1>10. QED
  BY <1>2, <1>6, <1>8, <1>9

LEMMA NoLessThanItself ==
  ASSUME NEW r \in Nat \ {0}, NEW n \in Nat PROVE n <= r * n
<1>1. 1 * n <= r * n
  BY TwoFactors
<1>2. QED
  BY <1>1

LEMMA AddedInProportion ==
  ASSUME NEW r \in Nat, NEW s \in Nat, NEW added \in Nat, NEW minted \in Nat,
         r * minted <= added * s
  PROVE  r * (s + minted) <= (r + added) * s
<1>1. r * (s + minted) = r * s + r * minted /\ (r + added) * s = r * s + added * s
  OBVIOUS
<1>2. r * s \in Nat /\ r * minted \in Nat /\ added * s \in Nat
  OBVIOUS
<1>3. QED
  BY <1>1, <1>2

LEMMA ProvidedShare ==
  ASSUME NEW p \in Pair, NEW taken \in [p -> Nat], reserve[p] \in [p -> Nat \ {0}],
         totalSupply[p] \in Nat, \A t \in p : taken[t] * totalSupply[p] < Word
  PROVE  /\ ProportionalShare(taken, p) \in Nat
         /\ \A t \in p : reserve[p][t] * ProportionalShare(taken, p) <= taken[t] * totalSupply[p]
<1> DEFINE share(t) == U(taken[t] * totalSupply[p]) \div reserve[p][t]
           t0 == Min(p)  t1 == Max(p)
<1>1. t0 \in p /\ t1 \in p /\ p = {t0, t1}
  BY PairEnds
<1>2. ASSUME NEW t \in p
      PROVE  share(t) \in Nat /\ reserve[p][t] * share(t) <= taken[t] * totalSupply[p]
  <2> DEFINE n == taken[t] * totalSupply[p]  r == reserve[p][t]
  <2>1. n \in Nat /\ n < Word /\ r \in Nat \ {0}
    OBVIOUS
  <2>2. share(t) = n \div r
    BY <2>1, Fits
  <2> HIDE DEF n, r, share
  <2>3. share(t) \in Nat /\ r * share(t) <= n
    BY <2>1, <2>2, Quotient
  <2>4. QED
    BY <2>3 DEF n, r
<1>3. ProportionalShare(taken, p) = Min({share(t) : t \in p})
  BY DEF ProportionalShare
<1> HIDE DEF share, t0, t1
<1>4. {share(t) : t \in p} = {share(t0), share(t1)}
  BY <1>1
<1> DEFINE least == Min({share(t0), share(t1)})
<1>5. least \in {share(t0), share(t1)} /\ least <= share(t0) /\ least <= share(t1)
  <2>1. share(t0) \in Int /\ share(t1) \in Int
    BY <1>1, <1>2
  <2>2. QED
    BY <2>1, MinOfTwo
<1> HIDE DEF least
<1>6. least \in Nat /\ \A t \in p : least <= share(t)
  BY <1>1, <1>2, <1>5
<1>7. ASSUME NEW t \in p
      PROVE  reserve[p][t] * least <= taken[t] * totalSupply[p]
  <2>1. reserve[p][t] \in Nat /\ share(t) \in Nat /\ least <= share(t)
    BY <1>2, <1>6
  <2>2. reserve[p][t] * least <= reserve[p][t] * share(t)
    BY <1>6, <2>1, TwoFactors
  <2>3. taken[t] * totalSupply[p] \in Nat
    OBVIOUS
  <2>4. QED
    BY <1>2, <1>6, <2>1, <2>2, <2>3
<1>8. ProportionalShare(taken, p) = least
  BY <1>3, <1>4 DEF least
<1>9. QED
  BY <1>6, <1>7, <1>8, Zenon

\* VibeSwap.cpp, addLiquidity: a deposit into a pool that has shares is given no
\* more of them than it pays for, in either token.
THEOREM DepositFavoursThePool ==
  ASSUME NEW u \in User, NEW p \in Pair, NEW desired \in [p -> Nat], NEW minimum \in Nat,
         reserve \in [Pair -> UNION {[q -> Nat] : q \in Pair}], reserve[p] \in [p -> Nat \ {0}],
         totalSupply \in [Pair -> Nat], totalSupply[p] > 0,
         \A s, t \in p : desired[t] * reserve[p][s] < Word,
         \A t \in p : /\ reserve[p][t] + desired[t] < Word
                      /\ totalSupply[p] + desired[t] * totalSupply[p] < Word,
         addLiquidity(u, p, desired, minimum)
  PROVE  ValueKept(p)
<1> DEFINE deposit == FurtherDeposit(desired, p)  taken == deposit.taken
           liquidity == deposit.liquidity  s == totalSupply[p]
<1>1. s \in Nat \ {0}
  OBVIOUS
<1>2. CASE UNCHANGED <<reserve, totalSupply>>
  BY <1>2, ReservesKeepValue
<1>3. CASE ~UNCHANGED <<reserve, totalSupply>>
  <2>1. MoveIn(u, p, deposit)
    <3>1. ~Reject(<<>>) /\ ~UNCHANGED pools
      BY <1>3 DEF Reject, pools
    <3>2. s # 0
      BY <1>1
    <3>3. QED
      BY <3>1, <3>2, Zenon DEF addLiquidity
  <2>2. taken \in [p -> Nat] /\ \A t \in p : taken[t] <= desired[t]
    BY TakenIsOffered
  <2>3. liquidity = ProportionalShare(taken, p)
    BY DEF FurtherDeposit
  <2>4. /\ reserve' = [reserve EXCEPT ![p] = [t \in p |-> U(@[t] + taken[t])]]
        /\ totalSupply' = [totalSupply EXCEPT ![p] = U(@ + liquidity + 0)]
    BY <1>1, <2>1 DEF MoveIn, Mint
  <2> HIDE DEF deposit, taken, liquidity
  <2>5. ASSUME NEW t \in p
        PROVE  /\ taken[t] * s \in Nat /\ taken[t] * s <= desired[t] * s
               /\ s + taken[t] * s < Word /\ taken[t] * s < Word
    <3>1. desired[t] \in Nat /\ taken[t] \in Nat /\ taken[t] <= desired[t] /\ s + desired[t] * s < Word
      BY <2>2
    <3> HIDE DEF s
    <3>2. taken[t] * s <= desired[t] * s /\ taken[t] * s \in Nat /\ desired[t] * s \in Nat
      BY <1>1, <3>1
    <3>3. QED
      BY <1>1, <3>1, <3>2, WordIsAnInteger
  <2>6. liquidity \in Nat /\ \A t \in p : reserve[p][t] * liquidity <= taken[t] * s
    BY <1>1, <2>2, <2>3, <2>5, ProvidedShare
  <2>7. totalSupply'[p] = s + liquidity
    <3>1. PICK t : t \in p
      BY PairEnds
    <3>2. reserve[p][t] \in Nat \ {0} /\ taken[t] * s \in Nat /\ s + taken[t] * s < Word
      BY <2>5, <3>1
    <3>3. liquidity <= reserve[p][t] * liquidity
      <4> DEFINE r == reserve[p][t]
      <4>1. r \in Nat \ {0} /\ liquidity \in Nat
        BY <2>6, <3>2
      <4> HIDE DEF r
      <4>2. liquidity <= r * liquidity
        BY <4>1, NoLessThanItself
      <4>3. QED
        BY <4>2 DEF r
    <3>4. reserve[p][t] * liquidity <= taken[t] * s /\ reserve[p][t] * liquidity \in Nat
      BY <2>6, <3>1, <3>2
    <3> HIDE DEF s
    <3>5. s + liquidity < Word /\ s + liquidity \in Nat
      BY <1>1, <2>6, <3>2, <3>3, <3>4, WordIsAnInteger
    <3>6. totalSupply'[p] = U(s + liquidity)
      BY <1>1, <2>4, <2>6 DEF s
    <3>7. QED
      BY <3>5, <3>6, Fits
  <2>8. ASSUME NEW t \in p
        PROVE  /\ reserve[p][t] \in Nat /\ reserve'[p][t] \in Nat
               /\ reserve[p][t] * totalSupply'[p] <= reserve'[p][t] * s
    <3> DEFINE r == reserve[p][t]
    <3>1. r \in Nat /\ taken[t] \in Nat /\ r + taken[t] < Word /\ r + taken[t] \in Nat
      BY <2>2, WordIsAnInteger
    <3>2. reserve'[p][t] = r + taken[t]
      BY <2>4, <3>1, Fits
    <3>3. r * liquidity <= taken[t] * s
      BY <2>6
    <3> HIDE DEF r, s
    <3>4. r * (s + liquidity) <= (r + taken[t]) * s
      <4>1. s \in Nat /\ liquidity \in Nat
        BY <1>1, <2>6
      <4> DEFINE added == taken[t]
      <4>2. r \in Nat /\ added \in Nat /\ r * liquidity <= added * s
        BY <3>1, <3>3
      <4> HIDE DEF added
      <4>3. r * (s + liquidity) <= (r + added) * s
        BY <4>1, <4>2, AddedInProportion
      <4>4. QED
        BY <4>3 DEF added
    <3>5. r \in Nat /\ reserve'[p][t] \in Nat /\ r * totalSupply'[p] <= reserve'[p][t] * s
      BY <2>7, <3>1, <3>2, <3>4
    <3>6. QED
      BY <3>5 DEF r
  <2>9. totalSupply'[p] \in Nat
    BY <1>1, <2>6, <2>7
  <2>10. QED
    BY <1>1, <2>8, <2>9, ReservesKeepValue
<1>4. QED
  BY <1>2, <1>3

\* integerSqrt, as addLiquidity calls it: a deposit can only fail to return when
\* four times the product of its amounts does not fit into a word.
THEOREM OnlyHugeOnesHang == Spec => []OnlyHugeDepositsHang
<1>1. Init => OnlyHugeDepositsHang
  BY DEF Init, OnlyHugeDepositsHang
<1>2. ASSUME OnlyHugeDepositsHang, [Next]_vars PROVE OnlyHugeDepositsHang'
  <2>1. CASE UNCHANGED hung
    BY <1>2, <2>1 DEF OnlyHugeDepositsHang
  <2>2. ASSUME NEW u \in User, NEW p \in Pair, NEW d \in Desired, NEW minimum \in Limit,
               addLiquidity(u, p, [t \in p |-> IF t = Min(p) THEN d[1] ELSE d[2]], minimum),
               ~UNCHANGED hung
        PROVE  OnlyHugeDepositsHang'
    <3> DEFINE desired == [t \in p |-> IF t = Min(p) THEN d[1] ELSE d[2]]
               d0 == desired[Min(p)]
               d1 == desired[Max(p)]
    <3>1. hung' = <<d0, d1>> /\ \A k \in 0..Bits : ~Stops(k, U(d0 * d1))
      BY <2>2, Zenon DEF addLiquidity, MoveIn, Reject
    <3>2. d0 \in Nat /\ d1 \in Nat
      BY PairEnds, SwapAssumption
    <3> HIDE DEF d0, d1
    <3>3. d0 * d1 \in Nat
      BY <3>2
    <3>4. 4 * (d0 * d1) >= Word
      <4>1. SUFFICES ASSUME 4 * (d0 * d1) < Word PROVE FALSE
        BY <3>3, WordIsAnInteger
      <4>2. U(d0 * d1) = d0 * d1
        <5>1. d0 * d1 < Word
          BY <3>3, <4>1, WordIsAnInteger
        <5>2. QED
          BY <3>3, <5>1, Fits
      <4>3. QED
        BY <3>1, <3>3, <4>1, <4>2, LoopEnds
    <3>5. 4 * hung'[1] * hung'[2] = 4 * (d0 * d1)
      BY <3>1, <3>2
    <3>6. QED
      BY <3>4, <3>5 DEF OnlyHugeDepositsHang
  <2>3. CASE Next
    <3>1. CASE Hung
      BY <2>1, <3>1 DEF Hung, vars
    <3>2. ASSUME NEW u \in User, NEW t \in Token, NEW amount \in Funding, mintToken(u, t, amount)
          PROVE  UNCHANGED hung
      BY <3>2 DEF mintToken
    <3>3. ASSUME NEW u \in User, NEW p \in Pair, NEW liquidity \in Share, NEW minimum \in Limit,
                 removeLiquidity(u, p, liquidity, minimum)
          PROVE  UNCHANGED hung
      BY <3>3, Zenon DEF removeLiquidity, Reject
    <3>4. ASSUME NEW u \in User, NEW to \in User, NEW path \in Path, NEW amount \in Amount, NEW limit \in Limit,
                 \/ swapExactTokensForTokens(u, to, path, amount, limit)
                 \/ swapTokensForExactTokens(u, to, path, amount, limit)
          PROVE  UNCHANGED hung
      BY <3>4, Zenon DEF swapExactTokensForTokens, swapTokensForExactTokens, SwapWithKnownAmounts, Reject
    <3>5. QED
      BY <2>1, <2>2, <2>3, <3>1, <3>2, <3>3, <3>4 DEF Next
  <2>4. QED
    BY <1>2, <2>1, <2>3 DEF vars
<1>3. QED
  BY <1>1, <1>2, PTL DEF Spec
-----------------------------------------------------------------------------
(***************************************************************************)
(* The books of the exchange                                               *)
(***************************************************************************)
PoolsOf(t) == {p \in Pair : t \in p}
InWallets(b, t) == SumFunctionOnSet([u \in User |-> b[u][t]], User)
InPools(r, t) == SumFunctionOnSet([p \in PoolsOf(t) |-> r[p][t]], PoolsOf(t))

LEMMA FinitelyMany ==
  /\ IsFiniteSet(User) /\ IsFiniteSet(Wallet) /\ IsFiniteSet(Pair)
  /\ \A t : IsFiniteSet(PoolsOf(t)) /\ PoolsOf(t) \subseteq Pair
<1>1. IsFiniteSet(User) /\ IsFiniteSet(SUBSET Token)
  BY SwapAssumption, FS_SUBSET
<1>2. IsFiniteSet(Wallet)
  BY <1>1, FS_AddElement DEF Wallet
<1>3. IsFiniteSet(Pair)
  BY <1>1, FS_Subset DEF Pair
<1>4. QED
  BY <1>1, <1>2, <1>3, FS_Subset DEF PoolsOf

LEMMA SupplyIsSum ==
  ASSUME NEW t \in Token
  PROVE  /\ Supply(t) = InWallets(balances, t) + InPools(reserve, t)
         /\ Supply(t)' = InWallets(balances', t) + InPools(reserve', t)
BY DEF Supply, SumFunction, InWallets, InPools, PoolsOf

LEMMA WalletSums ==
  ASSUME NEW b, NEW t, \A u \in User : b[u][t] \in Nat
  PROVE  InWallets(b, t) \in Nat /\ \A u \in User : b[u][t] <= InWallets(b, t)
<1> DEFINE f == [u \in User |-> b[u][t]]
<1>1. \A u \in User : f[u] \in Nat /\ f[u] = b[u][t]
  OBVIOUS
<1> HIDE DEF f
<1>2. SumFunctionOnSet(f, User) \in Int /\ SumFunctionOnSet(f, User) >= 0
  BY <1>1, FinitelyMany, SumType
<1>3. \A u \in User : f[u] <= SumFunctionOnSet(f, User)
  BY <1>1, FinitelyMany, SumBounds
<1>4. QED
  BY <1>1, <1>2, <1>3 DEF f, InWallets

LEMMA PoolSums ==
  ASSUME NEW r, NEW t, \A p \in Pair : t \in p => r[p][t] \in Nat
  PROVE  InPools(r, t) \in Nat /\ \A p \in Pair : t \in p => r[p][t] <= InPools(r, t)
<1> DEFINE f == [p \in PoolsOf(t) |-> r[p][t]]
<1>1. \A p \in PoolsOf(t) : f[p] \in Nat /\ f[p] = r[p][t]
  BY DEF PoolsOf
<1>2. \A p \in Pair : t \in p => p \in PoolsOf(t)
  BY DEF PoolsOf
<1> HIDE DEF f
<1>3. SumFunctionOnSet(f, PoolsOf(t)) \in Int /\ SumFunctionOnSet(f, PoolsOf(t)) >= 0
  BY <1>1, FinitelyMany, SumType
<1>4. \A p \in PoolsOf(t) : f[p] <= SumFunctionOnSet(f, PoolsOf(t))
  BY <1>1, FinitelyMany, SumBounds
<1>5. QED
  BY <1>1, <1>2, <1>3, <1>4 DEF f, InPools

LEMMA WalletChanges ==
  ASSUME NEW b, NEW c, NEW t, NEW u \in User,
         \A v \in User : b[v][t] \in Int /\ c[v][t] \in Int,
         \A v \in User \ {u} : c[v][t] = b[v][t]
  PROVE  InWallets(c, t) = InWallets(b, t) - b[u][t] + c[u][t]
<1> DEFINE f == [v \in User |-> b[v][t]]
           g == [v \in User |-> c[v][t]]
<1>1. /\ \A v \in User : f[v] \in Int /\ g[v] \in Int
      /\ \A v \in User \ {u} : g[v] = f[v]
      /\ f[u] = b[u][t] /\ g[u] = c[u][t]
  OBVIOUS
<1> HIDE DEF f, g
<1>2. SumFunctionOnSet(g, User) = SumFunctionOnSet(f, User) - f[u] + g[u]
  <2>1. IsFiniteSet(User)
    BY FinitelyMany
  <2>2. \A v \in User : f[v] \in Int /\ g[v] \in Int
    BY <1>1
  <2>3. \A v \in User \ {u} : g[v] = f[v]
    BY <1>1
  <2>4. QED
    BY <2>1, <2>2, <2>3, SumChanges
<1>3. QED
  BY <1>1, <1>2 DEF f, g, InWallets

LEMMA PoolChanges ==
  ASSUME NEW r, NEW s, NEW t, NEW p \in Pair,
         \A q \in Pair : t \in q => r[q][t] \in Int /\ s[q][t] \in Int,
         \A q \in Pair \ {p} : s[q] = r[q]
  PROVE  InPools(s, t) = InPools(r, t) + (IF t \in p THEN s[p][t] - r[p][t] ELSE 0)
<1> DEFINE f == [q \in PoolsOf(t) |-> r[q][t]]
           g == [q \in PoolsOf(t) |-> s[q][t]]
<1>1. /\ \A q \in PoolsOf(t) : f[q] \in Int /\ g[q] \in Int
      /\ \A q \in PoolsOf(t) \ {p} : g[q] = f[q]
      /\ p \in PoolsOf(t) => f[p] = r[p][t] /\ g[p] = s[p][t]
  BY DEF PoolsOf
<1> HIDE DEF f, g
<1>2. SumFunctionOnSet(f, PoolsOf(t)) \in Int
  BY <1>1, FinitelyMany, SumType
<1>3. CASE t \in p
  <2>1. p \in PoolsOf(t)
    BY <1>3 DEF PoolsOf
  <2>2. SumFunctionOnSet(g, PoolsOf(t)) = SumFunctionOnSet(f, PoolsOf(t)) - f[p] + g[p]
    <3> DEFINE S == PoolsOf(t)
    <3>1. IsFiniteSet(S) /\ p \in S
      BY <2>1, FinitelyMany
    <3>2. \A q \in S : f[q] \in Int /\ g[q] \in Int
      BY <1>1
    <3>3. \A q \in S \ {p} : g[q] = f[q]
      BY <1>1
    <3> HIDE DEF S
    <3>4. SumFunctionOnSet(g, S) = SumFunctionOnSet(f, S) - f[p] + g[p]
      BY <3>1, <3>2, <3>3, SumChanges
    <3>5. QED
      BY <3>4 DEF S
  <2>3. f[p] \in Int /\ g[p] \in Int
    BY <1>1, <2>1
  <2>4. SumFunctionOnSet(g, PoolsOf(t)) = SumFunctionOnSet(f, PoolsOf(t)) + (g[p] - f[p])
    BY <1>2, <2>2, <2>3
  <2>5. QED
    BY <1>1, <1>3, <2>1, <2>4 DEF f, g, InPools
<1>4. CASE t \notin p
  <2>1. \A q \in PoolsOf(t) : f[q] \in Int /\ g[q] = f[q]
    BY <1>1, <1>4 DEF PoolsOf
  <2>2. SumFunctionOnSet(g, PoolsOf(t)) = SumFunctionOnSet(f, PoolsOf(t))
    BY <2>1, FinitelyMany, SumOfSame
  <2>3. QED
    BY <1>2, <1>4, <2>2 DEF f, g, InPools
<1>5. QED
  BY <1>3, <1>4

-----------------------------------------------------------------------------
(***************************************************************************)
(* The amounts of a path, and the hops                                     *)
(***************************************************************************)

\* The three recursions along a path, one step of each.
StepOut(g, amountIn, path, i) ==
  IF i = 1 THEN amountIn
  ELSE LET r == reserve[HopPair(path, i - 1)]
       IN getAmountOut(g[i - 1], r[path[i - 1]], r[path[i]])

StepIn(g, amountOut, path, i) ==
  IF i = Len(path) THEN amountOut
  ELSE LET r == reserve[HopPair(path, i)]
       IN getAmountIn(g[i + 1], r[path[i]], r[path[i + 1]])

StepHop(g, path, amounts, i) ==
  IF i = 1 THEN [reserve |-> reserve, throws |-> FALSE]
  ELSE Hop(g[i - 1], path, amounts, i - 1)

LEMMA OutUnfolds ==
  ASSUME NEW path, Len(path) \in Nat, NEW amountIn
  PROVE  LET amounts == getAmountsOut(amountIn, path)
         IN \A i \in 1..Len(path) : amounts[i] = StepOut(amounts, amountIn, path, i)
<1> DEFINE n == Len(path)
           Step(g, i) == StepOut(g, amountIn, path, i)
           Solves(g) == g = [i \in 1..n |-> Step(g, i)]
           UpTo(g, k) == \A i \in 1..k : g[i] = Step(g, i)
           Good == {k \in Nat : \E g : UpTo(g, k)}
<1>1. ASSUME NEW g, NEW h, NEW i \in Nat, i > 0, i > 1 => h[i - 1] = g[i - 1]
      PROVE  Step(h, i) = Step(g, i)
  BY <1>1 DEF StepOut
<1> HIDE DEF Step
<1>2. 0 \in Good
  OBVIOUS
<1>3. ASSUME NEW k \in Good PROVE k + 1 \in Good
  <2>1. k \in Nat /\ k + 1 \in Nat /\ \E g : UpTo(g, k)
    OBVIOUS
  <2>2. PICK g : UpTo(g, k)
    BY <2>1
  <2> DEFINE h == [i \in 1..(k + 1) |-> IF i = k + 1 THEN Step(g, i) ELSE g[i]]
  <2>3. \A i \in 1..(k + 1) : h[i] = IF i = k + 1 THEN Step(g, i) ELSE g[i]
    OBVIOUS
  <2>4. \A i \in 1..k : h[i] = g[i]
    BY <2>1, <2>3
  <2> HIDE DEF h
  <2>5. ASSUME NEW i \in 1..(k + 1) PROVE h[i] = Step(h, i)
    <3>1. Step(h, i) = Step(g, i)
      BY <1>1, <2>1, <2>4
    <3>2. h[i] = Step(g, i)
      BY <2>1, <2>2, <2>3, <2>4
    <3>3. QED
      BY <3>1, <3>2
  <2>6. QED
    BY <2>1, <2>5
<1>4. PICK g : UpTo(g, n)
  <2> HIDE DEF Good
  <2>1. Good \in SUBSET Nat
    BY DEF Good
  <2>2. Good = Nat
    BY <1>2, <1>3, <2>1, NumberInduction
  <2>3. QED
    BY <2>2 DEF Good
<1> DEFINE h == [i \in 1..n |-> g[i]]
<1>5. \A i \in 1..n : h[i] = g[i]
  OBVIOUS
<1> HIDE DEF h
<1>6. \A i \in 1..n : h[i] = Step(h, i)
  BY <1>1, <1>4, <1>5
<1>7. Solves(h)
  <2>1. h = [i \in 1..n |-> h[i]]
    BY DEF h
  <2>2. QED
    BY <1>6, <2>1
<1> DEFINE amounts == getAmountsOut(amountIn, path)
<1>8. amounts = CHOOSE g_1 : Solves(g_1)
  BY DEF getAmountsOut, Step, StepOut
<1> HIDE DEF amounts
<1>9. Solves(amounts)
  BY <1>7, <1>8
<1>10. \A i \in 1..n : amounts[i] = Step(amounts, i)
  BY <1>9
<1>11. QED
  BY <1>10 DEF amounts, Step
LEMMA InUnfolds ==
  ASSUME NEW path, Len(path) \in Nat, NEW amountOut
  PROVE  LET amounts == getAmountsIn(amountOut, path)
         IN \A i \in 1..Len(path) : amounts[i] = StepIn(amounts, amountOut, path, i)
<1> DEFINE n == Len(path)
           Step(g, i) == StepIn(g, amountOut, path, i)
           Solves(g) == g = [i \in 1..n |-> Step(g, i)]
           From(g, k) == \A i \in 1..n : i > n - k => g[i] = Step(g, i)
           Good == {k \in Nat : \E g : From(g, k)}
<1>1. ASSUME NEW g, NEW h, NEW i \in 1..n, i < n => h[i + 1] = g[i + 1]
      PROVE  Step(h, i) = Step(g, i)
  BY <1>1 DEF StepIn
<1> HIDE DEF Step
<1>2. 0 \in Good
  OBVIOUS
<1>3. ASSUME NEW k \in Good PROVE k + 1 \in Good
  <2>1. k \in Nat /\ k + 1 \in Nat /\ \E g : From(g, k)
    OBVIOUS
  <2>2. PICK g : From(g, k)
    BY <2>1
  <2> DEFINE h == [i \in 1..n |-> IF i > n - k THEN g[i] ELSE Step(g, i)]
  <2>3. \A i \in 1..n : h[i] = IF i > n - k THEN g[i] ELSE Step(g, i)
    OBVIOUS
  <2> HIDE DEF h
  <2>4. ASSUME NEW i \in 1..n, i > n - (k + 1) PROVE h[i] = Step(h, i)
    <3>1. i < n => i + 1 \in 1..n /\ i + 1 > n - k
      BY <2>1, <2>4
    <3>2. Step(h, i) = Step(g, i)
      BY <1>1, <2>3, <3>1
    <3>3. h[i] = Step(g, i)
      BY <2>1, <2>2, <2>3
    <3>4. QED
      BY <3>2, <3>3
  <2>5. QED
    BY <2>1, <2>4
<1>4. PICK g : \A i \in 1..n : g[i] = Step(g, i)
  <2> HIDE DEF Good
  <2>1. Good \in SUBSET Nat
    BY DEF Good
  <2>2. Good = Nat
    BY <1>2, <1>3, <2>1, NumberInduction
  <2>3. QED
    BY <2>2 DEF Good
<1> DEFINE h == [i \in 1..n |-> g[i]]
<1>5. \A i \in 1..n : h[i] = g[i]
  OBVIOUS
<1> HIDE DEF h
<1>6. \A i \in 1..n : h[i] = Step(h, i)
  BY <1>1, <1>4, <1>5
<1>7. Solves(h)
  <2>1. h = [i \in 1..n |-> h[i]]
    BY DEF h
  <2>2. QED
    BY <1>6, <2>1
<1> DEFINE amounts == getAmountsIn(amountOut, path)
<1>8. amounts = CHOOSE g_1 : Solves(g_1)
  BY DEF getAmountsIn, Step, StepIn
<1> HIDE DEF amounts
<1>9. Solves(amounts)
  BY <1>7, <1>8
<1>10. \A i \in 1..n : amounts[i] = Step(amounts, i)
  BY <1>9
<1>11. QED
  BY <1>10 DEF amounts, Step

LEMMA HopsUnfold ==
  ASSUME NEW path, Len(path) \in Nat, NEW amounts
  PROVE  \E after : /\ \A i \in 1..Len(path) : after[i] = StepHop(after, path, amounts, i)
                   /\ AfterHops(path, amounts) = after[Len(path)]
<1> DEFINE n == Len(path)
           Step(g, i) == StepHop(g, path, amounts, i)
           Solves(g) == g = [i \in 1..n |-> Step(g, i)]
           UpTo(g, k) == \A i \in 1..k : g[i] = Step(g, i)
           Good == {k \in Nat : \E g : UpTo(g, k)}
<1>1. ASSUME NEW g, NEW h, NEW i \in Nat, i > 0, i > 1 => h[i - 1] = g[i - 1]
      PROVE  Step(h, i) = Step(g, i)
  BY <1>1 DEF StepHop
<1> HIDE DEF Step
<1>2. 0 \in Good
  OBVIOUS
<1>3. ASSUME NEW k \in Good PROVE k + 1 \in Good
  <2>1. k \in Nat /\ k + 1 \in Nat /\ \E g : UpTo(g, k)
    OBVIOUS
  <2>2. PICK g : UpTo(g, k)
    BY <2>1
  <2> DEFINE h == [i \in 1..(k + 1) |-> IF i = k + 1 THEN Step(g, i) ELSE g[i]]
  <2>3. \A i \in 1..(k + 1) : h[i] = IF i = k + 1 THEN Step(g, i) ELSE g[i]
    OBVIOUS
  <2>4. \A i \in 1..k : h[i] = g[i]
    BY <2>1, <2>3
  <2> HIDE DEF h
  <2>5. ASSUME NEW i \in 1..(k + 1) PROVE h[i] = Step(h, i)
    <3>1. Step(h, i) = Step(g, i)
      BY <1>1, <2>1, <2>4
    <3>2. h[i] = Step(g, i)
      BY <2>1, <2>2, <2>3, <2>4
    <3>3. QED
      BY <3>1, <3>2
  <2>6. QED
    BY <2>1, <2>5
<1>4. PICK g : UpTo(g, n)
  <2> HIDE DEF Good
  <2>1. Good \in SUBSET Nat
    BY DEF Good
  <2>2. Good = Nat
    BY <1>2, <1>3, <2>1, NumberInduction
  <2>3. QED
    BY <2>2 DEF Good
<1> DEFINE h == [i \in 1..n |-> g[i]]
<1>5. \A i \in 1..n : h[i] = g[i]
  OBVIOUS
<1> HIDE DEF h
<1>6. \A i \in 1..n : h[i] = Step(h, i)
  BY <1>1, <1>4, <1>5
<1>7. Solves(h)
  <2>1. h = [i \in 1..n |-> h[i]]
    BY DEF h
  <2>2. QED
    BY <1>6, <2>1
<1> DEFINE after == CHOOSE g_1 : Solves(g_1)
<1>8. AfterHops(path, amounts) = after[n]
  BY DEF AfterHops, Step, StepHop
<1> HIDE DEF after
<1>9. Solves(after)
  BY <1>7 DEF after
<1>10. \A i \in 1..n : after[i] = Step(after, i)
  BY <1>9
<1>11. QED
  BY <1>8, <1>10 DEF Step

\* No product of two amounts and a fee reaches 2^Bits while no token has a larger
\* supply than MaxSupply: with 256 bits and fees in thousandths, 2^122.
NoOverflow == 2 * (MaxSupply * MaxSupply) * FeeDenominator + 1 < Word

LEMMA SquareAndFee ==
  ASSUME NEW m \in Nat, NEW d \in Nat \ {0}, NEW w \in Nat, 2 * (m * m) * d + 1 < w
  PROVE  /\ m * m \in Nat /\ 2 * m < w /\ m < w /\ m * m < w /\ m + m * m < w
         /\ 2 * (m * d) < w /\ (m * m) * d + 1 < w
<1>1. m * m \in Nat /\ m <= m * m
  OBVIOUS
<1> DEFINE q == m * m
<1>2. q \in Nat /\ m <= q /\ 2 * q * d + 1 < w
  BY <1>1
<1> HIDE DEF q
<1>3. 1 * q <= d * q
  BY <1>2, TwoFactors
<1>4. m * d <= q * d
  BY <1>2, TwoFactors
<1> DEFINE e == q * d
           f == m * d
<1>5. e \in Nat /\ f \in Nat /\ q <= e /\ f <= e /\ 2 * q * d = 2 * e
  BY <1>2, <1>3, <1>4
<1> HIDE DEF e, f
<1>6. 2 * m < w /\ m < w /\ q < w /\ m + q < w /\ 2 * f < w /\ e + 1 < w
  BY <1>2, <1>5
<1>7. QED
  BY <1>1, <1>6 DEF q, e, f

LEMMA Bounds ==
  ASSUME NoOverflow
  PROVE  /\ MaxSupply \in Nat /\ FeeNumerator \in Nat \ {0} /\ FeeDenominator \in Nat \ {0}
         /\ FeeNumerator <= FeeDenominator /\ Word \in Nat \ {0}
         /\ MaxSupply * MaxSupply \in Nat /\ MaxSupply * MaxSupply < Word
         /\ 2 * MaxSupply < Word /\ MaxSupply < Word /\ MaxSupply + MaxSupply * MaxSupply < Word
         /\ 2 * (MaxSupply * FeeDenominator) < Word
         /\ (MaxSupply * MaxSupply) * FeeDenominator + 1 < Word
<1>1. /\ MaxSupply \in Nat /\ FeeNumerator \in Nat \ {0} /\ FeeDenominator \in Nat \ {0}
      /\ FeeNumerator <= FeeDenominator /\ Word \in Nat \ {0}
  BY SwapAssumption, WordIsAnInteger
<1>2. QED
  BY <1>1, SquareAndFee DEF NoOverflow

\* Two amounts that exist multiply to one that fits.
LEMMA ProductFits ==
  ASSUME NoOverflow, NEW a \in Nat, NEW b \in Nat, a <= MaxSupply, b <= MaxSupply
  PROVE  a * b \in Nat /\ a * b <= MaxSupply * MaxSupply /\ a * b < Word /\ U(a * b) = a * b
<1>1. a * b \in Nat
  OBVIOUS
<1>2. MaxSupply \in Nat /\ MaxSupply * MaxSupply \in Nat /\ MaxSupply * MaxSupply < Word /\ Word \in Nat
  BY Bounds
<1>3. a * b <= MaxSupply * MaxSupply
  BY <1>2, TwoFactors
<1>4. a * b < Word
  BY <1>1, <1>2, <1>3
<1>5. QED
  BY <1>1, <1>3, <1>4, Fits

\* getAmountOut, with no more than exists.
LEMMA Sells ==
  ASSUME NoOverflow, NEW amountIn \in Nat, NEW reserveIn \in Nat, NEW reserveOut \in Nat,
         amountIn <= MaxSupply, reserveIn <= MaxSupply, reserveOut <= MaxSupply,
         getAmountOut(amountIn, reserveIn, reserveOut) # Throws
  PROVE  LET amountOut == getAmountOut(amountIn, reserveIn, reserveOut)
         IN /\ amountOut \in Nat /\ amountOut < reserveOut
            /\ (reserveIn + amountIn) * (reserveOut - amountOut) >= reserveIn * reserveOut
<1>1. amountIn \in Nat \ {0} /\ reserveIn \in Nat \ {0} /\ reserveOut \in Nat \ {0}
  BY DEF getAmountOut
<1>2. MaxSupply \in Nat /\ FeeNumerator \in Nat /\ FeeDenominator \in Nat /\ Word \in Nat
  BY Bounds
<1> DEFINE f == amountIn * FeeNumerator
           e == MaxSupply * FeeDenominator
<1>3. f <= e /\ reserveIn * FeeDenominator <= e
  BY <1>2, Bounds, TwoFactors
<1>4. f \in Nat /\ e \in Nat /\ reserveIn * FeeDenominator \in Nat
  BY <1>2
<1>5. f * reserveOut <= e * MaxSupply
  <2> HIDE DEF e, f
  <2>1. QED
    BY <1>2, <1>3, <1>4, TwoFactors
<1>6. e * MaxSupply = (MaxSupply * MaxSupply) * FeeDenominator
  BY <1>2
<1>7. f < Word /\ reserveIn * FeeDenominator + f < Word
  BY <1>2, <1>3, <1>4, Bounds
<1>8. f * reserveOut < Word
  <2> DEFINE g == f * reserveOut
             h == e * MaxSupply
  <2>1. g \in Nat /\ h \in Nat
    BY <1>2, <1>4
  <2>2. g <= h /\ h + 1 < Word
    BY <1>5, <1>6, Bounds
  <2> HIDE DEF g, h
  <2>3. g < Word
    BY <1>2, <2>1, <2>2
  <2>4. QED
    BY <2>3 DEF g
<1>9. QED
  BY <1>1, <1>7, <1>8, SellingFavoursThePool

\* getAmountIn, for any amount.
LEMMA Buys ==
  ASSUME NoOverflow, NEW amountOut \in Nat, NEW reserveIn \in Nat, NEW reserveOut \in Nat,
         reserveIn <= MaxSupply, reserveOut <= MaxSupply,
         getAmountIn(amountOut, reserveIn, reserveOut) # Throws
  PROVE  LET amountIn == getAmountIn(amountOut, reserveIn, reserveOut)
         IN /\ amountIn \in Nat /\ amountOut < reserveOut
            /\ (reserveIn + amountIn) * (reserveOut - amountOut) >= reserveIn * reserveOut
<1>1. amountOut \in Nat \ {0} /\ reserveIn \in Nat \ {0} /\ amountOut < reserveOut
  BY DEF getAmountIn
<1>2. MaxSupply \in Nat /\ FeeNumerator \in Nat /\ FeeDenominator \in Nat /\ Word \in Nat
  BY Bounds
<1> DEFINE n == reserveIn * amountOut
           q == MaxSupply * MaxSupply
<1>3. n \in Nat /\ n <= q /\ n < Word
  <2>1. amountOut <= MaxSupply
    BY <1>1, <1>2
  <2>2. QED
    BY <2>1, ProductFits
<1>4. q \in Nat
  BY <1>2
<1>5. n * FeeDenominator <= q * FeeDenominator
  <2> HIDE DEF n, q
  <2>1. QED
    BY <1>2, <1>3, <1>4, TwoFactors
<1>6. n * FeeDenominator + 1 < Word /\ n * FeeDenominator < Word
  <2> DEFINE g == n * FeeDenominator
             h == q * FeeDenominator
  <2>1. g \in Nat /\ h \in Nat
    BY <1>2, <1>3, <1>4
  <2>2. g <= h /\ h + 1 < Word
    BY <1>5, Bounds
  <2> HIDE DEF g, h
  <2>3. g + 1 < Word /\ g < Word
    BY <1>2, <2>1, <2>2
  <2>4. QED
    BY <2>3 DEF g
<1>7. (reserveOut - amountOut) * FeeNumerator < Word
  <2> DEFINE g == (reserveOut - amountOut) * FeeNumerator
             h == MaxSupply * FeeDenominator
  <2>1. g <= h
    BY <1>1, <1>2, Bounds, TwoFactors
  <2>2. g \in Nat /\ h \in Nat /\ 2 * h < Word
    BY <1>1, <1>2, Bounds
  <2> HIDE DEF g, h
  <2>3. g < Word
    BY <1>2, <2>1, <2>2
  <2>4. QED
    BY <2>3 DEF g
<1> DEFINE amountIn == getAmountIn(amountOut, reserveIn, reserveOut)
<1>8. amountIn \in Nat \ {0} /\ (reserveIn + amountIn) * (reserveOut - amountOut) > reserveIn * reserveOut
  BY <1>1, <1>3, <1>6, <1>7, BuyingFavoursThePool
<1> HIDE DEF amountIn
<1>9. (reserveIn + amountIn) * (reserveOut - amountOut) \in Int /\ reserveIn * reserveOut \in Int
  BY <1>8
<1>10. (reserveIn + amountIn) * (reserveOut - amountOut) >= reserveIn * reserveOut
  BY <1>8, <1>9
<1>11. QED
  BY <1>1, <1>8, <1>10 DEF amountIn
-----------------------------------------------------------------------------
\* What holds of the reserves before a swap.
Solvent ==
  /\ pairs \subseteq Pair
  /\ reserve \in [Pair -> UNION {[q -> Nat] : q \in Pair}]
  /\ \A p \in Pair : reserve[p] \in [p -> Nat] /\ \A t \in p : reserve[p][t] <= MaxSupply

\* Every hop of a swap leaves the product of its pool at least what it was.
Fair(path, amounts) ==
  \A i \in 1..Len(path) - 1 :
    LET r == reserve[HopPair(path, i)]
        x == r[path[i]]
        y == r[path[i + 1]]
    IN /\ amounts[i] \in 0..MaxSupply
       /\ amounts[i + 1] \in Nat /\ amounts[i + 1] < y
       /\ (x + amounts[i]) * (y - amounts[i + 1]) >= x * y

LEMMA PathOfPairs ==
  ASSUME Solvent, NEW path \in Seq(Token), ~PathThrows(path)
  PROVE  /\ Len(path) \in Nat /\ Len(path) >= 2
         /\ \A i \in 1..Len(path) - 1 :
              LET p == HopPair(path, i)
              IN /\ i + 1 \in 1..Len(path) /\ p \in Pair
                 /\ path[i] \in p /\ path[i + 1] \in p /\ path[i] # path[i + 1]
                 /\ p = {path[i], path[i + 1]}
                 /\ reserve[p][path[i]] \in Nat /\ reserve[p][path[i + 1]] \in Nat
                 /\ reserve[p][path[i]] <= MaxSupply /\ reserve[p][path[i + 1]] <= MaxSupply
<1>1. Len(path) \in Nat /\ Len(path) >= 2
  BY DEF PathThrows
<1>2. ASSUME NEW i \in 1..Len(path) - 1
      PROVE  LET p == HopPair(path, i)
              IN /\ i + 1 \in 1..Len(path) /\ p \in Pair
                 /\ path[i] \in p /\ path[i + 1] \in p /\ path[i] # path[i + 1]
                 /\ p = {path[i], path[i + 1]}
  <2>1. HopPair(path, i) \in pairs
    BY <1>2 DEF PathThrows
  <2>2. HopPair(path, i) \in Pair
    BY <2>1 DEF Solvent
  <2>3. PICK s, t \in HopPair(path, i) : s # t
    BY <2>2, PairEnds
  <2>4. path[i] # path[i + 1]
    BY <2>3 DEF HopPair
  <2>5. i + 1 \in 1..Len(path)
    BY <1>1
  <2>6. QED
    BY <2>2, <2>4, <2>5 DEF HopPair
<1>3. QED
  BY <1>1, <1>2 DEF Solvent

\* Selling no more than exists: every amount can be paid out.
LEMMA OutIsFair ==
  ASSUME NoOverflow, Solvent, NEW path \in Seq(Token), ~PathThrows(path),
         NEW amountIn \in Nat, amountIn <= MaxSupply,
         \A i \in 1..Len(path) : getAmountsOut(amountIn, path)[i] # Throws
  PROVE  Fair(path, getAmountsOut(amountIn, path))
<1> DEFINE amounts == getAmountsOut(amountIn, path)
           n == Len(path)
           x(i) == reserve[HopPair(path, i)][path[i]]
           y(i) == reserve[HopPair(path, i)][path[i + 1]]
<1>1. n \in Nat /\ n >= 2 /\ MaxSupply \in Nat
  BY PathOfPairs, Bounds
<1>2. ASSUME NEW i \in 1..n - 1
      PROVE  x(i) \in Nat /\ y(i) \in Nat /\ x(i) <= MaxSupply /\ y(i) <= MaxSupply
  BY PathOfPairs
<1>3. \A i \in 1..n : amounts[i] # Throws
  OBVIOUS
<1>4. amounts[1] = amountIn /\ \A i \in 1..n - 1 : amounts[i + 1] = getAmountOut(amounts[i], x(i), y(i))
  <2>1. \A i \in 1..n : amounts[i] = StepOut(amounts, amountIn, path, i)
    BY <1>1, OutUnfolds
  <2> HIDE DEF amounts
  <2>2. amounts[1] = amountIn
    BY <1>1, <2>1 DEF StepOut
  <2>3. ASSUME NEW i \in 1..n - 1 PROVE amounts[i + 1] = getAmountOut(amounts[i], x(i), y(i))
    <3>1. i + 1 \in 1..n /\ i + 1 # 1 /\ (i + 1) - 1 = i
      BY <1>1
    <3>2. amounts[i + 1] = StepOut(amounts, amountIn, path, i + 1)
      BY <2>1, <3>1
    <3>3. QED
      BY <3>1, <3>2 DEF StepOut
  <2>4. QED
    BY <2>2, <2>3
<1> HIDE DEF amounts, x, y
<1>5. ASSUME NEW i \in 1..n - 1, amounts[i] \in 0..MaxSupply
      PROVE  /\ amounts[i + 1] \in Nat /\ amounts[i + 1] < y(i)
             /\ (x(i) + amounts[i]) * (y(i) - amounts[i + 1]) >= x(i) * y(i)
  <2>1. amounts[i + 1] = getAmountOut(amounts[i], x(i), y(i)) /\ amounts[i + 1] # Throws
    BY <1>1, <1>3, <1>4
  <2>2. amounts[i] \in Nat /\ amounts[i] <= MaxSupply
    BY <1>1, <1>5
  <2>3. QED
    BY <1>2, <2>1, <2>2, Sells
<1> DEFINE Good == {k \in Nat : k < n => amounts[k + 1] \in 0..MaxSupply}
<1>6. 0 \in Good
  BY <1>1, <1>4
<1>7. ASSUME NEW k \in Good PROVE k + 1 \in Good
  <2>1. CASE k + 1 < n
    <3>1. k + 1 \in 1..n - 1 /\ amounts[k + 1] \in 0..MaxSupply
      BY <1>1, <2>1
    <3>2. amounts[(k + 1) + 1] \in Nat /\ amounts[(k + 1) + 1] < y(k + 1)
      BY <1>5, <3>1
    <3>3. QED
      BY <1>1, <1>2, <3>1, <3>2
  <2>2. QED
    BY <1>1, <2>1
<1>8. \A i \in 1..n : amounts[i] \in 0..MaxSupply
  <2> HIDE DEF Good
  <2>1. Good \in SUBSET Nat
    BY DEF Good
  <2>2. Good = Nat
    BY <1>6, <1>7, <2>1, NumberInduction
  <2>3. ASSUME NEW i \in 1..n PROVE amounts[i] \in 0..MaxSupply
    <3>1. i - 1 \in Nat /\ i - 1 < n /\ (i - 1) + 1 = i
      BY <1>1
    <3>2. QED
      BY <2>2, <3>1 DEF Good
  <2>4. QED
    BY <2>3
<1>9. ASSUME NEW i \in 1..n - 1
      PROVE  /\ amounts[i] \in 0..MaxSupply /\ amounts[i + 1] \in Nat /\ amounts[i + 1] < y(i)
             /\ (x(i) + amounts[i]) * (y(i) - amounts[i + 1]) >= x(i) * y(i)
  BY <1>1, <1>5, <1>8
<1>10. QED
  BY <1>9 DEF Fair, amounts, x, y

\* Buying: whoever can pay gets every amount.
LEMMA InIsFair ==
  ASSUME NoOverflow, Solvent, NEW path \in Seq(Token), ~PathThrows(path),
         NEW amountOut \in Nat, NEW have \in Nat, have <= MaxSupply, ~(have < getAmountsIn(amountOut, path)[1]),
         \A i \in 1..Len(path) : getAmountsIn(amountOut, path)[i] # Throws
  PROVE  Fair(path, getAmountsIn(amountOut, path))
<1> DEFINE amounts == getAmountsIn(amountOut, path)
           n == Len(path)
           x(i) == reserve[HopPair(path, i)][path[i]]
           y(i) == reserve[HopPair(path, i)][path[i + 1]]
<1>1. n \in Nat /\ n >= 2 /\ MaxSupply \in Nat
  BY PathOfPairs, Bounds
<1>2. ASSUME NEW i \in 1..n - 1
      PROVE  x(i) \in Nat /\ y(i) \in Nat /\ x(i) <= MaxSupply /\ y(i) <= MaxSupply
  BY PathOfPairs
<1>3. (\A i \in 1..n : amounts[i] # Throws) /\ ~(have < amounts[1])
  OBVIOUS
<1>4. amounts[n] = amountOut /\ \A i \in 1..n - 1 : amounts[i] = getAmountIn(amounts[i + 1], x(i), y(i))
  <2>1. \A i \in 1..n : amounts[i] = StepIn(amounts, amountOut, path, i)
    BY <1>1, InUnfolds
  <2> HIDE DEF amounts
  <2>2. amounts[n] = amountOut
    BY <1>1, <2>1 DEF StepIn
  <2>3. ASSUME NEW i \in 1..n - 1 PROVE amounts[i] = getAmountIn(amounts[i + 1], x(i), y(i))
    <3>1. i \in 1..n /\ i # n
      BY <1>1
    <3>2. amounts[i] = StepIn(amounts, amountOut, path, i)
      BY <2>1, <3>1
    <3>3. QED
      BY <3>1, <3>2 DEF StepIn
  <2>4. QED
    BY <2>2, <2>3
<1> HIDE DEF amounts, x, y
<1>5. ASSUME NEW i \in 1..n - 1, amounts[i + 1] \in Nat
      PROVE  /\ amounts[i] \in Nat /\ amounts[i + 1] < y(i)
             /\ (x(i) + amounts[i]) * (y(i) - amounts[i + 1]) >= x(i) * y(i)
  <2>1. amounts[i] = getAmountIn(amounts[i + 1], x(i), y(i)) /\ amounts[i] # Throws
    BY <1>1, <1>3, <1>4
  <2>2. QED
    BY <1>2, <1>5, <2>1, Buys
<1> DEFINE Good == {k \in Nat : k < n => amounts[n - k] \in Nat}
<1>6. 0 \in Good
  BY <1>1, <1>4
<1>7. ASSUME NEW k \in Good PROVE k + 1 \in Good
  <2>1. CASE k + 1 < n
    <3>1. n - (k + 1) \in 1..n - 1 /\ (n - (k + 1)) + 1 = n - k /\ amounts[n - k] \in Nat
      BY <1>1, <2>1
    <3>2. amounts[n - (k + 1)] \in Nat
      BY <1>5, <3>1
    <3>3. QED
      BY <1>1, <3>2
  <2>2. QED
    BY <1>1, <2>1
<1>8. \A i \in 1..n : amounts[i] \in Nat
  <2> HIDE DEF Good
  <2>1. Good \in SUBSET Nat
    BY DEF Good
  <2>2. Good = Nat
    BY <1>6, <1>7, <2>1, NumberInduction
  <2>3. ASSUME NEW i \in 1..n PROVE amounts[i] \in Nat
    <3>1. n - i \in Nat /\ n - i < n /\ n - (n - i) = i
      BY <1>1
    <3>2. QED
      BY <2>2, <3>1 DEF Good
  <2>4. QED
    BY <2>3
<1>9. ASSUME NEW i \in 1..n - 1 PROVE i + 1 \in 1..n /\ amounts[i + 1] \in Nat /\ amounts[i + 1] < y(i)
  BY <1>1, <1>5, <1>8
<1>10. ASSUME NEW i \in 1..n - 1 PROVE amounts[i] \in 0..MaxSupply
  <2>1. CASE i = 1
    BY <1>1, <1>3, <1>8, <2>1
  <2>2. CASE i # 1
    <3>1. i - 1 \in 1..n - 1 /\ (i - 1) + 1 = i
      BY <1>1, <2>2
    <3>2. amounts[i] \in Nat /\ amounts[i] < y(i - 1)
      BY <1>9, <3>1
    <3>3. QED
      BY <1>1, <1>2, <3>1, <3>2
  <2>3. QED
    BY <2>1, <2>2
<1>11. ASSUME NEW i \in 1..n - 1
      PROVE  /\ amounts[i] \in 0..MaxSupply /\ amounts[i + 1] \in Nat /\ amounts[i + 1] < y(i)
             /\ (x(i) + amounts[i]) * (y(i) - amounts[i + 1]) >= x(i) * y(i)
  BY <1>5, <1>9, <1>10
<1>12. QED
  BY <1>11 DEF Fair, amounts, x, y

Reserves == {r \in [Pair -> UNION {[q -> Nat] : q \in Pair}] : \A p \in Pair : r[p] \in [p -> Nat]}

ProductIn(r, p) == r[p][Min(p)] * r[p][Max(p)]

\* What the hop i makes of the reserves r.
Moved(s, r, path, amounts, i) ==
  LET p == HopPair(path, i)
  IN /\ s = [reserve |-> s.reserve, throws |-> FALSE]
     /\ s.reserve \in Reserves
     /\ \A q \in Pair \ {p} : s.reserve[q] = r[q]
     /\ s.reserve[p][path[i]] = r[p][path[i]] + amounts[i]
     /\ s.reserve[p][path[i + 1]] = r[p][path[i + 1]] - amounts[i + 1]

\* One hop over a pool that no earlier one has touched.
LEMMA HopMoves ==
  ASSUME NEW r, NEW path, NEW i, NEW amounts,
         r \in Reserves /\ HopPair(path, i) \in Pair /\ path[i] # path[i + 1],
         amounts[i] \in Nat /\ amounts[i + 1] \in Nat,
         /\ r[HopPair(path, i)][path[i]] + amounts[i] < Word
         /\ amounts[i + 1] < r[HopPair(path, i)][path[i + 1]]
  PROVE  Moved(Hop([reserve |-> r, throws |-> FALSE], path, amounts, i), r, path, amounts, i)
<1> DEFINE p == HopPair(path, i)
           x == path[i]
           y == path[i + 1]
           a == amounts[i]
           b == amounts[i + 1]
           s == Hop([reserve |-> r, throws |-> FALSE], path, amounts, i)
           rp == [r[p] EXCEPT ![x] = U(@ + a), ![y] = @ - b]
           new == [r EXCEPT ![p] = rp]
<1>0. p \in Pair /\ x \in p /\ y \in p
  BY DEF HopPair
<1>1. r[p] \in [p -> Nat] /\ r \in [Pair -> UNION {[q -> Nat] : q \in Pair}]
  BY <1>0 DEF Reserves
<1>2. U(r[p][x] + a) = r[p][x] + a /\ r[p][x] + a \in Nat /\ r[p][y] - b \in Nat
  BY <1>1, <1>0, Fits
<1>3. s = [reserve |-> new, throws |-> FALSE]
  <2> DEFINE state == [reserve |-> r, throws |-> FALSE]
  <2>1. ~(state.throws \/ amounts[i + 1] >= state.reserve[p][path[i + 1]])
    BY <1>1, <1>0
  <2>2. s = [reserve |-> [r EXCEPT ![p][x] = U(@ + a), ![p][y] = @ - b], throws |-> FALSE]
    <3> HIDE DEF state
    <3>1. Hop(state, path, amounts, i)
            = [reserve |-> [state.reserve EXCEPT ![p][path[i]] = U(@ + amounts[i]),
                                                 ![p][path[i + 1]] = @ - amounts[i + 1]],
               throws |-> FALSE]
      BY <2>1, Zenon DEF Hop
    <3>2. state.reserve = r
      BY DEF state
    <3>3. QED
      BY <3>1, <3>2, Zenon DEF state
  <2>3. [r EXCEPT ![p][x] = U(@ + a), ![p][y] = @ - b] = new
    OBVIOUS
  <2>4. QED
    BY <2>2, <2>3, Zenon
<1>4. rp \in [p -> Nat] /\ rp[x] = r[p][x] + a /\ rp[y] = r[p][y] - b
  BY <1>1, <1>2, <1>0
<1> HIDE DEF rp
<1>5. new \in [Pair -> UNION {[q -> Nat] : q \in Pair}]
  BY <1>1, <1>4, <1>0
<1>6. new[p] = rp /\ \A q \in Pair \ {p} : new[q] = r[q]
  BY <1>1
<1> HIDE DEF new
<1>7. new \in Reserves
  BY <1>4, <1>5, <1>6 DEF Reserves
<1> HIDE DEF s
<1>8. s.reserve = new /\ s.throws = FALSE
  BY <1>3
<1>9. QED
  BY <1>3, <1>4, <1>6, <1>7, <1>8 DEF s, Moved

LEMMA ProductOfTwo ==
  ASSUME NEW r \in Reserves, NEW p \in Pair, NEW x \in p, NEW y \in p, x # y
  PROVE  ProductIn(r, p) = r[p][x] * r[p][y] /\ ProductIn(r, p) \in Nat
<1>1. p = {Min(p), Max(p)} /\ Min(p) \in p /\ Max(p) \in p
  BY PairEnds
<1>2. r[p] \in [p -> Nat]
  BY DEF Reserves
<1>3. \/ x = Min(p) /\ y = Max(p)
      \/ x = Max(p) /\ y = Min(p)
  BY <1>1
<1>4. r[p][Min(p)] \in Nat /\ r[p][Max(p)] \in Nat
  BY <1>1, <1>2
<1>5. r[p][Min(p)] * r[p][Max(p)] = r[p][Max(p)] * r[p][Min(p)] /\ r[p][Min(p)] * r[p][Max(p)] \in Nat
  BY <1>4
<1>6. QED
  BY <1>3, <1>5 DEF ProductIn

\* A path that comes back to a pool.
Revisits(path) == \E i, j \in 1..Len(path) - 1 : i < j /\ HopPair(path, i) = HopPair(path, j)

Came(t, path, amounts) == IF t = path[1] THEN amounts[1] ELSE 0
Due(t, path, amounts, i) == IF t = path[i] THEN amounts[i] ELSE 0

\* What has come into the pools and what the next hop has still to take over.
HopsDone(r, path, amounts, i) ==
  /\ r \in Reserves
  /\ \A j \in i..Len(path) - 1 : r[HopPair(path, j)] = reserve[HopPair(path, j)]
  /\ \A q \in Pair : (\A j \in 1..i - 1 : HopPair(path, j) # q) => r[q] = reserve[q]
  /\ \A q \in Pair : ProductIn(r, q) >= ProductIn(reserve, q)
  /\ \A t \in Token : InPools(r, t) = InPools(reserve, t) + Came(t, path, amounts) - Due(t, path, amounts, i)

LEMMA NextHop ==
  ASSUME NoOverflow, Solvent, NEW path \in Seq(Token), ~PathThrows(path), ~Revisits(path),
         NEW amounts, Fair(path, amounts), \A i \in 1..Len(path) : amounts[i] \in Nat,
         NEW r, NEW i \in 1..Len(path) - 1, HopsDone(r, path, amounts, i)
  PROVE  LET s == Hop([reserve |-> r, throws |-> FALSE], path, amounts, i)
         IN s = [reserve |-> s.reserve, throws |-> FALSE] /\ HopsDone(s.reserve, path, amounts, i + 1)
<1> DEFINE n == Len(path)
           p == HopPair(path, i)
           x == path[i]
           y == path[i + 1]
           a == amounts[i]
           b == amounts[i + 1]
           s == Hop([reserve |-> r, throws |-> FALSE], path, amounts, i)
           new == s.reserve
<1>1. n \in Nat /\ n >= 2 /\ MaxSupply \in Nat /\ 2 * MaxSupply < Word /\ Word \in Nat
  BY PathOfPairs, Bounds
<1>2. /\ i + 1 \in 1..n /\ p \in Pair /\ x \in p /\ y \in p /\ x # y /\ p = {x, y}
      /\ reserve[p][x] \in Nat /\ reserve[p][y] \in Nat /\ reserve[p][x] <= MaxSupply
  BY PathOfPairs
<1>3. r \in Reserves /\ r[p] = reserve[p] /\ reserve \in Reserves
  <2>1. i \in i..n - 1
    BY <1>1
  <2>2. QED
    BY <2>1 DEF HopsDone, Solvent, Reserves
<1>4. /\ a \in 0..MaxSupply /\ b \in Nat /\ b < reserve[p][y]
      /\ (reserve[p][x] + a) * (reserve[p][y] - b) >= reserve[p][x] * reserve[p][y]
  BY DEF Fair
<1>5. a \in Nat /\ r[p][x] + a < Word /\ b < r[p][y]
  BY <1>1, <1>2, <1>3, <1>4
<1>6. /\ s = [reserve |-> new, throws |-> FALSE]
      /\ new \in Reserves
      /\ \A q \in Pair \ {p} : new[q] = r[q]
      /\ new[p][x] = r[p][x] + a
      /\ new[p][y] = r[p][y] - b
  <2>1. r \in Reserves /\ HopPair(path, i) \in Pair /\ path[i] # path[i + 1]
    BY <1>2, <1>3
  <2>2. amounts[i] \in Nat /\ amounts[i + 1] \in Nat
    BY <1>4, <1>5
  <2>3. /\ r[HopPair(path, i)][path[i]] + amounts[i] < Word
        /\ amounts[i + 1] < r[HopPair(path, i)][path[i + 1]]
    BY <1>5
  <2> HIDE DEF p, x, y, a, b
  <2>4. Moved(s, r, path, amounts, i)
    BY ONLY <2>1, <2>2, <2>3, HopMoves
  <2>5. QED
    BY <2>4 DEF Moved, p, x, y, a, b
<1> HIDE DEF p, x, y, a, b
<1> HIDE DEF s, new
<1>7. ASSUME NEW j \in (i + 1)..n - 1
      PROVE  new[HopPair(path, j)] = reserve[HopPair(path, j)]
  <2>1. j \in 1..n - 1 /\ i < j /\ j \in i..n - 1
    BY <1>1
  <2>2. HopPair(path, j) # p
    BY <2>1 DEF Revisits, p
  <2>3. HopPair(path, j) \in Pair
    BY <2>1, PathOfPairs
  <2>4. r[HopPair(path, j)] = reserve[HopPair(path, j)]
    BY <2>1 DEF HopsDone
  <2>5. QED
    BY <1>6, <2>2, <2>3, <2>4
<1>8. ASSUME NEW q \in Pair PROVE ProductIn(new, q) >= ProductIn(reserve, q)
  <2>1. CASE q # p
    <3>1. ProductIn(new, q) = ProductIn(r, q)
      BY <1>6, <2>1 DEF ProductIn
    <3>2. QED
      BY <3>1 DEF HopsDone
  <2>2. CASE q = p
    <3>1. ProductIn(new, p) = new[p][x] * new[p][y] /\ ProductIn(reserve, p) = reserve[p][x] * reserve[p][y]
      BY <1>2, <1>3, <1>6, ProductOfTwo
    <3>2. new[p][x] = reserve[p][x] + a /\ new[p][y] = reserve[p][y] - b
      BY <1>3, <1>6
    <3>3. QED
      BY <1>4, <2>2, <3>1, <3>2
  <2>3. QED
    BY <2>1, <2>2
<1>9. ASSUME NEW t \in Token
      PROVE  InPools(new, t) = InPools(reserve, t) + Came(t, path, amounts) - Due(t, path, amounts, i + 1)
  <2>1. InPools(r, t) = InPools(reserve, t) + Came(t, path, amounts) - Due(t, path, amounts, i)
    BY DEF HopsDone
  <2>2. InPools(new, t) = InPools(r, t) + (IF t \in p THEN new[p][t] - r[p][t] ELSE 0)
    <3>1. \A q \in Pair : t \in q => r[q][t] \in Int /\ new[q][t] \in Int
      BY <1>3, <1>6 DEF Reserves
    <3>2. \A q \in Pair \ {p} : new[q] = r[q]
      BY <1>6
    <3>3. p \in Pair
      BY <1>2
    <3>4. QED
      BY ONLY <3>1, <3>2, <3>3, PoolChanges
  <2>3. InPools(reserve, t) \in Int
    <3>1. \A q \in Pair : t \in q => reserve[q][t] \in Nat
      BY <1>3 DEF Reserves
    <3>2. QED
      BY <3>1, PoolSums
  <2>4. r[p][x] \in Nat /\ r[p][y] \in Nat
    BY <1>2, <1>3
  <2>5. (IF t \in p THEN new[p][t] - r[p][t] ELSE 0) = (IF t = x THEN a ELSE 0) - (IF t = y THEN b ELSE 0)
    <3>1. CASE t = x
      BY <1>2, <1>5, <1>6, <2>4, <3>1
    <3>2. CASE t = y
      BY <1>2, <1>4, <1>6, <2>4, <3>2
    <3>3. CASE t # x /\ t # y
      BY <1>2, <3>3
    <3>4. QED
      BY <3>1, <3>2, <3>3
  <2>6. Due(t, path, amounts, i) = (IF t = x THEN a ELSE 0) /\ Due(t, path, amounts, i + 1) = (IF t = y THEN b ELSE 0)
    BY DEF Due, x, y, a, b
  <2>7. Came(t, path, amounts) \in Int
    <3>1. amounts[1] \in Nat
      BY <1>1
    <3>2. QED
      BY <3>1 DEF Came
  <2>8. QED
    BY <1>4, <1>5, <2>1, <2>2, <2>3, <2>5, <2>6, <2>7
<1>10. ASSUME NEW q \in Pair, \A j \in 1..(i + 1) - 1 : HopPair(path, j) # q
       PROVE  new[q] = reserve[q]
  <2>1. i \in 1..(i + 1) - 1 /\ 1..i - 1 \subseteq 1..(i + 1) - 1
    OBVIOUS
  <2>2. q # p /\ \A j \in 1..i - 1 : HopPair(path, j) # q
    BY <1>10, <2>1 DEF p
  <2>3. r[q] = reserve[q]
    BY <2>2 DEF HopsDone
  <2>4. QED
    BY <1>6, <2>2, <2>3
<1>11. QED
  BY <1>6, <1>7, <1>8, <1>9, <1>10 DEF HopsDone, s, new

\* A swap that does not come back to a pool goes through, moves what came in and
\* nothing else, and leaves no pool with a smaller product.
LEMMA HopsGoThrough ==
  ASSUME NoOverflow, Solvent, NEW path \in Seq(Token), ~PathThrows(path), ~Revisits(path),
         NEW amounts, Fair(path, amounts), \A i \in 1..Len(path) : amounts[i] \in Nat
  PROVE  LET after == AfterHops(path, amounts)
         IN after.throws = FALSE /\ HopsDone(after.reserve, path, amounts, Len(path))
<1> DEFINE n == Len(path)
<1>1. n \in Nat /\ n >= 2
  BY PathOfPairs
<1>2. PICK after : /\ \A i \in 1..n : after[i] = StepHop(after, path, amounts, i)
                   /\ AfterHops(path, amounts) = after[n]
  BY <1>1, HopsUnfold
<1> DEFINE Done(i) == after[i] = [reserve |-> after[i].reserve, throws |-> FALSE] /\ HopsDone(after[i].reserve, path, amounts, i)
           Good == {k \in Nat : k < n => Done(k + 1)}
<1>3. Done(1)
  <2>1. after[1] = [reserve |-> reserve, throws |-> FALSE]
    <3>1. after[1] = StepHop(after, path, amounts, 1)
      BY <1>1, <1>2
    <3>2. QED
      BY <3>1 DEF StepHop
  <2>2. reserve \in Reserves
    BY DEF Solvent, Reserves
  <2>3. \A q \in Pair : ProductIn(reserve, q) >= ProductIn(reserve, q)
    <3>1. ASSUME NEW q \in Pair PROVE ProductIn(reserve, q) \in Nat
      <4>1. Min(q) \in q /\ Max(q) \in q /\ Min(q) # Max(q)
        BY PairEnds
      <4>2. QED
        BY <2>2, <4>1, ProductOfTwo
    <3>2. QED
      BY <3>1
  <2>4. ASSUME NEW t \in Token
        PROVE  InPools(reserve, t) = InPools(reserve, t) + Came(t, path, amounts) - Due(t, path, amounts, 1)
    <3>1. \A q \in Pair : t \in q => reserve[q][t] \in Nat
      BY <2>2 DEF Reserves
    <3>2. InPools(reserve, t) \in Nat /\ amounts[1] \in Nat
      BY <1>1, <3>1, PoolSums
    <3>3. QED
      BY <3>2 DEF Came, Due
  <2>5. HopsDone(reserve, path, amounts, 1)
    BY <2>2, <2>3, <2>4 DEF HopsDone
  <2>6. QED
    BY <2>1, <2>5
<1>4. ASSUME NEW i \in 1..n - 1, Done(i) PROVE Done(i + 1)
  <2>1. i + 1 \in 1..n /\ i + 1 # 1 /\ (i + 1) - 1 = i
    BY <1>1
  <2>2. after[i + 1] = Hop(after[i], path, amounts, i)
    BY <1>2, <2>1 DEF StepHop
  <2> DEFINE r == after[i].reserve
             s == Hop([reserve |-> r, throws |-> FALSE], path, amounts, i)
  <2>3. s = [reserve |-> s.reserve, throws |-> FALSE] /\ HopsDone(s.reserve, path, amounts, i + 1)
    <3>1. HopsDone(r, path, amounts, i)
      BY <1>4
    <3> HIDE DEF r
    <3>2. QED
      BY <3>1, NextHop
  <2>4. after[i + 1] = s
    BY <1>4, <2>2
  <2> HIDE DEF s
  <2>5. QED
    BY <2>3, <2>4
<1> HIDE DEF Done
<1>5. 0 \in Good
  BY <1>1, <1>3
<1>6. ASSUME NEW k \in Good PROVE k + 1 \in Good
  <2>1. CASE k + 1 < n
    <3>1. k + 1 \in 1..n - 1 /\ Done(k + 1)
      BY <1>1, <2>1
    <3>2. Done((k + 1) + 1)
      BY <1>4, <3>1
    <3>3. QED
      BY <3>2
  <2>2. QED
    BY <1>1, <2>1
<1>7. Done(n)
  <2> HIDE DEF Good
  <2>1. Good \in SUBSET Nat
    BY DEF Good
  <2>2. Good = Nat
    BY <1>5, <1>6, <2>1, NumberInduction
  <2>3. n - 1 \in Nat /\ n - 1 < n /\ (n - 1) + 1 = n
    BY <1>1
  <2>4. QED
    BY <2>2, <2>3 DEF Good
<1>8. after[n].throws = FALSE
  BY <1>7 DEF Done
<1>9. QED
  BY <1>2, <1>7, <1>8 DEF Done

-----------------------------------------------------------------------------
(***************************************************************************)
(* The invariant                                                           *)
(***************************************************************************)
Wide ==
  /\ balances \in [User -> [Token -> Nat]]
  /\ pairs \subseteq Pair
  /\ reserve \in Reserves
  /\ totalSupply \in [Pair -> Nat]
  /\ lpBalances \in [Pair -> [Wallet -> Nat]]
  /\ last \in [mints : BOOLEAN, revisited : SUBSET Pair, throws : BOOLEAN]

\* Every share has its owner, MinimumLiquidity of them for good; a pool without
\* shares is empty; the others hold, as a geometric mean, at least a token of each
\* kind for each share.
SharesBacked(p) ==
  /\ totalSupply[p] = SumFunctionOnSet(lpBalances[p], Wallet)
  /\ totalSupply[p] > 0 => lpBalances[p][Burn] = MinimumLiquidity
  /\ totalSupply[p] = 0 => \A t \in p : reserve[p][t] = 0
  /\ totalSupply[p] * totalSupply[p] <= ProductIn(reserve, p)

SwapInv ==
  /\ Wide
  /\ \A t \in Token : Supply(t) <= MaxSupply
  /\ \A p \in Pair : SharesBacked(p)

FirstMint(p) ==
  totalSupply[p] = 0 /\ totalSupply'[p] > 0 =>
    LET value == U(Product(p)')
    IN /\ totalSupply'[p] * totalSupply'[p] <= value
       /\ value < (totalSupply'[p] + 1) * (totalSupply'[p] + 1)

\* What the action properties say of a step that does not come back to a pool.
Orderly ==
  /\ \A p \in Pair : ValueKept(p) /\ FirstMint(p)
  /\ last'.mints \/ \A t \in Token : Supply(t)' = Supply(t)
  /\ last'.throws => UNCHANGED <<balances, pools>>

LEMMA SquaresOrder ==
  ASSUME NEW a \in Nat, NEW b \in Nat, a * a <= b * b PROVE a <= b
<1>1. SUFFICES ASSUME b < a PROVE FALSE
  OBVIOUS
<1>2. b * b <= b * a
  BY <1>1, TwoFactors
<1>3. b * a < a * a
  BY <1>1
<1>4. b * b \in Nat /\ b * a \in Nat /\ a * a \in Nat
  OBVIOUS
<1>5. QED
  BY <1>2, <1>3, <1>4

\* What exists bounds what is anywhere.
LEMMA InvBounds ==
  ASSUME NoOverflow, SwapInv
  PROVE  /\ Solvent
         /\ \A u \in User, t \in Token : balances[u][t] \in Nat /\ balances[u][t] <= MaxSupply
         /\ \A p \in Pair : \A t \in p : reserve[p][t] \in Nat /\ reserve[p][t] <= MaxSupply
<1>1. ASSUME NEW t \in Token
      PROVE  /\ InWallets(balances, t) \in Nat /\ InPools(reserve, t) \in Nat
             /\ InWallets(balances, t) <= MaxSupply /\ InPools(reserve, t) <= MaxSupply
             /\ \A u \in User : balances[u][t] \in Nat /\ balances[u][t] <= InWallets(balances, t)
             /\ \A p \in Pair : t \in p => reserve[p][t] \in Nat /\ reserve[p][t] <= InPools(reserve, t)
  <2>1. \A u \in User : balances[u][t] \in Nat
    BY DEF SwapInv, Wide
  <2>2. \A p \in Pair : t \in p => reserve[p][t] \in Nat
    BY DEF SwapInv, Wide, Reserves
  <2>3. InWallets(balances, t) + InPools(reserve, t) <= MaxSupply
    BY SupplyIsSum DEF SwapInv
  <2>4. MaxSupply \in Nat
    BY Bounds
  <2>5. InWallets(balances, t) \in Nat /\ \A u \in User : balances[u][t] <= InWallets(balances, t)
    BY <2>1, WalletSums
  <2>6. InPools(reserve, t) \in Nat /\ \A p \in Pair : t \in p => reserve[p][t] <= InPools(reserve, t)
    BY <2>2, PoolSums
  <2>7. InWallets(balances, t) <= MaxSupply /\ InPools(reserve, t) <= MaxSupply
    BY <2>3, <2>4, <2>5, <2>6
  <2>8. QED
    BY <2>1, <2>2, <2>5, <2>6, <2>7
<1>2. MaxSupply \in Nat
  BY Bounds
<1>3. \A u \in User, t \in Token : balances[u][t] \in Nat /\ balances[u][t] <= MaxSupply
  BY <1>1, <1>2
<1>4. ASSUME NEW p \in Pair, NEW t \in p PROVE reserve[p][t] \in Nat /\ reserve[p][t] <= MaxSupply
  <2>1. t \in Token
    BY DEF Pair
  <2>2. QED
    BY <1>1, <1>2, <2>1
<1>5. Solvent
  BY <1>4 DEF Solvent, SwapInv, Wide, Reserves
<1>6. QED
  BY <1>3, <1>4, <1>5

LEMMA ShareBounds ==
  ASSUME NoOverflow, SwapInv, NEW p \in Pair
  PROVE  /\ totalSupply[p] \in Nat /\ totalSupply[p] <= MaxSupply
         /\ ProductIn(reserve, p) = Product(p) /\ Product(p) \in Nat /\ Product(p) <= MaxSupply * MaxSupply
         /\ \A w \in Wallet : lpBalances[p][w] \in Nat /\ lpBalances[p][w] <= totalSupply[p]
         /\ totalSupply[p] > 0 => \A t \in p : reserve[p][t] \in Nat \ {0}
         /\ totalSupply[p] > 0 => \A u \in User : lpBalances[p][u] < totalSupply[p]
<1> DEFINE s == totalSupply[p]
           t0 == Min(p)
           t1 == Max(p)
<1>1. s \in Nat /\ \A w \in Wallet : lpBalances[p][w] \in Nat
  BY DEF SwapInv, Wide
<1>2. t0 \in p /\ t1 \in p /\ p = {t0, t1} /\ t0 # t1
  BY PairEnds
<1>3. /\ reserve[p][t0] \in Nat /\ reserve[p][t0] <= MaxSupply
      /\ reserve[p][t1] \in Nat /\ reserve[p][t1] <= MaxSupply
  BY <1>2, InvBounds
<1>4. ProductIn(reserve, p) = Product(p)
  BY DEF ProductIn, Product
<1>5. Product(p) \in Nat /\ Product(p) <= MaxSupply * MaxSupply
  BY <1>3, ProductFits DEF Product
<1>6. s * s <= Product(p) /\ s * s \in Nat
  BY <1>1, <1>4 DEF SwapInv, SharesBacked
<1>7. s <= MaxSupply
  <2>1. s * s <= MaxSupply * MaxSupply /\ MaxSupply \in Nat
    BY <1>5, <1>6, Bounds
  <2>2. QED
    BY <1>1, <2>1, SquaresOrder
<1>8. \A w \in Wallet : lpBalances[p][w] <= s
  <2> DEFINE f == lpBalances[p]
  <2>1. (\A w \in Wallet : f[w] \in Nat) /\ IsFiniteSet(Wallet) /\ s = SumFunctionOnSet(f, Wallet)
    BY <1>1, FinitelyMany DEF SwapInv, SharesBacked
  <2> HIDE DEF f, s
  <2>2. \A w \in Wallet : f[w] <= SumFunctionOnSet(f, Wallet)
    BY <2>1, SumBounds
  <2>3. QED
    BY <2>1, <2>2 DEF f
<1>9. ASSUME s > 0, NEW t \in p PROVE reserve[p][t] \in Nat \ {0}
  <2>1. s * s > 0
    BY <1>1, <1>9
  <2>2. Product(p) > 0
    BY <1>5, <1>6, <2>1
  <2>3. reserve[p][t0] # 0 /\ reserve[p][t1] # 0
    BY <1>3, <2>2 DEF Product
  <2>4. QED
    BY <1>2, <1>3, <2>3
<1>10. ASSUME s > 0, NEW u \in User PROVE lpBalances[p][u] < s
  <2> DEFINE f == lpBalances[p]
             rest == Wallet \ {Burn}
  <2>1. (\A w \in Wallet : f[w] \in Nat) /\ IsFiniteSet(Wallet) /\ s = SumFunctionOnSet(f, Wallet)
    BY <1>1, FinitelyMany DEF SwapInv, SharesBacked
  <2>2. f[Burn] = MinimumLiquidity /\ MinimumLiquidity \in Nat \ {0}
    BY <1>10, SwapAssumption DEF SwapInv, SharesBacked
  <2>3. Burn \in Wallet /\ u \in rest
    BY SwapAssumption DEF Wallet
  <2>4. IsFiniteSet(rest) /\ \A w \in rest : f[w] \in Nat
    BY <2>1, FS_RemoveElement
  <2> HIDE DEF f, s
  <2>5. SumFunctionOnSet(f, Wallet) = f[Burn] + SumFunctionOnSet(f, rest)
    BY <2>1, <2>3, SumTakesOut
  <2> HIDE DEF rest
  <2>6. f[u] <= SumFunctionOnSet(f, rest) /\ SumFunctionOnSet(f, rest) \in Int
    <3>1. f[u] <= SumFunctionOnSet(f, rest)
      BY <2>3, <2>4, SumBounds
    <3>2. SumFunctionOnSet(f, rest) \in Int
      BY <2>4, SumType
    <3>3. QED
      BY <3>1, <3>2
  <2>7. f[u] < s
    BY <2>1, <2>2, <2>3, <2>4, <2>5, <2>6
  <2>8. QED
    BY <2>7 DEF f
<1>11. QED
  BY <1>1, <1>4, <1>5, <1>7, <1>8, <1>9, <1>10

LEMMA Unmoved ==
  ASSUME NoOverflow, SwapInv, UNCHANGED <<balances, pools>>, pairs' \subseteq Pair,
         last' \in [mints : BOOLEAN, revisited : SUBSET Pair, throws : BOOLEAN]
  PROVE  SwapInv' /\ Orderly
<1>1. balances' = balances /\ reserve' = reserve /\ totalSupply' = totalSupply /\ lpBalances' = lpBalances
  BY DEF pools
<1>2. Wide'
  BY <1>1 DEF SwapInv, Wide
<1>3. \A t \in Token : Supply(t)' = Supply(t)
  BY <1>1, SupplyIsSum
<1>4. \A p \in Pair : SharesBacked(p)'
  BY <1>1 DEF SwapInv, SharesBacked, ProductIn
<1>5. ASSUME NEW p \in Pair PROVE ValueKept(p) /\ FirstMint(p)
  <2>1. Product(p)' = Product(p) /\ Product(p) \in Nat /\ totalSupply[p] \in Nat
    BY <1>1, ShareBounds DEF Product
  <2>2. Product(p) * totalSupply[p] * totalSupply[p] \in Int
    BY <2>1
  <2>3. QED
    BY <1>1, <2>1, <2>2 DEF ValueKept, FirstMint
<1>6. QED
  BY <1>1, <1>2, <1>3, <1>4, <1>5 DEF SwapInv, Orderly

LEMMA RejectedCall ==
  ASSUME NoOverflow, SwapInv, NEW path, Reject(path), pairs' \subseteq Pair
  PROVE  SwapInv' /\ Orderly
<1>1. UNCHANGED <<balances, pools>>
  BY DEF Reject
<1>2. last' \in [mints : BOOLEAN, revisited : SUBSET Pair, throws : BOOLEAN]
  BY DEF Reject, Ends, Revisited
<1>3. QED
  BY <1>1, <1>2, Unmoved

LEMMA MintedCall ==
  ASSUME NoOverflow, SwapInv, NEW u \in User, NEW t \in Token, NEW amount \in Nat, mintToken(u, t, amount)
  PROVE  SwapInv' /\ Orderly
<1>1. UNCHANGED <<pairs, pools>> /\ last' = [mints |-> TRUE, revisited |-> {}, throws |-> FALSE]
      /\ balances' = [balances EXCEPT ![u][t] = U(@ + amount)] /\ Supply(t) + amount <= MaxSupply
  BY DEF mintToken
<1>2. reserve' = reserve /\ totalSupply' = totalSupply /\ lpBalances' = lpBalances
  BY <1>1 DEF pools
<1>3. MaxSupply \in Nat /\ MaxSupply < Word /\ Word \in Nat
  BY Bounds
<1>4. ASSUME NEW s \in Token
      PROVE  /\ InPools(reserve, s) \in Nat /\ InWallets(balances, s) \in Nat
             /\ \A v \in User : balances[v][s] \in Nat /\ balances[v][s] <= InWallets(balances, s)
  <2>1. \A v \in User : balances[v][s] \in Nat
    BY DEF SwapInv, Wide
  <2>2. \A p \in Pair : s \in p => reserve[p][s] \in Nat
    BY DEF SwapInv, Wide, Reserves
  <2>3. QED
    BY <2>1, <2>2, WalletSums, PoolSums
<1>5. Supply(t) = InWallets(balances, t) + InPools(reserve, t)
  BY SupplyIsSum
<1>6. balances[u][t] + amount < Word /\ balances[u][t] + amount \in Nat
  BY <1>1, <1>3, <1>4, <1>5
<1>7. U(balances[u][t] + amount) = balances[u][t] + amount
  BY <1>6, Fits
<1>8. balances \in [User -> [Token -> Nat]]
  BY DEF SwapInv, Wide
<1>9. /\ balances' \in [User -> [Token -> Nat]]
      /\ \A v \in User, s \in Token :
           balances'[v][s] = IF v = u /\ s = t THEN balances[u][t] + amount ELSE balances[v][s]
  BY <1>1, <1>6, <1>7, <1>8
<1>10. Wide'
  BY <1>1, <1>2, <1>9 DEF SwapInv, Wide
<1>11. ASSUME NEW s \in Token
       PROVE  Supply(s)' <= MaxSupply
  <2>1. Supply(s)' = InWallets(balances', s) + InPools(reserve, s)
    BY <1>2, SupplyIsSum
  <2>2. Supply(s) = InWallets(balances, s) + InPools(reserve, s) /\ Supply(s) <= MaxSupply
    BY SupplyIsSum DEF SwapInv
  <2> DEFINE b == balances
             c == balances'
  <2>3. /\ \A v \in User : b[v][s] \in Int /\ c[v][s] \in Int
        /\ \A v \in User \ {u} : c[v][s] = b[v][s]
        /\ c[u][s] = IF s = t THEN b[u][t] + amount ELSE b[u][s]
    BY <1>8, <1>9
  <2> HIDE DEF b, c
  <2>4. InWallets(c, s) = InWallets(b, s) - b[u][s] + c[u][s]
    <3>1. \A v \in User : b[v][s] \in Int /\ c[v][s] \in Int
      BY <2>3
    <3>2. \A v \in User \ {u} : c[v][s] = b[v][s]
      BY <2>3
    <3>3. QED
      BY <3>1, <3>2, WalletChanges
  <2> USE DEF b, c
  <2>5. CASE s = t
    BY <1>1, <1>3, <1>4, <2>1, <2>2, <2>3, <2>4, <2>5
  <2>6. CASE s # t
    BY <1>1, <1>3, <1>4, <2>1, <2>2, <2>3, <2>4, <2>6
  <2>7. QED
    BY <2>5, <2>6
<1>12. \A p \in Pair : SharesBacked(p)'
  BY <1>2 DEF SwapInv, SharesBacked, ProductIn
<1>13. ASSUME NEW p \in Pair PROVE ValueKept(p) /\ FirstMint(p)
  <2>1. Product(p)' = Product(p) /\ Product(p) \in Nat /\ totalSupply[p] \in Nat
    BY <1>2, ShareBounds DEF Product
  <2>2. Product(p) * totalSupply[p] * totalSupply[p] \in Int
    BY <2>1
  <2>3. QED
    BY <1>2, <2>1, <2>2 DEF ValueKept, FirstMint
<1>14. QED
  BY <1>1, <1>10, <1>11, <1>12, <1>13 DEF SwapInv, Orderly

\* What stands behind the shares of a pool still does when its value is kept.
LEMMA KeptBacks ==
  ASSUME NEW s \in Nat \ {0}, NEW k \in Nat, NEW s2 \in Nat, NEW k2 \in Nat,
         s * s <= k, k2 * s * s >= k * s2 * s2
  PROVE  s2 * s2 <= k2
<1>1. s * s \in Nat \ {0} /\ s2 * s2 \in Nat
  OBVIOUS
<1> DEFINE q == s * s
           q2 == s2 * s2
<1>2. q \in Nat \ {0} /\ q2 \in Nat /\ q <= k /\ k2 * q >= k * q2
  <2>1. k2 * s * s = k2 * (s * s) /\ k * s2 * s2 = k * (s2 * s2)
    OBVIOUS
  <2>2. QED
    BY <1>1, <2>1
<1> HIDE DEF q, q2
<1>3. q * q2 <= k * q2
  BY <1>2, TwoFactors
<1>4. q2 * q <= k2 * q
  BY <1>2, <1>3
<1>5. q2 <= k2
  BY <1>2, <1>4, Cancel
<1>6. QED
  BY <1>5 DEF q, q2

\* A pool nobody has touched.
LEMMA OtherPools ==
  ASSUME NoOverflow, SwapInv, NEW q \in Pair,
         reserve'[q] = reserve[q], totalSupply'[q] = totalSupply[q], lpBalances'[q] = lpBalances[q]
  PROVE  SharesBacked(q)' /\ ValueKept(q) /\ FirstMint(q)
<1>1. Product(q)' = Product(q) /\ Product(q) \in Nat /\ totalSupply[q] \in Nat
  BY ShareBounds DEF Product
<1>2. Product(q) * totalSupply[q] * totalSupply[q] \in Int
  BY <1>1
<1>3. SharesBacked(q)'
  BY DEF SwapInv, SharesBacked, ProductIn
<1>4. QED
  BY <1>1, <1>2, <1>3 DEF ValueKept, FirstMint

\* A step that moves tokens between one wallet and one pool, in its two tokens.
LEMMA OnePoolSupply ==
  ASSUME SwapInv, NEW u \in User, NEW p \in Pair,
         balances' \in [User -> [Token -> Nat]], reserve' \in Reserves,
         \A v \in User \ {u} : balances'[v] = balances[v],
         \A q \in Pair \ {p} : reserve'[q] = reserve[q],
         \A t \in Token \ p : balances'[u][t] = balances[u][t],
         \A t \in p : balances'[u][t] + reserve'[p][t] = balances[u][t] + reserve[p][t]
  PROVE  \A t \in Token : Supply(t)' = Supply(t) /\ Supply(t)' <= MaxSupply
<1>1. SUFFICES ASSUME NEW t \in Token PROVE Supply(t)' = Supply(t)
  BY DEF SwapInv
<1> DEFINE b == balances
           c == balances'
           r == reserve
           s == reserve'
<1>2. b \in [User -> [Token -> Nat]] /\ c \in [User -> [Token -> Nat]] /\ r \in Reserves /\ s \in Reserves
  BY DEF SwapInv, Wide
<1>3. \A v \in User : b[v][t] \in Nat /\ c[v][t] \in Nat
  BY <1>2
<1>4. \A v \in User \ {u} : c[v][t] = b[v][t]
  OBVIOUS
<1>5. \A q \in Pair : t \in q => r[q][t] \in Nat /\ s[q][t] \in Nat
  BY <1>2 DEF Reserves
<1>6. \A q \in Pair \ {p} : s[q] = r[q]
  OBVIOUS
<1>7. t \notin p => c[u][t] = b[u][t]
  OBVIOUS
<1>8. t \in p => c[u][t] + s[p][t] = b[u][t] + r[p][t]
  OBVIOUS
<1>9. Supply(t) = InWallets(b, t) + InPools(r, t) /\ Supply(t)' = InWallets(c, t) + InPools(s, t)
  BY SupplyIsSum
<1> HIDE DEF b, c, r, s
<1>10. InWallets(c, t) = InWallets(b, t) - b[u][t] + c[u][t]
  <2>1. \A v \in User : b[v][t] \in Int /\ c[v][t] \in Int
    BY <1>3
  <2>2. u \in User
    OBVIOUS
  <2>3. QED
    BY ONLY <1>4, <2>1, <2>2, WalletChanges
<1>11. InPools(s, t) = InPools(r, t) + (IF t \in p THEN s[p][t] - r[p][t] ELSE 0)
  <2>1. \A q \in Pair : t \in q => r[q][t] \in Int /\ s[q][t] \in Int
    BY <1>5
  <2>2. p \in Pair
    OBVIOUS
  <2>3. QED
    BY ONLY <1>6, <2>1, <2>2, PoolChanges
<1>12. InWallets(b, t) \in Nat /\ InPools(r, t) \in Nat
  <2>1. \A v \in User : b[v][t] \in Nat
    BY <1>3
  <2>2. \A q \in Pair : t \in q => r[q][t] \in Nat
    BY <1>5
  <2>3. InWallets(b, t) \in Nat
    BY ONLY <2>1, WalletSums
  <2>4. InPools(r, t) \in Nat
    BY ONLY <2>2, PoolSums
  <2>5. QED
    BY <2>3, <2>4
<1>13. b[u][t] \in Int /\ c[u][t] \in Int /\ (t \in p => r[p][t] \in Int /\ s[p][t] \in Int)
  BY <1>3, <1>5
<1>14. InWallets(c, t) + InPools(s, t) = InWallets(b, t) + InPools(r, t)
  BY <1>7, <1>8, <1>10, <1>11, <1>12, <1>13
<1>15. QED
  BY <1>9, <1>14

LockedBy(p) == IF totalSupply[p] = 0 THEN MinimumLiquidity ELSE 0

LEMMA OneReserveChanges ==
  ASSUME NEW r \in Reserves, NEW p \in Pair, NEW rp \in [p -> Nat]
  PROVE  LET new == [r EXCEPT ![p] = rp]
         IN new \in Reserves /\ new[p] = rp /\ \A q \in Pair \ {p} : new[q] = r[q]
<1> DEFINE new == [r EXCEPT ![p] = rp]
<1>1. r \in [Pair -> UNION {[q -> Nat] : q \in Pair}] /\ \A q \in Pair : r[q] \in [q -> Nat]
  BY DEF Reserves
<1>2. rp \in UNION {[q -> Nat] : q \in Pair}
  OBVIOUS
<1>3. new \in [Pair -> UNION {[q -> Nat] : q \in Pair}]
  BY <1>1, <1>2
<1>4. new[p] = rp /\ \A q \in Pair \ {p} : new[q] = r[q]
  BY <1>1
<1> HIDE DEF new
<1>5. new \in Reserves
  BY <1>1, <1>3, <1>4 DEF Reserves
<1>6. QED
  BY <1>4, <1>5 DEF new

\* addLiquidity, once the depositor can pay: the books before and after.
LEMMA MovesIn ==
  ASSUME NoOverflow, SwapInv, NEW u \in User, NEW p \in Pair, NEW deposit,
         deposit.taken \in [p -> Nat], deposit.liquidity \in Nat, CanPay(u, p, deposit.taken),
         MoveIn(u, p, deposit),
         totalSupply[p] + deposit.liquidity + LockedBy(p) < Word
  PROVE  /\ balances' \in [User -> [Token -> Nat]] /\ reserve' \in Reserves
         /\ totalSupply' \in [Pair -> Nat] /\ lpBalances' \in [Pair -> [Wallet -> Nat]]
         /\ \A t \in p : reserve'[p][t] = reserve[p][t] + deposit.taken[t]
         /\ totalSupply'[p] = totalSupply[p] + deposit.liquidity + LockedBy(p)
         /\ totalSupply'[p] = SumFunctionOnSet(lpBalances'[p], Wallet)
         /\ lpBalances'[p][Burn] = lpBalances[p][Burn] + LockedBy(p)
         /\ \A q \in Pair \ {p} : /\ reserve'[q] = reserve[q] /\ totalSupply'[q] = totalSupply[q]
                                  /\ lpBalances'[q] = lpBalances[q]
         /\ \A t \in Token : Supply(t)' = Supply(t) /\ Supply(t)' <= MaxSupply
<1> DEFINE taken == deposit.taken
           liquidity == deposit.liquidity
           locked == LockedBy(p)
           s == totalSupply[p]
           lp == lpBalances[p]
<1>1. /\ balances \in [User -> [Token -> Nat]] /\ reserve \in Reserves
      /\ totalSupply \in [Pair -> Nat] /\ lpBalances \in [Pair -> [Wallet -> Nat]]
  BY DEF SwapInv, Wide
<1>2. /\ balances' = [balances EXCEPT ![u] = [t \in Token |-> IF t \in p THEN @[t] - taken[t] ELSE @[t]]]
      /\ reserve' = [reserve EXCEPT ![p] = [t \in p |-> U(@[t] + taken[t])]]
      /\ totalSupply' = [totalSupply EXCEPT ![p] = U(@ + liquidity + locked)]
      /\ lpBalances' = [lpBalances EXCEPT ![p][u] = U(@ + liquidity), ![p][Burn] = U(@ + locked)]
  BY DEF MoveIn, Mint, LockedBy
<1>3. /\ taken \in [p -> Nat] /\ liquidity \in Nat /\ p \subseteq Token /\ MinimumLiquidity \in Nat
      /\ \A t \in p : taken[t] <= balances[u][t]
  BY SwapAssumption DEF CanPay, Pair
<1>4. locked \in Nat /\ s \in Nat /\ s + liquidity + locked \in Nat /\ s + liquidity + locked < Word
  BY <1>1, <1>3 DEF LockedBy
<1>5. MaxSupply \in Nat /\ Word \in Nat /\ 2 * MaxSupply < Word
  BY Bounds
<1>6. \A t \in p : /\ balances[u][t] \in Nat /\ balances[u][t] <= MaxSupply
                   /\ reserve[p][t] \in Nat /\ reserve[p][t] <= MaxSupply
  BY <1>3, InvBounds
<1>7. \A w \in Wallet : lp[w] \in Nat /\ lp[w] <= s
  BY ShareBounds
<1>8. u \in Wallet /\ Burn \in Wallet /\ u # Burn
  BY SwapAssumption DEF Wallet
<1> HIDE DEF taken, liquidity, locked
<1>9. \A t \in p : /\ U(reserve[p][t] + taken[t]) = reserve[p][t] + taken[t]
                   /\ reserve[p][t] + taken[t] \in Nat /\ balances[u][t] - taken[t] \in Nat
  <2>1. SUFFICES ASSUME NEW t \in p
                 PROVE  /\ U(reserve[p][t] + taken[t]) = reserve[p][t] + taken[t]
                        /\ reserve[p][t] + taken[t] \in Nat /\ balances[u][t] - taken[t] \in Nat
    OBVIOUS
  <2>2. taken[t] \in Nat /\ taken[t] <= balances[u][t]
    BY <1>3
  <2>3. reserve[p][t] + taken[t] \in Nat /\ reserve[p][t] + taken[t] < Word
    BY <1>5, <1>6, <2>2
  <2>4. balances[u][t] - taken[t] \in Nat
    BY <1>6, <2>2
  <2>5. QED
    BY <2>3, <2>4, Fits
<1>10. U(s + liquidity + locked) = s + liquidity + locked
  BY <1>4, Fits
<1>11. /\ U(lp[u] + liquidity) = lp[u] + liquidity /\ U(lp[Burn] + locked) = lp[Burn] + locked
       /\ lp[u] + liquidity \in Nat /\ lp[Burn] + locked \in Nat
  <2>1. lp[u] + liquidity \in Nat /\ lp[u] + liquidity < Word /\ lp[Burn] + locked \in Nat /\ lp[Burn] + locked < Word
    BY <1>3, <1>4, <1>5, <1>7, <1>8
  <2>2. QED
    BY <2>1, Fits
<1>12. /\ reserve' = [reserve EXCEPT ![p] = [t \in p |-> reserve[p][t] + taken[t]]]
       /\ [t \in p |-> reserve[p][t] + taken[t]] \in [p -> Nat]
  <2>1. [t \in p |-> U(reserve[p][t] + taken[t])] = [t \in p |-> reserve[p][t] + taken[t]]
    BY <1>9
  <2>2. reserve' = [reserve EXCEPT ![p] = [t \in p |-> U(reserve[p][t] + taken[t])]]
    BY <1>2
  <2>3. [t \in p |-> reserve[p][t] + taken[t]] \in [p -> Nat]
    BY <1>9
  <2>4. QED
    BY <2>1, <2>2, <2>3
<1>13. /\ reserve' \in Reserves
       /\ \A t \in p : reserve'[p][t] = reserve[p][t] + taken[t]
       /\ \A q \in Pair \ {p} : reserve'[q] = reserve[q]
  <2> DEFINE rp == [t \in p |-> reserve[p][t] + taken[t]]
  <2>1. reserve' = [reserve EXCEPT ![p] = rp] /\ rp \in [p -> Nat]
    BY <1>12
  <2>2. \A t \in p : rp[t] = reserve[p][t] + taken[t]
    OBVIOUS
  <2> HIDE DEF rp
  <2>3. [reserve EXCEPT ![p] = rp] \in Reserves /\ [reserve EXCEPT ![p] = rp][p] = rp
        /\ \A q \in Pair \ {p} : [reserve EXCEPT ![p] = rp][q] = reserve[q]
    <3>1. reserve \in Reserves /\ p \in Pair /\ rp \in [p -> Nat]
      BY <1>1, <2>1
    <3>2. QED
      BY ONLY <3>1, OneReserveChanges
  <2>4. QED
    BY <2>1, <2>2, <2>3
<1>14. /\ balances' \in [User -> [Token -> Nat]]
       /\ \A v \in User \ {u} : balances'[v] = balances[v]
       /\ \A t \in Token \ p : balances'[u][t] = balances[u][t]
       /\ \A t \in p : balances'[u][t] = balances[u][t] - taken[t]
  <2> DEFINE bu == [t \in Token |-> IF t \in p THEN balances[u][t] - taken[t] ELSE balances[u][t]]
  <2>1. balances' = [balances EXCEPT ![u] = bu]
    BY <1>2
  <2>2. bu \in [Token -> Nat] /\ \A t \in Token : bu[t] = IF t \in p THEN balances[u][t] - taken[t] ELSE balances[u][t]
    BY <1>1, <1>9
  <2> HIDE DEF bu
  <2>3. balances' \in [User -> [Token -> Nat]] /\ balances'[u] = bu /\ \A v \in User \ {u} : balances'[v] = balances[v]
    BY <1>1, <2>1, <2>2
  <2>4. QED
    BY <1>3, <2>2, <2>3
<1>15. totalSupply' \in [Pair -> Nat] /\ totalSupply'[p] = s + liquidity + locked
       /\ \A q \in Pair \ {p} : totalSupply'[q] = totalSupply[q]
  BY <1>1, <1>2, <1>4, <1>10
<1>16. /\ lpBalances' \in [Pair -> [Wallet -> Nat]]
       /\ \A q \in Pair \ {p} : lpBalances'[q] = lpBalances[q]
       /\ lpBalances'[p][u] = lp[u] + liquidity /\ lpBalances'[p][Burn] = lp[Burn] + locked
       /\ \A w \in Wallet \ {u, Burn} : lpBalances'[p][w] = lp[w]
  BY <1>1, <1>2, <1>8, <1>11
<1>17. totalSupply'[p] = SumFunctionOnSet(lpBalances'[p], Wallet)
  <2> DEFINE after == lpBalances'[p]
             half == [lp EXCEPT ![u] = @ + liquidity]
  <2>1. lp \in [Wallet -> Nat] /\ after \in [Wallet -> Nat] /\ IsFiniteSet(Wallet) /\ s = SumFunctionOnSet(lp, Wallet)
    <3>1. lp \in [Wallet -> Nat]
      BY <1>1
    <3>2. after \in [Wallet -> Nat]
      BY <1>16
    <3>3. s = SumFunctionOnSet(lp, Wallet)
      BY DEF SwapInv, SharesBacked
    <3>4. QED
      BY <3>1, <3>2, <3>3, FinitelyMany
  <2>2. half[u] = lp[u] + liquidity /\ \A w \in Wallet \ {u} : half[w] = lp[w]
    BY <1>8, <2>1
  <2>3. \A w \in Wallet : lp[w] \in Int /\ half[w] \in Int
    BY <1>11, <2>1, <2>2
  <2>4. \A w \in Wallet \ {Burn} : after[w] = half[w]
    BY <1>8, <1>16, <2>2
  <2>5. \A w \in Wallet : half[w] \in Int /\ after[w] \in Int
    BY <2>1, <2>3
  <2>6. after[Burn] = half[Burn] + locked
    BY <1>8, <1>16, <2>2
  <2>7. \A w \in Wallet \ {u} : half[w] = lp[w]
    BY <2>2
  <2>8. IsFiniteSet(Wallet) /\ u \in Wallet /\ Burn \in Wallet
    BY <1>8, <2>1
  <2> HIDE DEF after, half, lp, s
  <2>9. SumFunctionOnSet(half, Wallet) = SumFunctionOnSet(lp, Wallet) - lp[u] + half[u]
    BY ONLY <2>3, <2>7, <2>8, SumChanges
  <2>10. SumFunctionOnSet(after, Wallet) = SumFunctionOnSet(half, Wallet) - half[Burn] + after[Burn]
    BY ONLY <2>4, <2>5, <2>8, SumChanges
  <2>11. lp[u] \in Int /\ half[u] \in Int /\ half[Burn] \in Int /\ after[Burn] \in Int
    BY <2>3, <2>5, <2>8
  <2>12. SumFunctionOnSet(after, Wallet) = s + liquidity + locked
    BY <1>3, <1>4, <2>1, <2>2, <2>6, <2>9, <2>10, <2>11
  <2>13. QED
    BY <1>15, <2>12 DEF after
<1>18. \A t \in Token : Supply(t)' = Supply(t) /\ Supply(t)' <= MaxSupply
  <2>1. \A t \in p : balances'[u][t] + reserve'[p][t] = balances[u][t] + reserve[p][t]
    <3>1. \A t \in p : taken[t] \in Nat
      BY <1>3
    <3>2. QED
      BY <1>6, <1>13, <1>14, <3>1
  <2>2. QED
    BY <1>13, <1>14, <2>1, OnePoolSupply
<1>19. QED
  BY <1>13, <1>14, <1>15, <1>16, <1>17, <1>18 DEF taken, liquidity, locked

\* The amounts of a further deposit are natural numbers.
LEMMA TakenType ==
  ASSUME NEW p \in Pair, NEW desired \in [p -> Nat], reserve[p] \in [p -> Nat \ {0}]
  PROVE  FurtherDeposit(desired, p).taken \in [p -> Nat]
<1> DEFINE t0 == Min(p)  t1 == Max(p)
           optimal1 == quote(desired[t0], reserve[p][t0], reserve[p][t1])
           optimal0 == quote(desired[t1], reserve[p][t1], reserve[p][t0])
<1>1. t0 \in p /\ t1 \in p
  BY PairEnds
<1>2. ASSUME NEW a \in Nat, NEW b \in Nat, NEW c \in Nat \ {0} PROVE quote(a, c, b) \in Nat
  <2> DEFINE n == U(a * b)
  <2>1. a * b \in Nat /\ Word \in Nat \ {0}
    BY WordIsAnInteger
  <2>2. n \in Nat
    BY <2>1 DEF U
  <2> HIDE DEF n
  <2>3. n \div c \in Nat
    BY <2>2, Quotient
  <2>4. QED
    BY <2>3 DEF quote, n
<1>3. optimal0 \in Nat /\ optimal1 \in Nat
  <2>1. desired[t0] \in Nat /\ desired[t1] \in Nat /\ reserve[p][t0] \in Nat \ {0} /\ reserve[p][t1] \in Nat \ {0}
    BY <1>1
  <2>2. QED
    BY <1>2, <2>1
<1> HIDE DEF optimal0, optimal1, t0, t1
<1>4. FurtherDeposit(desired, p).taken
        = [desired EXCEPT ![IF optimal1 <= desired[t1] THEN t1 ELSE t0] =
             IF (IF optimal1 <= desired[t1] THEN t1 ELSE t0) = t1 THEN optimal1 ELSE optimal0]
  BY DEF FurtherDeposit, optimal0, optimal1, t0, t1
<1>5. QED
  BY <1>3, <1>4

\* The first deposit: its shares are the root of what it brings.
LEMMA FirstDeposited ==
  ASSUME NoOverflow, SwapInv, NEW u \in User, NEW p \in Pair, NEW desired \in [p -> Nat],
         totalSupply[p] = 0, FirstDeposit(desired, p).liquidity > 0,
         CanPay(u, p, FirstDeposit(desired, p).taken),
         MoveIn(u, p, FirstDeposit(desired, p)), pairs' \subseteq Pair, Ends(<<>>, FALSE)
  PROVE  SwapInv' /\ Orderly
<1> DEFINE deposit == FirstDeposit(desired, p)
           d0 == desired[Min(p)]
           d1 == desired[Max(p)]
           value == d0 * d1
           root == Root(value)
<1>1. Min(p) \in p /\ Max(p) \in p /\ p \subseteq Token
  BY PairEnds DEF Pair
<1>2. deposit.taken = desired
  BY DEF FirstDeposit
<1>3. d0 \in Nat /\ d1 \in Nat /\ d0 <= MaxSupply /\ d1 <= MaxSupply
  <2>1. d0 \in Nat /\ d1 \in Nat
    BY <1>1
  <2>2. d0 <= balances[u][Min(p)] /\ d1 <= balances[u][Max(p)]
    BY <1>1, <1>2 DEF CanPay
  <2>3. /\ balances[u][Min(p)] \in Nat /\ balances[u][Min(p)] <= MaxSupply
        /\ balances[u][Max(p)] \in Nat /\ balances[u][Max(p)] <= MaxSupply
    BY <1>1, InvBounds
  <2>4. MaxSupply \in Nat
    BY Bounds
  <2>5. QED
    BY <2>1, <2>2, <2>3, <2>4
<1>4. value \in Nat /\ value < Word /\ U(value) = value /\ value <= MaxSupply * MaxSupply
  BY <1>3, ProductFits
<1>5. root \in Nat /\ root * root <= value /\ value < (root + 1) * (root + 1)
  <2> HIDE DEF value
  <2>1. QED
    BY <1>4, RootIsTheRoot
<1>6. deposit.liquidity = IF root <= MinimumLiquidity THEN 0 ELSE root - MinimumLiquidity
  BY <1>4 DEF FirstDeposit
<1> HIDE DEF deposit, root, value, d0, d1
<1>7. MinimumLiquidity \in Nat \ {0} /\ Word \in Nat
  BY SwapAssumption, WordIsAnInteger
<1>8. root > MinimumLiquidity /\ deposit.liquidity = root - MinimumLiquidity /\ deposit.liquidity \in Nat
  <2>1. deposit.liquidity > 0
    BY DEF deposit
  <2>2. QED
    BY <1>5, <1>6, <1>7, <2>1
<1>9. root < Word
  <2>1. root <= root * root /\ root * root \in Nat
    BY <1>5
  <2>2. QED
    BY <1>4, <1>5, <1>7, <2>1
<1>10. LockedBy(p) = MinimumLiquidity /\ totalSupply[p] + deposit.liquidity + LockedBy(p) = root
  BY <1>5, <1>7, <1>8 DEF LockedBy
<1>11. /\ balances' \in [User -> [Token -> Nat]] /\ reserve' \in Reserves
       /\ totalSupply' \in [Pair -> Nat] /\ lpBalances' \in [Pair -> [Wallet -> Nat]]
       /\ \A t \in p : reserve'[p][t] = reserve[p][t] + deposit.taken[t]
       /\ totalSupply'[p] = totalSupply[p] + deposit.liquidity + LockedBy(p)
       /\ totalSupply'[p] = SumFunctionOnSet(lpBalances'[p], Wallet)
       /\ lpBalances'[p][Burn] = lpBalances[p][Burn] + LockedBy(p)
       /\ \A q \in Pair \ {p} : /\ reserve'[q] = reserve[q] /\ totalSupply'[q] = totalSupply[q]
                                /\ lpBalances'[q] = lpBalances[q]
       /\ \A t \in Token : Supply(t)' = Supply(t) /\ Supply(t)' <= MaxSupply
  <2>1. CanPay(u, p, deposit.taken) /\ MoveIn(u, p, deposit)
    BY DEF deposit
  <2>2. deposit.taken \in [p -> Nat] /\ totalSupply[p] + deposit.liquidity + LockedBy(p) < Word
    BY <1>2, <1>9, <1>10
  <2>3. QED
    BY <1>8, <2>1, <2>2, MovesIn
<1>12. reserve'[p][Min(p)] = d0 /\ reserve'[p][Max(p)] = d1
  <2>1. reserve[p][Min(p)] = 0 /\ reserve[p][Max(p)] = 0
    BY <1>1 DEF SwapInv, SharesBacked
  <2>2. QED
    BY <1>1, <1>2, <1>3, <1>11, <2>1 DEF d0, d1
<1>13. ProductIn(reserve, p)' = value /\ Product(p)' = value /\ Product(p) = 0
  <2>1. reserve[p][Min(p)] = 0 /\ reserve[p][Max(p)] = 0
    BY <1>1 DEF SwapInv, SharesBacked
  <2>2. QED
    BY <1>12, <2>1 DEF ProductIn, Product, value
<1>14. totalSupply'[p] = root
  BY <1>10, <1>11
<1>15. lpBalances'[p][Burn] = MinimumLiquidity
  <2>1. lpBalances[p][Burn] \in Nat /\ lpBalances[p][Burn] <= 0
    <3>1. Burn \in Wallet
      BY DEF Wallet
    <3>2. QED
      BY <3>1, ShareBounds
  <2>2. QED
    BY <1>7, <1>10, <1>11, <2>1
<1>16. SharesBacked(p)'
  BY <1>5, <1>7, <1>8, <1>11, <1>13, <1>14, <1>15 DEF SharesBacked
<1>17. ValueKept(p)
  <2>1. value * 0 * 0 >= 0 * root * root
    BY <1>4, <1>5
  <2>2. QED
    BY <1>13, <1>14, <2>1 DEF ValueKept
<1>18. FirstMint(p)
  BY <1>4, <1>5, <1>13, <1>14 DEF FirstMint
<1>19. ASSUME NEW q \in Pair \ {p} PROVE SharesBacked(q)' /\ ValueKept(q) /\ FirstMint(q)
  BY <1>11, OtherPools
<1>20. last' \in [mints : BOOLEAN, revisited : SUBSET Pair, throws : BOOLEAN] /\ ~last'.throws
  BY DEF Ends, Revisited
<1>21. SwapInv'
  BY <1>11, <1>16, <1>19, <1>20 DEF SwapInv, Wide
<1>22. Orderly
  BY <1>11, <1>17, <1>18, <1>19, <1>20 DEF Orderly
<1>23. QED
  BY <1>21, <1>22

\* A further deposit: its shares are paid for in either token.
LEMMA FurtherDeposited ==
  ASSUME NoOverflow, SwapInv, NEW u \in User, NEW p \in Pair, NEW desired \in [p -> Nat],
         totalSupply[p] # 0,
         CanPay(u, p, FurtherDeposit(desired, p).taken),
         MoveIn(u, p, FurtherDeposit(desired, p)), pairs' \subseteq Pair, Ends(<<>>, FALSE)
  PROVE  SwapInv' /\ Orderly
<1> DEFINE deposit == FurtherDeposit(desired, p)
           taken == deposit.taken
           minted == deposit.liquidity
           s == totalSupply[p]
<1>1. s \in Nat \ {0} /\ s <= MaxSupply /\ Product(p) \in Nat /\ s * s <= Product(p)
  BY ShareBounds DEF SwapInv, SharesBacked
<1>2. \A t \in p : reserve[p][t] \in Nat \ {0}
  BY <1>1, ShareBounds
<1>3. reserve[p] \in [p -> Nat \ {0}]
  <2>1. reserve[p] \in [p -> Nat]
    BY DEF SwapInv, Wide, Reserves
  <2>2. QED
    BY <1>2, <2>1
<1>4. taken \in [p -> Nat]
  BY <1>3, TakenType
<1>5. minted = ProportionalShare(taken, p)
  BY DEF FurtherDeposit
<1>6. CanPay(u, p, deposit.taken) /\ MoveIn(u, p, deposit)
  OBVIOUS
<1> HIDE DEF deposit
<1>7. ASSUME NEW t \in p
      PROVE  /\ taken[t] \in Nat /\ taken[t] <= MaxSupply
             /\ taken[t] * s \in Nat /\ taken[t] * s < Word /\ taken[t] * s <= MaxSupply * MaxSupply
  <2>1. taken[t] \in Nat /\ taken[t] <= balances[u][t] /\ t \in Token
    BY <1>4, <1>6 DEF CanPay, Pair
  <2>2. balances[u][t] \in Nat /\ balances[u][t] <= MaxSupply /\ MaxSupply \in Nat
    BY <2>1, InvBounds, Bounds
  <2>3. taken[t] <= MaxSupply
    BY <2>1, <2>2
  <2> DEFINE n == taken[t]
  <2>4. n \in Nat /\ n <= MaxSupply /\ s \in Nat /\ s <= MaxSupply
    BY <1>1, <2>1, <2>3
  <2> HIDE DEF n, s
  <2>5. n * s \in Nat /\ n * s < Word /\ n * s <= MaxSupply * MaxSupply
    BY <2>4, ProductFits
  <2>6. QED
    BY <2>4, <2>5 DEF n
<1>8. minted \in Nat /\ \A t \in p : reserve[p][t] * minted <= taken[t] * s
  <2>1. totalSupply[p] \in Nat /\ \A t \in p : taken[t] * totalSupply[p] < Word
    BY <1>1, <1>7
  <2> HIDE DEF minted, taken, s
  <2>2. QED
    BY <1>3, <1>4, <1>5, <2>1, ProvidedShare DEF s
<1> HIDE DEF taken, minted
<1>9. s + minted < Word /\ s + minted \in Nat
  <2>1. PICK t : t \in p
    BY PairEnds
  <2> DEFINE r == reserve[p][t]
             n == taken[t] * s
             m == MaxSupply * MaxSupply
  <2>2. r \in Nat \ {0} /\ n \in Nat /\ n <= m
    BY <1>2, <1>7, <2>1
  <2>3. r * minted <= n
    BY <1>8, <2>1
  <2>4. MaxSupply + m < Word /\ m \in Nat /\ MaxSupply \in Nat /\ Word \in Nat
    BY Bounds
  <2> HIDE DEF r, n, m, s
  <2>5. minted <= r * minted /\ r * minted \in Nat
    BY <1>8, <2>2, NoLessThanItself
  <2>6. QED
    BY <1>1, <1>8, <2>2, <2>3, <2>4, <2>5
<1>10. LockedBy(p) = 0 /\ s + minted + LockedBy(p) = s + minted
  BY <1>1, <1>9 DEF LockedBy
<1>11. /\ balances' \in [User -> [Token -> Nat]] /\ reserve' \in Reserves
       /\ totalSupply' \in [Pair -> Nat] /\ lpBalances' \in [Pair -> [Wallet -> Nat]]
       /\ \A t \in p : reserve'[p][t] = reserve[p][t] + taken[t]
       /\ totalSupply'[p] = s + minted + LockedBy(p)
       /\ totalSupply'[p] = SumFunctionOnSet(lpBalances'[p], Wallet)
       /\ lpBalances'[p][Burn] = lpBalances[p][Burn] + LockedBy(p)
       /\ \A q \in Pair \ {p} : /\ reserve'[q] = reserve[q] /\ totalSupply'[q] = totalSupply[q]
                                /\ lpBalances'[q] = lpBalances[q]
       /\ \A t \in Token : Supply(t)' = Supply(t) /\ Supply(t)' <= MaxSupply
  <2>1. deposit.taken \in [p -> Nat] /\ deposit.liquidity \in Nat
    BY <1>4, <1>8 DEF taken, minted
  <2>2. totalSupply[p] + deposit.liquidity + LockedBy(p) < Word
    BY <1>9, <1>10 DEF minted
  <2>3. QED
    BY <1>6, <2>1, <2>2, MovesIn DEF taken, minted
<1>12. totalSupply'[p] = s + minted /\ totalSupply'[p] \in Nat /\ totalSupply'[p] > 0
  BY <1>1, <1>8, <1>9, <1>10, <1>11
<1>13. ASSUME NEW t \in p
       PROVE  /\ reserve[p][t] \in Nat /\ reserve'[p][t] \in Nat
              /\ reserve[p][t] * totalSupply'[p] <= reserve'[p][t] * totalSupply[p]
  <2> DEFINE r == reserve[p][t]
             added == taken[t]
             r2 == reserve'[p][t]
  <2>1. r \in Nat /\ added \in Nat /\ r2 = r + added /\ r * minted <= added * s
    BY <1>2, <1>7, <1>8, <1>11
  <2>2. s \in Nat /\ minted \in Nat
    BY <1>1, <1>8
  <2> HIDE DEF r, added, s, r2
  <2>3. r * (s + minted) <= (r + added) * s
    BY <2>1, <2>2, AddedInProportion
  <2>4. r2 \in Nat
    BY <2>1
  <2>5. QED
    BY <1>12, <2>1, <2>3, <2>4 DEF r, r2, s
<1>14. ValueKept(p)
  BY <1>1, <1>12, <1>13, ReservesKeepValue
<1>15. ProductIn(reserve, p)' = Product(p)' /\ Product(p)' \in Nat
  <2>1. reserve'[p][Min(p)] \in Nat /\ reserve'[p][Max(p)] \in Nat
    BY <1>13, PairEnds
  <2>2. QED
    BY <2>1 DEF ProductIn, Product
<1>16. totalSupply'[p] * totalSupply'[p] <= Product(p)'
  <2> DEFINE k == Product(p)
             k2 == Product(p)'
             s2 == totalSupply'[p]
  <2>1. k2 * s * s >= k * s2 * s2
    BY <1>14 DEF ValueKept
  <2>2. s \in Nat \ {0} /\ k \in Nat /\ s2 \in Nat /\ k2 \in Nat /\ s * s <= k
    BY <1>1, <1>12, <1>15
  <2> HIDE DEF k, k2, s, s2
  <2>3. s2 * s2 <= k2
    BY <2>1, <2>2, KeptBacks
  <2>4. QED
    BY <2>3 DEF s2, k2
<1>17. lpBalances'[p][Burn] = MinimumLiquidity
  <2>1. lpBalances[p][Burn] = MinimumLiquidity /\ MinimumLiquidity \in Nat
    BY <1>1, SwapAssumption DEF SwapInv, SharesBacked
  <2>2. QED
    BY <1>10, <1>11, <2>1
<1>18. SharesBacked(p)'
  BY <1>11, <1>12, <1>15, <1>16, <1>17 DEF SharesBacked
<1>19. FirstMint(p)
  BY <1>1 DEF FirstMint
<1>20. ASSUME NEW q \in Pair \ {p} PROVE SharesBacked(q)' /\ ValueKept(q) /\ FirstMint(q)
  BY <1>11, OtherPools
<1>21. last' \in [mints : BOOLEAN, revisited : SUBSET Pair, throws : BOOLEAN] /\ ~last'.throws
  BY DEF Ends, Revisited
<1>22. SwapInv'
  BY <1>11, <1>18, <1>20, <1>21 DEF SwapInv, Wide
<1>23. Orderly
  BY <1>11, <1>14, <1>19, <1>20, <1>21 DEF Orderly
<1>24. QED
  BY <1>22, <1>23

LEMMA DepositCall ==
  ASSUME NoOverflow, SwapInv, NEW u \in User, NEW p \in Pair, NEW desired \in [p -> Nat], NEW minimum \in Nat,
         addLiquidity(u, p, desired, minimum)
  PROVE  SwapInv' /\ Orderly
<1> DEFINE deposit == IF totalSupply[p] = 0 THEN FirstDeposit(desired, p) ELSE FurtherDeposit(desired, p)
<1>1. pairs \subseteq Pair /\ last \in [mints : BOOLEAN, revisited : SUBSET Pair, throws : BOOLEAN]
  BY DEF SwapInv, Wide
<1>2. pairs' \subseteq Pair
  <2>1. pairs' = pairs \/ pairs' = pairs \cup {p}
    BY Zenon DEF addLiquidity
  <2>2. QED
    BY <1>1, <2>1
<1>3. \/ Reject(<<>>)
      \/ UNCHANGED <<balances, pools, last>>
      \/ /\ deposit.liquidity > 0 /\ CanPay(u, p, deposit.taken)
         /\ MoveIn(u, p, deposit) /\ Ends(<<>>, FALSE)
  BY Zenon DEF addLiquidity
<1>4. CASE Reject(<<>>)
  BY <1>2, <1>4, RejectedCall
<1>5. CASE UNCHANGED <<balances, pools, last>>
  BY <1>1, <1>2, <1>5, Unmoved
<1>6. CASE /\ deposit.liquidity > 0 /\ CanPay(u, p, deposit.taken)
           /\ MoveIn(u, p, deposit) /\ Ends(<<>>, FALSE)
  <2>1. CASE totalSupply[p] = 0
    <3>1. deposit = FirstDeposit(desired, p)
      BY <2>1
    <3> HIDE DEF deposit
    <3>2. QED
      BY <1>2, <1>6, <2>1, <3>1, FirstDeposited
  <2>2. CASE totalSupply[p] # 0
    <3>1. deposit = FurtherDeposit(desired, p)
      BY <2>2
    <3> HIDE DEF deposit
    <3>2. QED
      BY <1>2, <1>6, <2>2, <3>1, FurtherDeposited
  <2>3. QED
    BY <2>1, <2>2
<1>7. QED
  BY <1>3, <1>4, <1>5, <1>6

\* A withdrawal: the shares that go are worth what is paid, rounded down.
LEMMA WithdrawalCall ==
  ASSUME NoOverflow, SwapInv, NEW u \in User, NEW p \in Pair, NEW liquidity \in Nat, NEW minimum \in Nat,
         removeLiquidity(u, p, liquidity, minimum)
  PROVE  SwapInv' /\ Orderly
<1> DEFINE amount == Withdrawal(liquidity, p)
           s == totalSupply[p]
           lp == lpBalances[p]
           Paid == /\ s > 0 /\ liquidity > 0 /\ lp[u] >= liquidity
                   /\ reserve' = [reserve EXCEPT ![p] = [t \in p |-> @[t] - amount[t]]]
                   /\ totalSupply' = [totalSupply EXCEPT ![p] = @ - liquidity]
                   /\ lpBalances' = [lpBalances EXCEPT ![p][u] = @ - liquidity]
                   /\ balances' = [balances EXCEPT ![u] = [t \in Token |-> IF t \in p THEN U(@[t] + amount[t]) ELSE @[t]]]
                   /\ Ends(<<>>, FALSE)
<1>1. pairs' = pairs /\ (Reject(<<>>) \/ Paid)
  BY Zenon DEF removeLiquidity
<1>2. pairs' \subseteq Pair
  BY <1>1 DEF SwapInv, Wide
<1>3. CASE Reject(<<>>)
  BY <1>2, <1>3, RejectedCall
<1>4. CASE Paid
  <2>1. /\ balances \in [User -> [Token -> Nat]] /\ reserve \in Reserves
        /\ totalSupply \in [Pair -> Nat] /\ lpBalances \in [Pair -> [Wallet -> Nat]]
    BY DEF SwapInv, Wide
  <2>2. MaxSupply \in Nat /\ Word \in Nat /\ 2 * MaxSupply < Word
    BY Bounds
  <2>3. /\ s \in Nat \ {0} /\ s <= MaxSupply /\ s * s <= Product(p) /\ Product(p) \in Nat
        /\ lp[u] \in Nat /\ lp[u] < s /\ liquidity <= lp[u] /\ s - liquidity \in Nat /\ s - liquidity > 0
    <3>1. s \in Nat /\ s > 0 /\ s <= MaxSupply /\ Product(p) \in Nat /\ ProductIn(reserve, p) = Product(p)
      BY <1>4, ShareBounds
    <3>2. s * s <= ProductIn(reserve, p)
      BY DEF SwapInv, SharesBacked
    <3>3. lp[u] < s
      BY <3>1, ShareBounds
    <3>4. lp[u] \in Nat /\ liquidity <= lp[u]
      BY <1>4, <2>1 DEF Wallet
    <3>5. QED
      BY <3>1, <3>2, <3>3, <3>4
  <2>4. p \subseteq Token /\ u \in Wallet /\ Burn \in Wallet /\ u # Burn
    BY SwapAssumption DEF Pair, Wallet
  <2>5. ASSUME NEW t \in p
        PROVE  /\ reserve[p][t] \in Nat /\ reserve[p][t] <= MaxSupply
               /\ balances[u][t] \in Nat /\ balances[u][t] <= MaxSupply
               /\ liquidity * reserve[p][t] < Word
               /\ amount[t] \in Nat /\ amount[t] <= reserve[p][t]
    <3> DEFINE r == reserve[p][t]
               paid == amount[t]
               n == liquidity * r
    <3>1. r \in Nat /\ r <= MaxSupply /\ balances[u][t] \in Nat /\ balances[u][t] <= MaxSupply
      BY <2>4, InvBounds
    <3>2. liquidity <= MaxSupply
      BY <2>2, <2>3
    <3>3. paid = U(n) \div s
      BY DEF Withdrawal
    <3> HIDE DEF paid, s, r
    <3>4. n \in Nat /\ n < Word /\ U(n) = n
      BY <3>1, <3>2, ProductFits
    <3>5. n <= s * r
      BY <2>3, <3>1, TwoFactors
    <3> HIDE DEF n
    <3>6. paid \in Nat /\ s * paid <= n
      BY <2>3, <3>3, <3>4, Quotient
    <3>7. paid * s <= r * s
      BY <2>3, <3>1, <3>4, <3>5, <3>6
    <3>8. paid <= r
      BY <2>3, <3>1, <3>6, <3>7, Cancel
    <3>9. QED
      BY <3>1, <3>4, <3>6, <3>8 DEF paid, r, n
  <2>6. \A t \in p : liquidity * reserve[p][t] < Word
    BY <2>5
  <2>7. ValueKept(p)
    <3>1. reserve \in [Pair -> UNION {[q -> Nat] : q \in Pair}] /\ reserve[p] \in [p -> Nat]
      BY <2>1 DEF Reserves
    <3>2. lpBalances[p][u] <= totalSupply[p] /\ lpBalances[p][u] \in Nat
      BY <2>3
    <3>3. QED
      BY <2>1, <2>6, <3>1, <3>2, WithdrawalFavoursThePool
  <2> HIDE DEF amount
  <2>8. /\ reserve' \in Reserves
        /\ \A t \in p : reserve'[p][t] = reserve[p][t] - amount[t]
        /\ \A q \in Pair \ {p} : reserve'[q] = reserve[q]
    <3> DEFINE rp == [t \in p |-> reserve[p][t] - amount[t]]
    <3>1. reserve' = [reserve EXCEPT ![p] = rp]
      BY <1>4
    <3>2. rp \in [p -> Nat]
      BY <2>5
    <3>3. \A t \in p : rp[t] = reserve[p][t] - amount[t]
      OBVIOUS
    <3> HIDE DEF rp
    <3>4. reserve \in Reserves /\ p \in Pair /\ rp \in [p -> Nat]
      BY <2>1, <3>2
    <3>5. [reserve EXCEPT ![p] = rp] \in Reserves /\ [reserve EXCEPT ![p] = rp][p] = rp
          /\ \A q \in Pair \ {p} : [reserve EXCEPT ![p] = rp][q] = reserve[q]
      BY ONLY <3>4, OneReserveChanges
    <3>6. QED
      BY <3>1, <3>3, <3>5
  <2>9. \A t \in p : U(balances[u][t] + amount[t]) = balances[u][t] + amount[t] /\ balances[u][t] + amount[t] \in Nat
    <3>1. SUFFICES ASSUME NEW t \in p
                   PROVE  U(balances[u][t] + amount[t]) = balances[u][t] + amount[t] /\ balances[u][t] + amount[t] \in Nat
      OBVIOUS
    <3>2. balances[u][t] + amount[t] \in Nat /\ balances[u][t] + amount[t] < Word
      BY <2>2, <2>5
    <3>3. QED
      BY <3>2, Fits
  <2>10. /\ balances' \in [User -> [Token -> Nat]]
         /\ \A v \in User \ {u} : balances'[v] = balances[v]
         /\ \A t \in Token \ p : balances'[u][t] = balances[u][t]
         /\ \A t \in p : balances'[u][t] = balances[u][t] + amount[t]
    <3> DEFINE bu == [t \in Token |-> IF t \in p THEN U(balances[u][t] + amount[t]) ELSE balances[u][t]]
    <3>1. balances' = [balances EXCEPT ![u] = bu]
      BY <1>4
    <3>2. bu \in [Token -> Nat] /\ \A t \in Token : bu[t] = IF t \in p THEN balances[u][t] + amount[t] ELSE balances[u][t]
      BY <2>1, <2>9
    <3> HIDE DEF bu
    <3>3. balances' \in [User -> [Token -> Nat]] /\ balances'[u] = bu /\ \A v \in User \ {u} : balances'[v] = balances[v]
      BY <2>1, <3>1, <3>2
    <3>4. QED
      BY <2>4, <3>2, <3>3
  <2>11. totalSupply' \in [Pair -> Nat] /\ totalSupply'[p] = s - liquidity
         /\ \A q \in Pair \ {p} : totalSupply'[q] = totalSupply[q]
    BY <1>4, <2>1, <2>3
  <2>12. /\ lpBalances' \in [Pair -> [Wallet -> Nat]]
         /\ \A q \in Pair \ {p} : lpBalances'[q] = lpBalances[q]
         /\ lpBalances'[p][u] = lp[u] - liquidity
         /\ \A w \in Wallet \ {u} : lpBalances'[p][w] = lp[w]
    BY <1>4, <2>1, <2>3, <2>4
  <2>13. totalSupply'[p] = SumFunctionOnSet(lpBalances'[p], Wallet)
    <3> DEFINE after == lpBalances'[p]
    <3>1. lp \in [Wallet -> Nat]
      BY <2>1
    <3>2. after \in [Wallet -> Nat]
      BY <2>12
    <3>3. s = SumFunctionOnSet(lp, Wallet)
      BY DEF SwapInv, SharesBacked
    <3>4. \A w \in Wallet : lp[w] \in Int /\ after[w] \in Int
      BY <3>1, <3>2
    <3>5. \A w \in Wallet \ {u} : after[w] = lp[w]
      BY <2>12
    <3>6. IsFiniteSet(Wallet) /\ u \in Wallet
      BY <2>4, FinitelyMany
    <3>7. after[u] = lp[u] - liquidity
      BY <2>12
    <3> HIDE DEF after, lp, s
    <3>8. SumFunctionOnSet(after, Wallet) = SumFunctionOnSet(lp, Wallet) - lp[u] + after[u]
      BY ONLY <3>4, <3>5, <3>6, SumChanges
    <3>9. SumFunctionOnSet(after, Wallet) = s - liquidity
      BY <2>3, <3>3, <3>7, <3>8
    <3>10. QED
      BY <2>11, <3>9 DEF after
  <2>14. \A t \in Token : Supply(t)' = Supply(t) /\ Supply(t)' <= MaxSupply
    <3>1. \A t \in p : balances'[u][t] + reserve'[p][t] = balances[u][t] + reserve[p][t]
      BY <2>5, <2>8, <2>10
    <3>2. QED
      BY <2>8, <2>10, <3>1, OnePoolSupply
  <2>15. ProductIn(reserve, p)' = Product(p)' /\ Product(p)' \in Nat
    <3>1. reserve'[p][Min(p)] \in Nat /\ reserve'[p][Max(p)] \in Nat
      BY <2>8, PairEnds DEF Reserves
    <3>2. QED
      BY <3>1 DEF ProductIn, Product
  <2>16. totalSupply'[p] * totalSupply'[p] <= Product(p)'
    <3> DEFINE k == Product(p)
               k2 == Product(p)'
               s2 == totalSupply'[p]
    <3>1. k2 * s * s >= k * s2 * s2
      BY <2>7 DEF ValueKept
    <3>2. s \in Nat \ {0} /\ k \in Nat /\ s2 \in Nat /\ k2 \in Nat /\ s * s <= k
      BY <2>3, <2>11, <2>15
    <3> HIDE DEF k, k2, s, s2
    <3>3. s2 * s2 <= k2
      BY <3>1, <3>2, KeptBacks
    <3>4. QED
      BY <3>3 DEF s2, k2
  <2>17. lpBalances'[p][Burn] = MinimumLiquidity
    BY <2>3, <2>4, <2>12 DEF SwapInv, SharesBacked
  <2>18. SharesBacked(p)'
    BY <2>3, <2>11, <2>13, <2>15, <2>16, <2>17 DEF SharesBacked
  <2>19. FirstMint(p)
    BY <2>3 DEF FirstMint
  <2>20. ASSUME NEW q \in Pair \ {p} PROVE SharesBacked(q)' /\ ValueKept(q) /\ FirstMint(q)
    BY <2>8, <2>11, <2>12, OtherPools
  <2>21. last' \in [mints : BOOLEAN, revisited : SUBSET Pair, throws : BOOLEAN] /\ ~last'.throws
    BY <1>4 DEF Ends, Revisited
  <2>22. SwapInv'
    BY <1>2, <2>8, <2>10, <2>11, <2>12, <2>14, <2>18, <2>20, <2>21 DEF SwapInv, Wide
  <2>23. Orderly
    BY <2>7, <2>14, <2>19, <2>20, <2>21 DEF Orderly
  <2>24. QED
    BY <2>22, <2>23
<1>5. QED
  BY <1>1, <1>3, <1>4

\* Of b and c, c differs by one balance, which becomes n.
OneBalance(b, c, v, x, n) ==
  /\ c \in [User -> [Token -> Nat]]
  /\ c[v][x] = n /\ \A w \in User, t \in Token : w # v \/ t # x => c[w][t] = b[w][t]
  /\ \A t \in Token : /\ InWallets(b, t) \in Nat
                      /\ InWallets(c, t) = InWallets(b, t) + (IF t = x THEN n - b[v][x] ELSE 0)

LEMMA OneBalanceChanges ==
  ASSUME NEW b, NEW c, NEW v, NEW x, NEW n,
         b \in [User -> [Token -> Nat]] /\ v \in User /\ x \in Token /\ n \in Nat,
         c = [b EXCEPT ![v][x] = n]
  PROVE  OneBalance(b, c, v, x, n)
<1>1. /\ c \in [User -> [Token -> Nat]]
      /\ c[v][x] = n /\ \A w \in User, t \in Token : w # v \/ t # x => c[w][t] = b[w][t]
  OBVIOUS
<1>2. ASSUME NEW t \in Token
      PROVE  /\ InWallets(b, t) \in Nat
             /\ InWallets(c, t) = InWallets(b, t) + (IF t = x THEN n - b[v][x] ELSE 0)
  <2>1. \A w \in User : b[w][t] \in Int /\ c[w][t] \in Int
    BY <1>1
  <2>2. \A w \in User \ {v} : c[w][t] = b[w][t]
    BY <1>1
  <2>3. v \in User
    OBVIOUS
  <2>4. InWallets(c, t) = InWallets(b, t) - b[v][t] + c[v][t]
    BY ONLY <2>1, <2>2, <2>3, WalletChanges
  <2>5. \A w \in User : b[w][t] \in Nat
    OBVIOUS
  <2>6. InWallets(b, t) \in Nat
    BY ONLY <2>5, WalletSums
  <2>7. b[v][t] \in Int
    OBVIOUS
  <2>8. c[v][t] = IF t = x THEN n ELSE b[v][t]
    BY <1>1
  <2>9. InWallets(c, t) = InWallets(b, t) + (IF t = x THEN n - b[v][x] ELSE 0)
    <3>1. CASE t = x
      <4>1. c[v][t] = n /\ b[v][t] = b[v][x]
        BY <2>8, <3>1
      <4>2. QED
        BY <2>4, <2>6, <2>7, <3>1, <4>1
    <3>2. CASE t # x
      <4>1. c[v][t] = b[v][t]
        BY <2>8, <3>2
      <4>2. QED
        BY <2>4, <2>6, <2>7, <3>2, <4>1
    <3>3. QED
      BY <3>1, <3>2
  <2>10. QED
    BY <2>6, <2>9
<1>3. QED
  BY <1>1, <1>2 DEF OneBalance

\* A swap that does not come back to a pool.
LEMMA SwapMoves ==
  ASSUME NoOverflow, SwapInv, NEW u \in User, NEW to \in User, NEW path \in Seq(Token),
         ~PathThrows(path), ~Revisits(path), NEW amounts, Fair(path, amounts),
         balances[u][path[1]] >= amounts[1],
         reserve' = AfterHops(path, amounts).reserve,
         balances' = IF AfterHops(path, amounts).throws THEN Debited(u, path[1], amounts[1])
                     ELSE [Debited(u, path[1], amounts[1]) EXCEPT ![to][path[Len(path)]] = U(@ + amounts[Len(path)])],
         Ends(path, AfterHops(path, amounts).throws), UNCHANGED <<pairs, totalSupply, lpBalances>>
  PROVE  SwapInv' /\ Orderly
<1> DEFINE n == Len(path)
           x == path[1]
           y == path[n]
           a == amounts[1]
           z == amounts[n]
           paid == Debited(u, x, a)
<1>1. n \in Nat /\ n >= 2 /\ Solvent
  BY PathOfPairs, InvBounds
<1>2. x \in Token /\ y \in Token
  BY <1>1
<1>3. MaxSupply \in Nat /\ Word \in Nat /\ 2 * MaxSupply < Word
  BY Bounds
<1>4. /\ \A i \in 1..n - 1 : /\ amounts[i] \in 0..MaxSupply /\ amounts[i + 1] \in Nat
                             /\ amounts[i + 1] < reserve[HopPair(path, i)][path[i + 1]]
  BY DEF Fair
<1>5. \A i \in 1..n : amounts[i] \in Nat
  <2>1. SUFFICES ASSUME NEW i \in 1..n PROVE amounts[i] \in Nat
    OBVIOUS
  <2>2. CASE i <= n - 1
    <3>1. i \in 1..n - 1
      BY <1>1, <2>2
    <3>2. QED
      BY <1>3, <1>4, <3>1
  <2>3. CASE i = n
    <3>1. n - 1 \in 1..n - 1 /\ (n - 1) + 1 = n
      BY <1>1
    <3>2. QED
      BY <1>4, <2>3, <3>1
  <2>4. QED
    BY <1>1, <2>2, <2>3
<1>6. a \in Nat /\ z \in Nat /\ z <= MaxSupply
  <2>1. n - 1 \in 1..n - 1 /\ (n - 1) + 1 = n /\ 1 \in 1..n /\ n \in 1..n
    BY <1>1
  <2>2. z < reserve[HopPair(path, n - 1)][path[n]]
    BY <1>4, <2>1
  <2>3. reserve[HopPair(path, n - 1)][path[n]] \in Nat /\ reserve[HopPair(path, n - 1)][path[n]] <= MaxSupply
    BY <1>1, <2>1, PathOfPairs
  <2>4. QED
    BY <1>3, <1>5, <2>1, <2>2, <2>3
<1>7. AfterHops(path, amounts).throws = FALSE /\ HopsDone(reserve', path, amounts, n)
  BY <1>1, <1>5, HopsGoThrough
<1>8. balances \in [User -> [Token -> Nat]] /\ balances[u][x] \in Nat /\ balances[u][x] - a \in Nat
  <2>1. balances \in [User -> [Token -> Nat]]
    BY DEF SwapInv, Wide
  <2>2. balances[u][x] \in Nat
    BY <1>2, <2>1
  <2>3. QED
    BY <1>6, <2>1, <2>2
<1>9. paid = [balances EXCEPT ![u][x] = balances[u][x] - a]
  BY DEF Debited
<1>10. balances' = [paid EXCEPT ![to][y] = U(paid[to][y] + z)]
  BY <1>7
<1> HIDE DEF paid, x, y, a, z
<1>11. /\ paid \in [User -> [Token -> Nat]]
       /\ \A w \in User, t \in Token : paid[w][t] <= balances[w][t]
       /\ \A t \in Token : /\ InWallets(balances, t) \in Nat
                           /\ InWallets(paid, t) = InWallets(balances, t) - (IF t = x THEN a ELSE 0)
  <2> DEFINE m == balances[u][x] - a
             c == [balances EXCEPT ![u][x] = m]
  <2>1. m \in Nat /\ balances \in [User -> [Token -> Nat]] /\ u \in User /\ x \in Token
    BY <1>2, <1>8
  <2>2. m - balances[u][x] = 0 - a /\ m <= balances[u][x]
    BY <1>6, <1>8
  <2> HIDE DEF m
  <2>0. c = [balances EXCEPT ![u][x] = m]
    OBVIOUS
  <2> HIDE DEF c
  <2>30. OneBalance(balances, c, u, x, m)
    BY ONLY <2>0, <2>1, OneBalanceChanges
  <2>3. /\ c \in [User -> [Token -> Nat]]
        /\ c[u][x] = m /\ \A w \in User, t \in Token : w # u \/ t # x => c[w][t] = balances[w][t]
        /\ \A t \in Token : /\ InWallets(balances, t) \in Nat
                            /\ InWallets(c, t) = InWallets(balances, t) + (IF t = x THEN m - balances[u][x] ELSE 0)
    BY <2>30 DEF OneBalance
  <2>4. paid = c
    BY <1>9 DEF c, m
  <2>5. ASSUME NEW t \in Token
        PROVE  InWallets(c, t) = InWallets(balances, t) - (IF t = x THEN a ELSE 0)
    <3>1. /\ InWallets(balances, t) \in Nat
          /\ InWallets(c, t) = InWallets(balances, t) + (IF t = x THEN m - balances[u][x] ELSE 0)
      BY <2>3
    <3>2. CASE t = x
      <4>1. InWallets(c, t) = InWallets(balances, t) + (0 - a)
        BY <2>2, <3>1, <3>2
      <4>2. QED
        BY <1>6, <3>1, <3>2, <4>1
    <3>3. CASE t # x
      BY <3>1, <3>3
    <3>4. QED
      BY <3>2, <3>3
  <2>6. ASSUME NEW w \in User, NEW t \in Token PROVE c[w][t] <= balances[w][t]
    <3>1. balances[w][t] \in Nat
      BY <1>8
    <3>2. CASE w # u \/ t # x
      BY <2>3, <3>1, <3>2
    <3>3. CASE w = u /\ t = x
      BY <2>2, <2>3, <3>3
    <3>4. QED
      BY <3>2, <3>3
  <2>7. QED
    BY <2>3, <2>4, <2>5, <2>6
<1>12. U(paid[to][y] + z) = paid[to][y] + z /\ paid[to][y] + z \in Nat
  <2>1. paid[to][y] \in Nat /\ paid[to][y] <= balances[to][y] /\ balances[to][y] \in Nat /\ balances[to][y] <= MaxSupply
    BY <1>2, <1>11, InvBounds
  <2>2. paid[to][y] + z \in Nat /\ paid[to][y] + z < Word
    BY <1>3, <1>6, <2>1
  <2>3. QED
    BY <2>2, Fits
<1>13. /\ balances' \in [User -> [Token -> Nat]]
       /\ \A t \in Token : InWallets(balances', t) = InWallets(paid, t) + (IF t = y THEN z ELSE 0)
  <2> DEFINE m == paid[to][y] + z
             c == [paid EXCEPT ![to][y] = m]
  <2>1. m \in Nat /\ paid \in [User -> [Token -> Nat]] /\ to \in User /\ y \in Token
    BY <1>2, <1>11, <1>12
  <2>2. paid[to][y] \in Nat
    BY <2>1
  <2>3. m - paid[to][y] = z
    BY <1>6, <2>2
  <2>4. balances' = c
    BY <1>10, <1>12
  <2> HIDE DEF m
  <2>0. c = [paid EXCEPT ![to][y] = m]
    OBVIOUS
  <2> HIDE DEF c
  <2>50. OneBalance(paid, c, to, y, m)
    BY ONLY <2>0, <2>1, OneBalanceChanges
  <2>5. /\ c \in [User -> [Token -> Nat]]
        /\ c[to][y] = m /\ \A w \in User, t \in Token : w # to \/ t # y => c[w][t] = paid[w][t]
        /\ \A t \in Token : /\ InWallets(paid, t) \in Nat
                            /\ InWallets(c, t) = InWallets(paid, t) + (IF t = y THEN m - paid[to][y] ELSE 0)
    BY <2>50 DEF OneBalance
  <2>6. QED
    BY <2>3, <2>4, <2>5
<1>14. /\ reserve' \in Reserves
       /\ \A q \in Pair : ProductIn(reserve', q) >= ProductIn(reserve, q)
       /\ \A t \in Token : InPools(reserve', t) = InPools(reserve, t) + (IF t = x THEN a ELSE 0) - (IF t = y THEN z ELSE 0)
  BY <1>7 DEF HopsDone, Came, Due, x, y, a, z
<1>15. ASSUME NEW t \in Token PROVE Supply(t)' = Supply(t) /\ Supply(t)' <= MaxSupply
  <2>1. Supply(t) = InWallets(balances, t) + InPools(reserve, t) /\ Supply(t) <= MaxSupply
        /\ Supply(t)' = InWallets(balances', t) + InPools(reserve', t)
    BY SupplyIsSum DEF SwapInv
  <2>2. \A q \in Pair : t \in q => reserve[q][t] \in Nat
    BY DEF SwapInv, Wide, Reserves
  <2>3. InPools(reserve, t) \in Nat
    BY ONLY <2>2, PoolSums
  <2> DEFINE came == IF t = x THEN a ELSE 0
             went == IF t = y THEN z ELSE 0
  <2>4. came \in Nat /\ went \in Nat
    BY <1>6
  <2>5. /\ InWallets(paid, t) = InWallets(balances, t) - came /\ InWallets(balances, t) \in Nat
        /\ InWallets(balances', t) = InWallets(paid, t) + went
        /\ InPools(reserve', t) = InPools(reserve, t) + came - went
    BY <1>11, <1>13, <1>14
  <2> HIDE DEF came, went
  <2>6. QED
    BY <2>1, <2>3, <2>4, <2>5
<1>16. ASSUME NEW q \in Pair PROVE SharesBacked(q)' /\ ValueKept(q) /\ FirstMint(q)
  <2> DEFINE s == totalSupply[q]
             k == ProductIn(reserve, q)
             k2 == ProductIn(reserve', q)
  <2>1. s \in Nat /\ totalSupply'[q] = s /\ lpBalances'[q] = lpBalances[q]
    BY DEF SwapInv, Wide
  <2>2. Min(q) \in q /\ Max(q) \in q /\ Min(q) # Max(q)
    BY PairEnds
  <2>3. k \in Nat /\ k2 \in Nat /\ k <= k2
    <3>1. reserve \in Reserves
      BY DEF SwapInv, Wide
    <3>2. k \in Nat
      BY <2>2, <3>1, ProductOfTwo
    <3>3. k2 \in Nat
      BY <1>14, <2>2, ProductOfTwo
    <3>4. QED
      BY <1>14, <3>2, <3>3
  <2>4. Product(q) = k /\ Product(q)' = k2 /\ ProductIn(reserve, q)' = k2
    BY DEF Product, ProductIn
  <2>5. s * s <= k
    BY DEF SwapInv, SharesBacked
  <2>6. s = 0 => \A t \in q : reserve'[q][t] = 0
    <3>1. SUFFICES ASSUME s = 0 PROVE \A t \in q : reserve'[q][t] = 0
      OBVIOUS
    <3>2. \A t \in q : reserve[q][t] = 0
      BY <3>1 DEF SwapInv, SharesBacked
    <3>3. \A i \in 1..n - 1 : HopPair(path, i) # q
      <4>1. SUFFICES ASSUME NEW i \in 1..n - 1, HopPair(path, i) = q PROVE FALSE
        OBVIOUS
      <4>2. amounts[i + 1] \in Nat /\ amounts[i + 1] < reserve[q][path[i + 1]] /\ path[i + 1] \in q
        BY <1>4, <4>1 DEF HopPair
      <4>3. QED
        BY <3>2, <4>2
    <3>4. reserve'[q] = reserve[q]
      <4>1. \A j \in 1..n - 1 : HopPair(path, j) # q
        BY <3>3
      <4>2. QED
        BY <1>7, <4>1 DEF HopsDone
    <3>5. QED
      BY <3>2, <3>4
  <2>7. SharesBacked(q)'
    BY <2>1, <2>3, <2>4, <2>5, <2>6 DEF SwapInv, SharesBacked
  <2>8. ValueKept(q)
    <3>1. s * s \in Nat /\ k * (s * s) <= k2 * (s * s)
      BY <2>1, <2>3, TwoFactors
    <3> HIDE DEF k, k2, s
    <3>2. k * s * s = k * (s * s) /\ k2 * s * s = k2 * (s * s)
      BY <2>1, <2>3
    <3>3. k2 * s * s >= k * s * s
      BY <3>1, <3>2, <2>3
    <3>4. QED
      BY <2>1, <2>4, <3>3 DEF ValueKept, s
  <2>9. FirstMint(q)
    BY <2>1 DEF FirstMint
  <2>10. QED
    BY <2>7, <2>8, <2>9
<1>17. last' \in [mints : BOOLEAN, revisited : SUBSET Pair, throws : BOOLEAN] /\ ~last'.throws
  BY <1>7 DEF Ends, Revisited
<1>18. Wide'
  BY <1>13, <1>14, <1>17 DEF SwapInv, Wide
<1>19. SwapInv' /\ Orderly
  BY <1>15, <1>16, <1>17, <1>18 DEF SwapInv, Orderly
<1>20. QED
  BY <1>19

\* swapWithKnownAmounts with fair amounts, or rejected.
LEMMA KnownAmounts ==
  ASSUME NoOverflow, SwapInv, NEW u \in User, NEW to \in User, NEW path \in Seq(Token),
         ~PathThrows(path), ~Revisits(path), NEW amounts, NEW acceptable,
         (/\ \A i \in 1..Len(path) : amounts[i] # Throws
          /\ ~(balances[u][path[1]] < amounts[1])) => Fair(path, amounts),
         SwapWithKnownAmounts(u, to, path, amounts, acceptable), UNCHANGED pairs
  PROVE  SwapInv' /\ Orderly
<1>1. CASE Reject(path)
  <2>1. pairs' \subseteq Pair
    BY DEF SwapInv, Wide
  <2>2. QED
    BY <1>1, <2>1, RejectedCall
<1>2. CASE ~Reject(path)
  <2>1. ~(\/ \E i \in 1..Len(path) : amounts[i] = Throws
          \/ ~acceptable
          \/ balances[u][path[1]] < amounts[1])
    BY <1>2, Zenon DEF SwapWithKnownAmounts
  <2>2. /\ reserve' = AfterHops(path, amounts).reserve
        /\ balances' = IF AfterHops(path, amounts).throws THEN Debited(u, path[1], amounts[1])
                       ELSE [Debited(u, path[1], amounts[1]) EXCEPT ![to][path[Len(path)]] = U(@ + amounts[Len(path)])]
        /\ Ends(path, AfterHops(path, amounts).throws)
        /\ UNCHANGED <<totalSupply, lpBalances, hung>>
    BY <2>1, Zenon DEF SwapWithKnownAmounts
  <2>3. Fair(path, amounts)
    BY <2>1
  <2>4. balances[u][path[1]] >= amounts[1]
    <3>1. Len(path) \in Nat /\ Len(path) >= 2
      BY InvBounds, PathOfPairs
    <3>2. path[1] \in Token /\ 1 \in 1..Len(path) - 1
      BY <3>1
    <3>3. balances[u][path[1]] \in Nat /\ amounts[1] \in 0..MaxSupply /\ MaxSupply \in Nat
      BY <2>3, <3>2, Bounds, InvBounds DEF Fair
    <3>4. ~(balances[u][path[1]] < amounts[1])
      BY <2>1
    <3>5. QED
      BY <3>3, <3>4
  <2>5. QED
    BY <2>2, <2>3, <2>4, SwapMoves
<1>3. QED
  BY <1>1, <1>2

LEMMA SwapOutCall ==
  ASSUME NoOverflow, SwapInv, NEW u \in User, NEW to \in User, NEW path \in Seq(Token),
         NEW amountIn \in Nat, NEW amountOutMin, ~Revisits(path),
         swapExactTokensForTokens(u, to, path, amountIn, amountOutMin)
  PROVE  SwapInv' /\ Orderly
<1> DEFINE amounts == getAmountsOut(amountIn, path)
           acceptable == amounts[Len(path)] >= amountOutMin
<1>1. pairs' = pairs /\ pairs \subseteq Pair
  BY DEF swapExactTokensForTokens, SwapInv, Wide
<1>2. CASE PathThrows(path)
  <2>1. Reject(path)
    BY <1>2 DEF swapExactTokensForTokens
  <2>2. QED
    BY <1>1, <2>1, RejectedCall
<1>3. CASE ~PathThrows(path)
  <2>1. SwapWithKnownAmounts(u, to, path, amounts, acceptable)
    BY <1>3, Zenon DEF swapExactTokensForTokens
  <2>3. Len(path) \in Nat /\ Len(path) >= 2 /\ Solvent
    BY <1>3, InvBounds, PathOfPairs
  <2>4. amounts[1] = amountIn
    <3>1. 1 \in 1..Len(path)
      BY <2>3
    <3>2. amounts[1] = StepOut(amounts, amountIn, path, 1)
      BY <2>3, <3>1, OutUnfolds
    <3>3. QED
      BY <3>2 DEF StepOut
  <2>5. ASSUME \A i \in 1..Len(path) : amounts[i] # Throws, ~(balances[u][path[1]] < amounts[1])
        PROVE  Fair(path, amounts)
    <3>0. path[1] \in Token
      BY <2>3
    <3>1. balances[u][path[1]] \in Nat /\ balances[u][path[1]] <= MaxSupply /\ MaxSupply \in Nat
      BY <3>0, Bounds, InvBounds
    <3>2. amountIn <= MaxSupply
      BY <2>4, <2>5, <3>1
    <3>3. \A i \in 1..Len(path) : getAmountsOut(amountIn, path)[i] # Throws
      BY <2>5
    <3>4. path \in Seq(Token) /\ amountIn \in Nat /\ Solvent
      BY <2>3
    <3>5. Fair(path, getAmountsOut(amountIn, path))
      BY ONLY NoOverflow, <1>3, <3>2, <3>3, <3>4, OutIsFair
    <3>6. QED
      BY <3>5
  <2> HIDE DEF amounts, acceptable
  <2>6. QED
    BY <1>1, <1>3, <2>1, <2>5, KnownAmounts
<1>4. QED
  BY <1>2, <1>3

LEMMA SwapInCall ==
  ASSUME NoOverflow, SwapInv, NEW u \in User, NEW to \in User, NEW path \in Seq(Token),
         NEW amountOut \in Nat, NEW amountInMax, ~Revisits(path),
         swapTokensForExactTokens(u, to, path, amountOut, amountInMax)
  PROVE  SwapInv' /\ Orderly
<1> DEFINE amounts == getAmountsIn(amountOut, path)
           acceptable == amounts[1] <= amountInMax
<1>1. pairs' = pairs /\ pairs \subseteq Pair
  BY DEF swapTokensForExactTokens, SwapInv, Wide
<1>2. CASE PathThrows(path)
  <2>1. Reject(path)
    BY <1>2 DEF swapTokensForExactTokens
  <2>2. QED
    BY <1>1, <2>1, RejectedCall
<1>3. CASE ~PathThrows(path)
  <2>1. SwapWithKnownAmounts(u, to, path, amounts, acceptable)
    BY <1>3, Zenon DEF swapTokensForExactTokens
  <2>3. Len(path) \in Nat /\ Len(path) >= 2 /\ Solvent
    BY <1>3, InvBounds, PathOfPairs
  <2>4. ASSUME \A i \in 1..Len(path) : amounts[i] # Throws, ~(balances[u][path[1]] < amounts[1])
        PROVE  Fair(path, amounts)
    <3>0. path[1] \in Token
      BY <2>3
    <3>1. balances[u][path[1]] \in Nat /\ balances[u][path[1]] <= MaxSupply /\ MaxSupply \in Nat
      BY <3>0, Bounds, InvBounds
    <3>2. \A i \in 1..Len(path) : getAmountsIn(amountOut, path)[i] # Throws
      BY <2>4
    <3>3. path \in Seq(Token) /\ amountOut \in Nat /\ Solvent
      BY <2>3
    <3> DEFINE have == balances[u][path[1]]
    <3>4. have \in Nat /\ have <= MaxSupply /\ ~(have < getAmountsIn(amountOut, path)[1])
      BY <2>4, <3>1
    <3> HIDE DEF have
    <3>5. Fair(path, getAmountsIn(amountOut, path))
      BY ONLY NoOverflow, <1>3, <3>2, <3>3, <3>4, InIsFair
    <3>6. QED
      BY <3>5
  <2> HIDE DEF amounts, acceptable
  <2>5. QED
    BY <1>1, <1>3, <2>1, <2>4, KnownAmounts
<1>4. QED
  BY <1>2, <1>3

\* No path comes back to a pool.
StraightPaths == \A path \in Path : ~Revisits(path)

LEMMA InitInv == ASSUME NoOverflow, Init PROVE SwapInv
<1>1. Wide
  <2>1. \A p \in Pair : reserve[p] \in [p -> Nat]
    BY DEF Init
  <2>2. reserve \in Reserves
    BY <2>1 DEF Init, Reserves
  <2>3. /\ balances \in [User -> [Token -> Nat]]
        /\ pairs \subseteq Pair
        /\ totalSupply \in [Pair -> Nat]
        /\ lpBalances \in [Pair -> [Wallet -> Nat]]
        /\ last \in [mints : BOOLEAN, revisited : SUBSET Pair, throws : BOOLEAN]
    BY DEF Init
  <2>4. QED
    BY <2>2, <2>3 DEF Wide
<1>2. ASSUME NEW t \in Token PROVE Supply(t) <= MaxSupply
  <2> DEFINE f == [u \in User |-> balances[u][t]]
             g == [p \in PoolsOf(t) |-> reserve[p][t]]
             S == PoolsOf(t)
  <2>1. \A u \in User : f[u] = 0
    BY DEF Init
  <2>2. \A p \in S : g[p] = 0
    BY DEF Init, PoolsOf
  <2>3. Supply(t) = SumFunctionOnSet(f, User) + SumFunctionOnSet(g, S)
    BY SupplyIsSum DEF InWallets, InPools
  <2>4. IsFiniteSet(S)
    BY FinitelyMany
  <2> HIDE DEF f, g, S
  <2>5. SumFunctionOnSet(f, User) = 0
    BY <2>1, FinitelyMany, SumOfZeros
  <2>6. SumFunctionOnSet(g, S) = 0
    BY <2>2, <2>4, SumOfZeros
  <2>7. QED
    BY <2>3, <2>5, <2>6, Bounds
<1>3. ASSUME NEW p \in Pair PROVE SharesBacked(p)
  <2> DEFINE f == lpBalances[p]
  <2>1. \A w \in Wallet : f[w] = 0
    BY DEF Init
  <2>2. totalSupply[p] = 0 /\ \A t \in p : reserve[p][t] = 0
    BY DEF Init
  <2>3. Min(p) \in p /\ Max(p) \in p /\ Min(p) # Max(p)
    BY PairEnds
  <2>4. ProductIn(reserve, p) = 0
    BY <2>2, <2>3 DEF ProductIn
  <2> HIDE DEF f
  <2>5. SumFunctionOnSet(f, Wallet) = 0
    BY <2>1, FinitelyMany, SumOfZeros
  <2>6. QED
    BY <2>2, <2>4, <2>5 DEF SharesBacked, f
<1>4. QED
  BY <1>1, <1>2, <1>3 DEF SwapInv

LEMMA EveryCall ==
  ASSUME NoOverflow, StraightPaths, SwapInv, [Next]_vars
  PROVE  SwapInv' /\ Orderly
<1>1. last \in [mints : BOOLEAN, revisited : SUBSET Pair, throws : BOOLEAN] /\ pairs \subseteq Pair
  BY DEF SwapInv, Wide
<1>2. CASE UNCHANGED vars
  <2>1. UNCHANGED <<balances, pools>> /\ pairs' = pairs /\ last' = last
    BY <1>2 DEF vars
  <2>2. QED
    BY <1>1, <2>1, Unmoved
<1>3. ASSUME NEW u \in User, NEW t \in Token, NEW amount \in Funding, mintToken(u, t, amount)
      PROVE  SwapInv' /\ Orderly
  BY <1>3, SwapAssumption, MintedCall
<1>4. ASSUME NEW u \in User, NEW p \in Pair, NEW d \in Desired, NEW minimum \in Limit,
             addLiquidity(u, p, [t \in p |-> IF t = Min(p) THEN d[1] ELSE d[2]], minimum)
      PROVE  SwapInv' /\ Orderly
  <2> DEFINE desired == [t \in p |-> IF t = Min(p) THEN d[1] ELSE d[2]]
  <2>1. desired \in [p -> Nat] /\ minimum \in Nat
    BY SwapAssumption
  <2>2. addLiquidity(u, p, desired, minimum)
    BY <1>4
  <2> HIDE DEF desired
  <2>3. QED
    BY <2>1, <2>2, DepositCall
<1>5. ASSUME NEW u \in User, NEW p \in Pair, NEW liquidity \in Share, NEW minimum \in Limit,
             removeLiquidity(u, p, liquidity, minimum)
      PROVE  SwapInv' /\ Orderly
  <2>1. liquidity \in Nat /\ minimum \in Nat
    BY SwapAssumption
  <2>2. QED
    BY <1>5, <2>1, WithdrawalCall
<1>6. ASSUME NEW u \in User, NEW to \in User, NEW path \in Path, NEW amount \in Amount, NEW limit \in Limit,
             \/ swapExactTokensForTokens(u, to, path, amount, limit)
             \/ swapTokensForExactTokens(u, to, path, amount, limit)
      PROVE  SwapInv' /\ Orderly
  <2>1. path \in Seq(Token) /\ amount \in Nat /\ ~Revisits(path)
    BY SwapAssumption DEF StraightPaths
  <2>2. CASE swapExactTokensForTokens(u, to, path, amount, limit)
    BY <2>1, <2>2, SwapOutCall
  <2>3. CASE swapTokensForExactTokens(u, to, path, amount, limit)
    BY <2>1, <2>3, SwapInCall
  <2>4. QED
    BY <1>6, <2>2, <2>3
<1>7. CASE Hung
  BY <1>2, <1>7 DEF Hung
<1>8. QED
  BY <1>2, <1>3, <1>4, <1>5, <1>6, <1>7 DEF Next

LEMMA SupplyIsWhole ==
  ASSUME NoOverflow, SwapInv, NEW t \in Token
  PROVE  Supply(t) \in Nat
<1>1. \A u \in User : balances[u][t] \in Nat
  BY DEF SwapInv, Wide
<1>2. \A p \in Pair : t \in p => reserve[p][t] \in Nat
  BY DEF SwapInv, Wide, Reserves
<1>3. InWallets(balances, t) \in Nat /\ InPools(reserve, t) \in Nat
  BY <1>1, <1>2, WalletSums, PoolSums
<1>4. QED
  BY <1>3, SupplyIsSum

\* The invariant, for every number of users, tokens and calls.
LEMMA AlwaysBacked ==
  ASSUME NoOverflow, StraightPaths
  PROVE  Spec => []SwapInv /\ [][Orderly]_vars
<1>1. Init => SwapInv
  BY InitInv
<1>2. SwapInv /\ [Next]_vars => SwapInv'
  BY EveryCall
<1>3. SwapInv /\ [Next]_vars => [Orderly]_vars
  BY EveryCall
<1>4. QED
  BY <1>1, <1>2, <1>3, PTL DEF Spec

Counted == calls \in 0..MaxCalls

LEMMA CallsAreCounted == Spec => []Counted
<1>1. Init => Counted
  BY SwapAssumption DEF Init, Counted
<1>2. Counted /\ [Next]_vars => Counted'
  <2>1. SUFFICES ASSUME Counted, [Next]_vars PROVE Counted'
    OBVIOUS
  <2>2. CASE UNCHANGED vars
    BY <2>1, <2>2 DEF vars, Counted
  <2>3. CASE calls < MaxCalls /\ calls' = calls + 1
    BY <2>1, <2>3, SwapAssumption DEF Counted
  <2>4. QED
    BY <2>1, <2>2, <2>3 DEF Next, Hung
<1>3. QED
  BY <1>1, <1>2, PTL DEF Spec

\* No amount is near the width it is kept in: all of a token that exists, added
\* up over wallets and pools without reduction, and all shares of a pool.
AmountsAreSmall ==
  /\ \A t \in Token : Supply(t) <= MaxSupply
  /\ \A p \in Pair : totalSupply[p] <= MaxSupply /\ \A w \in Wallet : lpBalances[p][w] <= totalSupply[p]

\* What a wallet or a pool holds of a token is never negative and never more than
\* was minted of it, and a pool never has more shares than that.
THEOREM AmountsFit ==
  ASSUME NoOverflow, StraightPaths
  PROVE  Spec => [](TypeOK /\ AmountsAreSmall)
<1>1. ASSUME SwapInv, Counted PROVE TypeOK
  <2>1. MaxSupply \in Nat /\ Word \in Nat /\ MaxSupply < Word
    BY Bounds
  <2>2. balances \in [User -> [Token -> 0..MaxSupply]]
    <3>1. balances \in [User -> [Token -> Nat]]
      BY <1>1 DEF SwapInv, Wide
    <3>2. \A u \in User, t \in Token : balances[u][t] \in 0..MaxSupply
      BY <1>1, <2>1, InvBounds
    <3>3. QED
      BY <3>1, <3>2
  <2>3. \A p \in Pair : reserve[p] \in [p -> 0..MaxSupply]
    <3>1. SUFFICES ASSUME NEW p \in Pair PROVE reserve[p] \in [p -> 0..MaxSupply]
      OBVIOUS
    <3>2. reserve[p] \in [p -> Nat]
      BY <1>1 DEF SwapInv, Wide, Reserves
    <3>3. \A t \in p : reserve[p][t] \in 0..MaxSupply
      BY <1>1, <2>1, InvBounds
    <3>4. QED
      BY <3>2, <3>3
  <2>4. totalSupply \in [Pair -> 0..Word - 1]
    <3>1. totalSupply \in [Pair -> Nat]
      BY <1>1 DEF SwapInv, Wide
    <3>2. \A p \in Pair : totalSupply[p] \in 0..Word - 1
      BY <1>1, <2>1, ShareBounds
    <3>3. QED
      BY <3>1, <3>2
  <2>5. lpBalances \in [Pair -> [Wallet -> 0..Word - 1]]
    <3>1. lpBalances \in [Pair -> [Wallet -> Nat]]
      BY <1>1 DEF SwapInv, Wide
    <3>2. ASSUME NEW p \in Pair, NEW w \in Wallet PROVE lpBalances[p][w] \in 0..Word - 1
      <4>1. /\ totalSupply[p] \in Nat /\ totalSupply[p] <= MaxSupply
            /\ lpBalances[p][w] \in Nat /\ lpBalances[p][w] <= totalSupply[p]
        BY <1>1, ShareBounds
      <4>2. QED
        BY <2>1, <4>1
    <3>3. QED
      BY <3>1, <3>2
  <2>6. QED
    BY <1>1, <2>2, <2>3, <2>4, <2>5 DEF TypeOK, SwapInv, Wide, Counted
<1>2. ASSUME SwapInv PROVE AmountsAreSmall
  <2>1. \A p \in Pair : totalSupply[p] <= MaxSupply /\ \A w \in Wallet : lpBalances[p][w] <= totalSupply[p]
    BY <1>2, ShareBounds
  <2>2. QED
    BY <1>2, <2>1 DEF SwapInv, AmountsAreSmall
<1>3. QED
  BY <1>1, <1>2, AlwaysBacked, CallsAreCounted, PTL

\* The shares of a pool are those of its providers and the ones locked for good,
\* and no pool is drained to nothing while anybody owns a share of it.
THEOREM PoolsAreBacked ==
  ASSUME NoOverflow, StraightPaths
  PROVE  Spec => []SharesAddUp
<1>1. ASSUME SwapInv PROVE SharesAddUp
  <2>1. SUFFICES ASSUME NEW p \in Pair
                 PROVE  /\ totalSupply[p] = SumFunction(lpBalances[p])
                        /\ totalSupply[p] > 0 => /\ lpBalances[p][Burn] = MinimumLiquidity
                                                 /\ \A t \in p : reserve[p][t] > 0
    BY DEF SharesAddUp
  <2>2. DOMAIN lpBalances[p] = Wallet
    BY <1>1 DEF SwapInv, Wide
  <2>3. totalSupply[p] = SumFunction(lpBalances[p])
    BY <1>1, <2>2 DEF SumFunction, SwapInv, SharesBacked
  <2>4. totalSupply[p] > 0 => \A t \in p : reserve[p][t] > 0
    BY <1>1, ShareBounds
  <2>5. QED
    BY <1>1, <2>3, <2>4 DEF SwapInv, SharesBacked
<1>2. QED
  BY <1>1, AlwaysBacked, PTL

\* From the first deposit on, no share stands for less than a token of each kind,
\* as a geometric mean: addLiquidity mints no more, the rounding of every later
\* call is paid by its caller.
SharesAreCovered == \A p \in Pair : totalSupply[p] * totalSupply[p] <= Product(p)

\* That invariant: no share of a pool ever stands for less than a token of each kind.
THEOREM SharesStayCovered ==
  ASSUME NoOverflow, StraightPaths
  PROVE  Spec => []SharesAreCovered
<1>1. ASSUME SwapInv PROVE SharesAreCovered
  BY <1>1, ShareBounds DEF SharesAreCovered, SwapInv, SharesBacked
<1>2. QED
  BY <1>1, AlwaysBacked, PTL

\* Where no price wraps and no path comes back to a pool, a call is all or
\* nothing: it throws and has moved nothing, or nothing of what it moves is lost.
CallsAreAllOrNothing ==
  [][/\ last'.throws => UNCHANGED <<balances, pools>>
     /\ last'.mints \/ \A t \in Token : Supply(t)' = Supply(t)]_vars

\* Nothing but mintToken makes tokens, over wallets and pools together, and a call
\* that returns loses none.
THEOREM NothingIsLost ==
  ASSUME NoOverflow, StraightPaths
  PROVE  Spec => TokensAreConserved
<1>1. ASSUME SwapInv, [Orderly]_vars
      PROVE  [\/ last'.mints
              \/ \A t \in Token : Gone(t) = 0
              \/ /\ last'.throws
                 /\ \E t \in Token : Gone(t) > 0 /\ \A s \in Token \ {t} : Gone(s) = 0]_vars
  <2>1. \A t \in Token : Supply(t) \in Int
    BY <1>1, SupplyIsWhole
  <2>2. QED
    BY <1>1, <2>1 DEF Orderly, Gone
<1>2. QED
  BY <1>1, AlwaysBacked, PTL DEF TokensAreConserved

\* A call that throws has moved nothing, with nothing to roll it back: every check
\* comes before the first change, and no hop of a swap can fail.
THEOREM NoCallFailsHalfWay ==
  ASSUME NoOverflow, StraightPaths
  PROVE  Spec => FailedCallsMoveNothing /\ CallsAreAllOrNothing
<1>1. [Orderly]_vars =>
        [last'.throws =>
           \/ UNCHANGED <<balances, pools>>
           \/ /\ UNCHANGED <<totalSupply, lpBalances>>
              /\ \E t \in Token : Gone(t) > 0 /\ (last'.revisited # {} \/ PriceWrapped(t))]_vars
  BY DEF Orderly
<1>2. [Orderly]_vars => [/\ last'.throws => UNCHANGED <<balances, pools>>
                         /\ last'.mints \/ \A t \in Token : Supply(t)' = Supply(t)]_vars
  BY DEF Orderly
<1>3. QED
  BY <1>1, <1>2, AlwaysBacked, PTL DEF FailedCallsMoveNothing, CallsAreAllOrNothing

\* What stands behind a share of a pool never falls, at deposits, withdrawals and
\* swaps in both directions.
THEOREM SharesKeepTheirValue ==
  ASSUME NoOverflow, StraightPaths
  PROVE  Spec => ShareKeepsItsValue /\ [][\A p \in Pair : ValueKept(p)]_vars
<1>1. [Orderly]_vars => [\A p \in Pair : ValueKept(p)]_vars
  BY DEF Orderly
<1>2. [Orderly]_vars => [\A p \in Pair : \/ ValueKept(p)
                                         \/ Overflows(p)
                                         \/ p \in last'.revisited]_vars
  BY DEF Orderly
<1>3. QED
  BY <1>1, <1>2, AlwaysBacked, PTL DEF ShareKeepsItsValue

\* The first deposit of a pool makes as many shares as the root of the product of
\* what it brings, the locked ones among them.
THEOREM FirstSharesAreTheRoot ==
  ASSUME NoOverflow, StraightPaths
  PROVE  Spec => FirstMintIsTheRoot
<1>1. [Orderly]_vars =>
        [\A p \in Pair :
           totalSupply[p] = 0 /\ totalSupply'[p] > 0 =>
             LET value == U(Product(p)')
             IN /\ totalSupply'[p] * totalSupply'[p] <= value
                /\ value < (totalSupply'[p] + 1) * (totalSupply'[p] + 1)]_vars
  BY DEF Orderly, FirstMint
<1>2. QED
  BY <1>1, AlwaysBacked, PTL DEF FirstMintIsTheRoot
=============================================================================
