------------------------------ MODULE VibeSwap ------------------------------
(***************************************************************************)
(* The in-memory exchange (vibemarket/VibeSwap.cpp): wallets, one          *)
(* constant-product pool for every two tokens, shares in each pool.  Calls *)
(* come one at a time; a call returns or throws, and what it changed       *)
(* before it threw stays changed: nothing is rolled back.                  *)
(*                                                                         *)
(* Amounts are u256: results are taken modulo 2^Bits (Bits is 256).  A     *)
(* pair is the set of its two tokens, which is what sortTokens makes of    *)
(* them; the smaller one is token0.                                        *)
(***************************************************************************)
EXTENDS Integers, Sequences, FiniteSets, FiniteSetsExt, SequencesExt

CONSTANTS User, Token,
          Burn,                            (* the zero address: nobody's, so never a caller *)
          FeeNumerator, FeeDenominator, MinimumLiquidity, Bits,
          Funding, Desired, Share, Amount, Limit, Path,  (* what the calls are made with *)
          MaxSupply, MaxCalls,             (* bounds: supply of a token, calls *)
          None

\* Doubling, n times.
pow2[n \in Nat] == IF n = 0 THEN 1 ELSE 2 * pow2[n - 1]

ASSUME SwapAssumption ==
  /\ Token \subseteq Int /\ IsFiniteSet(Token) /\ IsFiniteSet(User) /\ Burn \notin User
  /\ FeeNumerator \in Nat \ {0} /\ FeeDenominator \in Nat /\ FeeNumerator <= FeeDenominator
  /\ MinimumLiquidity \in Nat \ {0}
  /\ Bits \in Nat \ {0} /\ Bits % 2 = 0
  /\ MaxSupply \in Nat /\ MaxSupply < pow2[Bits] /\ MaxCalls \in Nat
  /\ Funding \subseteq Nat /\ Desired \subseteq Nat \X Nat /\ Share \subseteq Nat
  /\ Amount \subseteq Nat /\ Limit \subseteq Nat
  /\ Path \subseteq Seq(Token)

Pair == {p \in SUBSET Token : Cardinality(p) = 2}

VARIABLES
  balances,     (* balances_: of every wallet, of every token *)
  pairs,        (* the keys of pairs_ *)
  reserve,      (* Pair::reserve0 and reserve1, by token *)
  totalSupply,  (* Pair::totalSupply *)
  lpBalances,   (* Pair::lpBalances *)
  last,         (* history: how the last call ended *)
  calls,        (* history: number of calls *)
  hung          (* the two amounts of a deposit that never returns, or None *)

pools == <<reserve, totalSupply, lpBalances>>
vars == <<balances, pairs, pools, last, calls, hung>>

Wallet == User \cup {Burn}
Throws == -1

Init ==
  /\ balances = [u \in User |-> [t \in Token |-> 0]]
  /\ pairs = {}
  /\ reserve = [p \in Pair |-> [t \in p |-> 0]]
  /\ totalSupply = [p \in Pair |-> 0]
  /\ lpBalances = [p \in Pair |-> [w \in Wallet |-> 0]]
  /\ last = [mints |-> FALSE, revisited |-> {}, throws |-> FALSE] /\ calls = 0
  /\ hung = None

HopPair(path, i) == {path[i], path[i + 1]}

\* The pairs a path comes back to: their second price is of reserves that the
\* first hop will have changed.
Revisited(path) ==
  {p \in Pair : \E i, j \in 1..Len(path) - 1 : i < j /\ HopPair(path, i) = p /\ HopPair(path, j) = p}

Ends(path, throws) ==
  last' = [mints |-> FALSE, revisited |-> Revisited(path), throws |-> throws]

\* A call that throws before it has moved anything.
Reject(path) == Ends(path, TRUE) /\ UNCHANGED <<balances, pools, hung>>

Word == pow2[Bits]
U(n) == n % Word
-----------------------------------------------------------------------------
(***************************************************************************)
(* Arithmetic                                                              *)
(***************************************************************************)
\* Faulty variant: the square is computed in half the width.
StopsNarrow(k, value) == U(pow2[k]) * U(pow2[k]) % pow2[Bits \div 2] > value

\* The doubling loop of integerSqrt stops at the first power of two whose
\* square exceeds the value; squares and powers wrap.
Stops(k, value) == U(U(pow2[k]) * U(pow2[k])) > value

\* Faulty variant: a root that is exact is passed by.
HalvePassing(value, b) ==
  LET mid == (b.low + b.high) \div 2
  IN IF mid * mid < value THEN [b EXCEPT !.low = mid] ELSE [b EXCEPT !.high = mid]

\* One round of the bisection, which keeps low^2 <= value < high^2.
Halve(value, b) ==
  LET mid == (b.low + b.high) \div 2
  IN IF mid * mid <= value THEN [b EXCEPT !.low = mid] ELSE [b EXCEPT !.high = mid]

\* integerSqrt where it ends.
Root(value) ==
  LET search[b \in [low : 0..value, high : 0..2 * value + 1]] ==
        IF b.low + 1 >= b.high THEN b.low ELSE search[Halve(value, b)]
  IN search[[low |-> 0, high |-> 2 * value + 1]]

quote(amountA, reserveA, reserveB) == U(amountA * reserveB) \div reserveA

getAmountOut(amountIn, reserveIn, reserveOut) ==
  LET withFee == U(amountIn * FeeNumerator)
      denominator == U(U(reserveIn * FeeDenominator) + withFee)
  IN IF amountIn <= 0 \/ reserveIn = 0 \/ reserveOut = 0 \/ denominator = 0
     THEN Throws
     ELSE U(withFee * reserveOut) \div denominator

\* Faulty variant: the quotient is not rounded up.
AmountInRoundedDown(amountOut, reserveIn, reserveOut) ==
  IF amountOut <= 0 \/ reserveIn = 0 \/ amountOut >= reserveOut
  THEN Throws
  ELSE U(U(reserveIn * amountOut) * FeeDenominator)
         \div ((reserveOut - amountOut) * FeeNumerator)

getAmountIn(amountOut, reserveIn, reserveOut) ==
  LET denominator == U((reserveOut - amountOut) * FeeNumerator)
  IN IF amountOut <= 0 \/ reserveIn = 0 \/ amountOut >= reserveOut \/ denominator = 0
     THEN Throws
     ELSE U(U(U(reserveIn * amountOut) * FeeDenominator) \div denominator + 1)

\* getPairChecked and sortTokens, for every hop of the path.
PathThrows(path) ==
  Len(path) < 2 \/ \E i \in 1..Len(path) - 1 : HopPair(path, i) \notin pairs

\* Both use the reserves as they are before the first hop.
getAmountsOut(amountIn, path) ==
  LET amounts[i \in 1..Len(path)] ==
        IF i = 1 THEN amountIn
        ELSE LET r == reserve[HopPair(path, i - 1)]
             IN getAmountOut(amounts[i - 1], r[path[i - 1]], r[path[i]])
  IN amounts

getAmountsIn(amountOut, path) ==
  LET amounts[i \in 1..Len(path)] ==
        IF i = Len(path) THEN amountOut
        ELSE LET r == reserve[HopPair(path, i)]
             IN getAmountIn(amounts[i + 1], r[path[i]], r[path[i + 1]])
  IN amounts
-----------------------------------------------------------------------------
(***************************************************************************)
(* Calls                                                                   *)
(***************************************************************************)
Supply(t) ==
  SumFunction([u \in User |-> balances[u][t]])
    + SumFunction([p \in {q \in Pair : t \in q} |-> reserve[p][t]])

mintToken(u, t, amount) ==
  /\ Supply(t) + amount <= MaxSupply
  /\ balances' = [balances EXCEPT ![u][t] = U(@ + amount)]
  /\ last' = [mints |-> TRUE, revisited |-> {}, throws |-> FALSE]
  /\ UNCHANGED <<pairs, pools, hung>>

\* What a deposit takes, which of it is compared with the caller's minimum, and
\* what it mints.
FirstDeposit(desired, p) ==
  LET root == Root(U(desired[Min(p)] * desired[Max(p)]))
  IN [taken |-> desired, checked |-> p,
      liquidity |-> IF root <= MinimumLiquidity THEN 0 ELSE root - MinimumLiquidity]

ProportionalShare(taken, p) == Min({U(taken[t] * totalSupply[p]) \div reserve[p][t] : t \in p})

\* The optimal amount of token1 is tried first.
FurtherDeposit(desired, p) ==
  LET t0 == Min(p)  t1 == Max(p)
      optimal1 == quote(desired[t0], reserve[p][t0], reserve[p][t1])
      optimal0 == quote(desired[t1], reserve[p][t1], reserve[p][t0])
      t == IF optimal1 <= desired[t1] THEN t1 ELSE t0
      taken == [desired EXCEPT ![t] = IF t = t1 THEN optimal1 ELSE optimal0]
  IN [taken |-> taken, checked |-> {t}, liquidity |-> ProportionalShare(taken, p)]

\* Faulty variant: what is locked is not counted in the supply.
NewSupply(liquidity, locked, p) == [totalSupply EXCEPT ![p] = U(@ + liquidity)]

Mint(liquidity, locked, p) == [totalSupply EXCEPT ![p] = U(@ + liquidity + locked)]

\* The first deposit locks MinimumLiquidity at the burn address.
MoveIn(u, p, deposit) ==
  LET locked == IF totalSupply[p] = 0 THEN MinimumLiquidity ELSE 0
  IN /\ balances' = [balances EXCEPT ![u] = [t \in Token |-> IF t \in p THEN @[t] - deposit.taken[t] ELSE @[t]]]
     /\ reserve' = [reserve EXCEPT ![p] = [t \in p |-> U(@[t] + deposit.taken[t])]]
     /\ totalSupply' = Mint(deposit.liquidity, locked, p)
     /\ lpBalances' = [lpBalances EXCEPT ![p][u] = U(@ + deposit.liquidity),
                                         ![p][Burn] = U(@ + locked)]

\* Faulty variant: the balances are not checked.
CanPayAnything(u, p, taken) == TRUE

\* ensureBalance for both tokens, before either is debited.
CanPay(u, p, taken) == \A t \in p : balances[u][t] >= taken[t]

\* The pair is created before the amounts are looked at, and stays when the call
\* then throws.
addLiquidity(u, p, desired, minimum) ==
  LET isFirstMint == totalSupply[p] = 0
      deposit == IF isFirstMint THEN FirstDeposit(desired, p) ELSE FurtherDeposit(desired, p)
      value == U(desired[Min(p)] * desired[Max(p)])
      hangs == isFirstMint /\ \A k \in 0..Bits : ~Stops(k, value)
      tooLittle == \E t \in deposit.checked : deposit.taken[t] < minimum
      done == ~tooLittle /\ ~hangs /\ deposit.liquidity > 0 /\ CanPay(u, p, deposit.taken)
  IN IF \E t \in p : desired[t] = 0
     THEN Reject(<<>>) /\ UNCHANGED pairs
     ELSE /\ pairs' = pairs \cup {p}
          /\ \/ /\ done
                /\ MoveIn(u, p, deposit)
                /\ Ends(<<>>, FALSE)
                /\ UNCHANGED hung
             \/ /\ ~tooLittle /\ hangs
                /\ hung' = <<desired[Min(p)], desired[Max(p)]>>
                /\ UNCHANGED <<balances, pools, last>>
             \/ ~done /\ (tooLittle \/ ~hangs) /\ Reject(<<>>)

\* What a share of the pool is worth.
Withdrawal(liquidity, p) ==
  [t \in p |-> U(liquidity * reserve[p][t]) \div totalSupply[p]]

removeLiquidity(u, p, liquidity, minimum) ==
  LET amount == Withdrawal(liquidity, p)
      done == /\ totalSupply[p] > 0 /\ liquidity > 0 /\ lpBalances[p][u] >= liquidity
              /\ \A t \in p : amount[t] > 0 /\ amount[t] >= minimum
  IN /\ \/ /\ done
           /\ reserve' = [reserve EXCEPT ![p] = [t \in p |-> @[t] - amount[t]]]
           /\ totalSupply' = [totalSupply EXCEPT ![p] = @ - liquidity]
           /\ lpBalances' = [lpBalances EXCEPT ![p][u] = @ - liquidity]
           /\ balances' = [balances EXCEPT ![u] = [t \in Token |-> IF t \in p THEN U(@[t] + amount[t]) ELSE @[t]]]
           /\ Ends(<<>>, FALSE)
           /\ UNCHANGED hung
        \/ ~done /\ Reject(<<>>)
     /\ UNCHANGED pairs

\* Faulty variant: the trader is not debited.
NotDebited(u, t, amount) == balances

Debited(u, t, amount) == [balances EXCEPT ![u][t] = @ - amount]

\* One hop, unless an earlier one threw: the one amount comes into the pool, the
\* other one leaves it.
Hop(state, path, amounts, i) ==
  LET p == HopPair(path, i)
  IN IF state.throws \/ amounts[i + 1] >= state.reserve[p][path[i + 1]]
     THEN [state EXCEPT !.throws = TRUE]
     ELSE [reserve |-> [state.reserve EXCEPT ![p][path[i]] = U(@ + amounts[i]),
                                             ![p][path[i + 1]] = @ - amounts[i + 1]],
           throws |-> FALSE]

\* The reserves after the hops, and whether a hop threw: those before it stay.
AfterHops(path, amounts) ==
  LET after[i \in 1..Len(path)] ==
        IF i = 1 THEN [reserve |-> reserve, throws |-> FALSE]
        ELSE Hop(after[i - 1], path, amounts, i - 1)
  IN after[Len(path)]

\* Faulty variant: the caller's limit is looked at after the hops.
SwapCheckedLate(u, to, path, amounts, acceptable) ==
  LET after == AfterHops(path, amounts)
      fails == after.throws \/ ~acceptable
      paid == Debited(u, path[1], amounts[1])
  IN IF \/ \E i \in 1..Len(path) : amounts[i] = Throws
        \/ balances[u][path[1]] < amounts[1]
     THEN Reject(path)
     ELSE /\ reserve' = after.reserve
          /\ balances' = IF fails THEN paid
                         ELSE [paid EXCEPT ![to][path[Len(path)]] = U(@ + amounts[Len(path)])]
          /\ Ends(path, fails)
          /\ UNCHANGED <<totalSupply, lpBalances, hung>>

\* swapWithKnownAmounts, behind the caller's limit: the trader pays, the pools
\* move hop by hop, the receiver is credited if no hop threw.
SwapWithKnownAmounts(u, to, path, amounts, acceptable) ==
  LET after == AfterHops(path, amounts)
      paid == Debited(u, path[1], amounts[1])
  IN IF \/ \E i \in 1..Len(path) : amounts[i] = Throws
        \/ ~acceptable
        \/ balances[u][path[1]] < amounts[1]
     THEN Reject(path)
     ELSE /\ reserve' = after.reserve
          /\ balances' = IF after.throws THEN paid
                         ELSE [paid EXCEPT ![to][path[Len(path)]] = U(@ + amounts[Len(path)])]
          /\ Ends(path, after.throws)
          /\ UNCHANGED <<totalSupply, lpBalances, hung>>

swapExactTokensForTokens(u, to, path, amountIn, amountOutMin) ==
  /\ IF PathThrows(path) THEN Reject(path)
     ELSE LET amounts == getAmountsOut(amountIn, path)
          IN SwapWithKnownAmounts(u, to, path, amounts, amounts[Len(path)] >= amountOutMin)
  /\ UNCHANGED pairs

swapTokensForExactTokens(u, to, path, amountOut, amountInMax) ==
  /\ IF PathThrows(path) THEN Reject(path)
     ELSE LET amounts == getAmountsIn(amountOut, path)
          IN SwapWithKnownAmounts(u, to, path, amounts, amounts[1] <= amountInMax)
  /\ UNCHANGED pairs

\* A call that hangs is the last one.
Hung == hung # None /\ UNCHANGED vars

Next ==
  \/ Hung
  \/ /\ hung = None /\ calls < MaxCalls /\ calls' = calls + 1
     /\ \E u \in User :
          \/ \E t \in Token, amount \in Funding : mintToken(u, t, amount)
          \/ \E p \in Pair, d \in Desired, minimum \in Limit :
               addLiquidity(u, p, [t \in p |-> IF t = Min(p) THEN d[1] ELSE d[2]], minimum)
          \/ \E p \in Pair, liquidity \in Share, minimum \in Limit :
               removeLiquidity(u, p, liquidity, minimum)
          \/ \E to \in User, path \in Path, amount \in Amount, limit \in Limit :
               \/ swapExactTokensForTokens(u, to, path, amount, limit)
               \/ swapTokensForExactTokens(u, to, path, amount, limit)

Spec == Init /\ [][Next]_vars
-----------------------------------------------------------------------------
\* The tokens in a wallet or a pool are within what exists of them.
TypeOK ==
  /\ balances \in [User -> [Token -> 0..MaxSupply]]
  /\ pairs \subseteq Pair
  /\ \A p \in Pair : reserve[p] \in [p -> 0..MaxSupply]
  /\ totalSupply \in [Pair -> 0..Word - 1]
  /\ lpBalances \in [Pair -> [Wallet -> 0..Word - 1]]
  /\ last \in [mints : BOOLEAN, revisited : SUBSET Pair, throws : BOOLEAN]
  /\ calls \in 0..MaxCalls

\* What a step takes out of wallets and pools together.
Gone(t) == Supply(t) - Supply(t)'

\* VibeSwap.cpp, all calls: nothing but mintToken makes tokens, and a call that
\* returns loses none.  A call that throws loses at most what was on its way into
\* one pool: some of one token.
TokensAreConserved ==
  [][\/ last'.mints
     \/ \A t \in Token : Gone(t) = 0
     \/ /\ last'.throws
        /\ \E t \in Token : Gone(t) > 0 /\ \A s \in Token \ {t} : Gone(s) = 0]_vars

\* getAmountOut: the denominator of a hop that takes in what is gone of t would
\* reach 2^Bits, so that it wrapped and the price may ask for more than there is.
PriceWrapped(t) ==
  \E p \in pairs : t \in p /\ reserve[p][t] * FeeDenominator + Gone(t) * FeeNumerator >= Word

\* A call that throws has moved nothing: there is no rollback, so every check has
\* to come before the first change.  The one check that comes after it, of a hop
\* against its pool, fails for two kinds of swap only: one that comes back to a
\* pair, and one that pays into a pool whose price wrapped.  Even these leave all
\* shares alone.
FailedCallsMoveNothing ==
  [][last'.throws =>
       \/ UNCHANGED <<balances, pools>>
       \/ /\ UNCHANGED <<totalSupply, lpBalances>>
          /\ \E t \in Token : Gone(t) > 0 /\ (last'.revisited # {} \/ PriceWrapped(t))]_vars

Product(p) == reserve[p][Min(p)] * reserve[p][Max(p)]

\* Some product of the step may have reached 2^Bits.
Overflows(p) ==
  \E t \in p : \E s \in p \ {t} :
    LET r == Max({reserve[p][t], reserve'[p][t]})
    IN r * FeeDenominator * Max({reserve[p][s], totalSupply'[p]}) >= Word

\* The reserves that stand behind one share, as a geometric mean, do not fall.
ValueKept(p) ==
  Product(p)' * totalSupply[p] * totalSupply[p] >= Product(p) * totalSupply'[p] * totalSupply'[p]

\* VibeSwap.h: "This preserves x*y=k after fees are applied."  What stands behind a
\* share never falls: rounding always favours those who stay, at deposits,
\* withdrawals and swaps in both directions.  It may fall in a pool that a path
\* comes back to, and in one whose products wrap.
ShareKeepsItsValue ==
  [][\A p \in Pair :
       \/ ValueKept(p)
       \/ Overflows(p)
       \/ p \in last'.revisited]_vars

\* VibeSwap.h: "the first mint locks MINIMUM_LIQUIDITY to the burn address".  The
\* shares of a pool are exactly those of its providers and the locked ones, so
\* the pool can never be drained to nothing while anybody owns a share.
SharesAddUp ==
  \A p \in Pair :
    /\ totalSupply[p] = SumFunction(lpBalances[p])
    /\ totalSupply[p] > 0 => lpBalances[p][Burn] = MinimumLiquidity /\ \A t \in p : reserve[p][t] > 0

\* VibeSwap.h: "initial mint uses sqrt(amountA*amountB)".
FirstMintIsTheRoot ==
  [][\A p \in Pair :
       totalSupply[p] = 0 /\ totalSupply'[p] > 0 =>
         LET value == U(Product(p)')
         IN /\ totalSupply'[p] * totalSupply'[p] <= value
            /\ value < (totalSupply'[p] + 1) * (totalSupply'[p] + 1)]_vars

\* integerSqrt: the doubling loop ends for every value it can be given, unless
\* the value is in the upper three quarters of the 256 bits, whose root's next
\* power of two has a square that wraps to zero.
OnlyHugeDepositsHang == hung # None => 4 * hung[1] * hung[2] >= Word
=============================================================================
