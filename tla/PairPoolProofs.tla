--------------------------- MODULE PairPoolProofs ---------------------------
(***************************************************************************)
(* Proofs about PairPool for every value of its constants: the balance is  *)
(* exactly accounted for, a funded pool is never drained, the first        *)
(* deposit's lock stays, and the worth of a share never falls.             *)
(***************************************************************************)
EXTENDS PairPool, TLAPS

-----------------------------------------------------------------------------
(* Divisions. *)

\* A ceiling is between its quotient and the next unit (ceil_div_u256).
LEMMA CeilDivBounds ==
  ASSUME NEW n \in Nat, NEW d \in Nat \ {0}
  PROVE  /\ CeilDiv(n, d) \in Nat
         /\ CeilDiv(n, d) * d >= n
         /\ CeilDiv(n, d) * d < n + d
  BY DEF CeilDiv

\* A product of larger factors is larger.
LEMMA ProductGrows ==
  ASSUME NEW a \in Nat, NEW b \in Nat, NEW c \in Nat, NEW d \in Nat, a >= b, c >= d
  PROVE  a * c >= b * d
  OBVIOUS

\* A floor is at most its quotient (withdrawals, shares).
LEMMA PortionBounds ==
  ASSUME NEW a \in Nat, NEW s \in Nat, NEW r \in Nat \ {0}
  PROVE  Portion(a, s, r) \in Nat /\ Portion(a, s, r) * r <= a * s
<1> DEFINE n == a * s
<1>1. n \in Nat
  OBVIOUS
<1>2. n \div r \in Nat /\ (n \div r) * r <= n
  BY <1>1
<1> QED
  BY <1>2 DEF Portion

\* A share of a whole is no more than the whole.
LEMMA PortionWithin ==
  ASSUME NEW a \in Nat, NEW r \in Nat, NEW s \in Nat \ {0}, a <= s
  PROVE  Portion(a, r, s) <= r
<1> DEFINE p == Portion(a, r, s)
<1>1. p \in Nat /\ p * s <= a * r
  BY PortionBounds
<1>2. a * r <= s * r
  BY ProductGrows
<1> HIDE DEF p
<1>3. p <= r
  <2>1. SUFFICES ASSUME p >= r + 1 PROVE FALSE
    BY <1>1
  <2>2. p * s >= (r + 1) * s
    BY <1>1, <2>1, ProductGrows
  <2>3. (r + 1) * s = r * s + s
    OBVIOUS
  <2>4. s * r = r * s /\ s * r \in Nat /\ a * r \in Nat /\ p * s \in Nat
    BY <1>1
  <2> QED
    BY <1>1, <1>2, <2>2, <2>3, <2>4
<1> QED
  BY <1>3 DEF p

\* A part of the supply takes a part of the reserve, less than all of it.
LEMMA PortionLeavesSome ==
  ASSUME NEW a \in Nat, NEW r \in Nat \ {0}, NEW s \in Nat \ {0}, a < s
  PROVE  Portion(a, r, s) < r
<1> DEFINE p == Portion(a, r, s)
<1>1. p \in Nat /\ p * s <= a * r
  BY PortionBounds
<1>2. (a + 1) * r <= s * r
  BY ProductGrows
<1>3. (a + 1) * r = a * r + r
  OBVIOUS
<1> HIDE DEF p
<1>4. p < r
  <2>1. SUFFICES ASSUME p >= r PROVE FALSE
    BY <1>1
  <2>2. p * s >= r * s
    BY <1>1, <2>1, ProductGrows
  <2>3. s * r = r * s /\ s * r \in Nat /\ a * r \in Nat /\ p * s \in Nat
    BY <1>1
  <2> QED
    BY <1>1, <1>2, <1>3, <2>2, <2>3
<1> QED
  BY <1>4 DEF p

\* What a swap takes out leaves something, and the product of the reserves grows.
LEMMA SwapKeepsProduct ==
  ASSUME NEW rin \in Nat \ {0}, NEW rout \in Nat \ {0}, NEW x \in Nat
  PROVE  /\ GrossOut(rin, rout, x) \in 0 .. rout - 1
         /\ (rin + x) * (rout - GrossOut(rin, rout, x)) >= rin * rout
<1> DEFINE c == CeilDiv(rin * rout, rin + x)
<1>1. rin * rout \in Nat \ {0} /\ rin + x \in Nat \ {0}
  OBVIOUS
<1>2. c \in Nat /\ c * (rin + x) >= rin * rout /\ c * (rin + x) < rin * rout + (rin + x)
  BY <1>1, CeilDivBounds
<1>3. rin * rout <= (rin + x) * rout
  BY ProductGrows
<1>4. GrossOut(rin, rout, x) = rout - c
  BY DEF GrossOut
<1> HIDE DEF c
<1>5. c > 0
  <2>1. SUFFICES ASSUME c = 0 PROVE FALSE
    BY <1>2
  <2>2. c * (rin + x) = 0
    BY <2>1
  <2> QED
    BY <1>1, <1>2, <2>2
<1>6. c <= rout
  <2>1. SUFFICES ASSUME c >= rout + 1 PROVE FALSE
    BY <1>2
  <2>2. c * (rin + x) >= (rout + 1) * (rin + x)
    BY <1>1, <1>2, <2>1, ProductGrows
  <2>3. (rout + 1) * (rin + x) = (rin + x) * rout + (rin + x)
    OBVIOUS
  <2>4. c * (rin + x) \in Nat /\ (rin + x) * rout \in Nat
    BY <1>2
  <2> QED
    BY <1>1, <1>2, <1>3, <2>2, <2>3, <2>4
<1>7. rout - (rout - c) = c
  BY <1>2
<1>8. (rin + x) * c = c * (rin + x)
  BY <1>2
<1> QED
  BY <1>2, <1>4, <1>5, <1>6, <1>7, <1>8

-----------------------------------------------------------------------------
(* The inductive invariant. *)

\* Before the first deposit, and only then, there is nothing at all.
FirstDeposit ==
  supply = 0 => reserves[1] = 0 /\ reserves[2] = 0 /\ minted = 0

IInv == TypeOK /\ Accounted /\ NeverDrained /\ LockedForever /\ FirstDeposit

\* The settings are of the instance and the history of the oracle is no matter here.
Pot == <<reserves, balance, escrow, gifts>>
Held == <<supply, minted, lp>>

LEMMA InitIInv == Init => IInv
<1> SUFFICES ASSUME Init PROVE IInv
  OBVIOUS
<1>1. /\ reserves = <<0, 0>> /\ balance = <<0, 0>> /\ escrow = <<0, 0>> /\ gifts = <<0, 0>>
      /\ supply = 0 /\ minted = 0 /\ lp = [h \in Holders |-> 0] /\ fee \in FeeRates /\ shut = FALSE
  BY DEF Init, Twap!Init
<1>2. TypeOK
  <2>1. <<0, 0>> \in [Tokens -> Nat]
    BY DEF Tokens
  <2>2. [h \in Holders |-> 0] \in [Holders -> Nat]
    OBVIOUS
  <2> QED
    BY <1>1, <2>1, <2>2 DEF TypeOK
<1>3. Accounted
  BY <1>1 DEF Accounted, Tokens
<1> QED
  BY <1>1, <1>2, <1>3 DEF IInv, NeverDrained, LockedForever, FirstDeposit

\* A deposit adds to reserves and balance alike, never less than the first lock.
LEMMA ProvideStep ==
  ASSUME IInv, NEW h \in Holders, NEW d \in Deposits, NEW tol, ProvideLiquidity(h, d, tol)
  PROVE  IInv'
<1> USE PoolAssumption
<1>1. d[1] \in Nat /\ d[2] \in Nat
  OBVIOUS
<1>2. d[1] > 0 /\ d[2] > 0 /\ Shares(d) > Locked
  BY DEF ProvideLiquidity
<1>3. /\ reserves' = <<reserves[1] + d[1], reserves[2] + d[2]>>
      /\ balance' = <<balance[1] + d[1], balance[2] + d[2]>>
      /\ UNCHANGED <<escrow, gifts>> /\ UNCHANGED settings
  BY DEF ProvideLiquidity
<1>4. /\ supply' = supply + Shares(d)
      /\ minted' = minted + (Shares(d) - Locked)
      /\ lp' = [lp EXCEPT ![h] = @ + (Shares(d) - Locked)]
  BY DEF ProvideLiquidity
<1>5. TypeOK
  BY DEF IInv
<1>6. /\ reserves[1] \in Nat /\ reserves[2] \in Nat /\ balance[1] \in Nat /\ balance[2] \in Nat
      /\ supply \in Nat /\ minted \in Nat /\ lp \in [Holders -> Nat]
  BY <1>5 DEF TypeOK, Tokens
<1>7. Shares(d) \in Nat
  <2>1. CASE Bootstrap
    BY <2>1 DEF ProvideLiquidity, DepositSane, Shares
  <2>2. CASE ~Bootstrap
    <3>1. supply > 0
      BY <1>6, <2>2 DEF IInv, FirstDeposit, Bootstrap
    <3>2. reserves[1] \in Nat \ {0} /\ reserves[2] \in Nat \ {0}
      BY <1>6, <3>1 DEF IInv, NeverDrained
    <3>3. Portion(d[1], supply, reserves[1]) \in Nat
      BY <1>1, <1>6, <3>2, PortionBounds
    <3>4. Portion(d[2], supply, reserves[2]) \in Nat
      BY <1>1, <1>6, <3>2, PortionBounds
    <3> QED
      BY <2>2, <3>3, <3>4 DEF Shares, Smaller
  <2> QED
    BY <2>1, <2>2
<1>8. Locked \in Nat /\ (Bootstrap => Locked = MINIMUM_LIQUIDITY) /\ (~Bootstrap => Locked = 0)
  BY DEF Locked
<1> HIDE DEF Shares, Locked
<1>9. TypeOK'
  <2>1. reserves' \in [Tokens -> Nat] /\ balance' \in [Tokens -> Nat]
    BY <1>1, <1>3, <1>6 DEF Tokens
  <2>2. supply' \in Nat /\ minted' \in Nat
    BY <1>2, <1>4, <1>6, <1>7, <1>8
  <2>3. Shares(d) - Locked \in Nat
    BY <1>2, <1>7, <1>8
  <2>4. lp' \in [Holders -> Nat]
    BY <1>4, <1>6, <2>3
  <2> QED
    BY <1>3, <1>5, <2>1, <2>2, <2>4 DEF TypeOK, settings
<1>10. Accounted'
  <2>1. Accounted /\ escrow \in [Tokens -> Nat] /\ gifts \in [Tokens -> Nat]
    BY <1>5 DEF IInv, TypeOK
  <2> QED
    BY <1>1, <1>3, <1>6, <2>1 DEF Accounted, Tokens
<1>11. NeverDrained' /\ supply' > 0
  BY <1>1, <1>2, <1>3, <1>4, <1>6, <1>7, <1>8 DEF NeverDrained
<1>12. LockedForever'
  <2>1. CASE Bootstrap
    <3>1. supply = 0
      BY <1>6, <2>1 DEF IInv, NeverDrained, Bootstrap
    <3>2. minted = 0
      BY <3>1 DEF IInv, FirstDeposit
    <3> QED
      BY <1>4, <1>7, <1>8, <2>1, <3>1, <3>2 DEF LockedForever
  <2>2. CASE ~Bootstrap
    <3>1. supply > 0
      BY <1>6, <2>2 DEF IInv, FirstDeposit, Bootstrap
    <3>2. minted + MINIMUM_LIQUIDITY <= supply
      BY <3>1 DEF IInv, LockedForever
    <3> QED
      BY <1>4, <1>6, <1>7, <1>8, <2>2, <3>2 DEF LockedForever
  <2> QED
    BY <2>1, <2>2
<1> QED
  BY <1>9, <1>10, <1>11, <1>12 DEF IInv, FirstDeposit

\* A withdrawal takes a part of each reserve that is less than all of it.
LEMMA WithdrawStep ==
  ASSUME IInv, NEW h \in Holders, NEW a \in 1 .. lp[h], NEW min, WithdrawLiquidity(h, a, min)
  PROVE  IInv'
<1> USE PoolAssumption
<1>1. /\ reserves' = <<reserves[1] - Payout(1, a), reserves[2] - Payout(2, a)>>
      /\ balance' = <<balance[1] - Payout(1, a), balance[2] - Payout(2, a)>>
      /\ UNCHANGED <<escrow, gifts>> /\ UNCHANGED settings
  BY DEF WithdrawLiquidity
<1>2. supply' = supply - a /\ minted' = minted - a /\ lp' = [lp EXCEPT ![h] = @ - a]
  BY DEF WithdrawLiquidity
<1>3. a <= minted /\ supply > 0 /\ a <= supply
  BY DEF WithdrawLiquidity
<1>4. TypeOK
  BY DEF IInv
<1>5. /\ reserves[1] \in Nat /\ reserves[2] \in Nat /\ balance[1] \in Nat /\ balance[2] \in Nat
      /\ escrow[1] \in Nat /\ escrow[2] \in Nat /\ gifts[1] \in Nat /\ gifts[2] \in Nat
      /\ supply \in Nat /\ minted \in Nat /\ lp \in [Holders -> Nat]
  BY <1>4 DEF TypeOK, Tokens
<1>6. lp[h] \in Nat /\ a \in Nat /\ a > 0 /\ a <= lp[h]
  BY <1>5
<1>7. minted + MINIMUM_LIQUIDITY <= supply /\ reserves[1] > 0 /\ reserves[2] > 0
  BY <1>3 DEF IInv, LockedForever, NeverDrained
<1>8. a < supply
  BY <1>3, <1>5, <1>6, <1>7
<1>9. /\ Payout(1, a) \in Nat /\ Payout(1, a) < reserves[1]
      /\ Payout(2, a) \in Nat /\ Payout(2, a) < reserves[2]
  <2>1. reserves[1] \in Nat \ {0} /\ reserves[2] \in Nat \ {0} /\ supply \in Nat \ {0}
    BY <1>3, <1>5, <1>7
  <2>2. Portion(a, reserves[1], supply) \in Nat /\ Portion(a, reserves[1], supply) < reserves[1]
    BY <1>6, <1>8, <2>1, PortionBounds, PortionLeavesSome
  <2>3. Portion(a, reserves[2], supply) \in Nat /\ Portion(a, reserves[2], supply) < reserves[2]
    BY <1>6, <1>8, <2>1, PortionBounds, PortionLeavesSome
  <2> QED
    BY <2>2, <2>3 DEF Payout
<1>10. /\ balance[1] = reserves[1] + escrow[1] + gifts[1]
       /\ balance[2] = reserves[2] + escrow[2] + gifts[2]
  BY DEF IInv, Accounted, Tokens
<1> HIDE DEF Payout
<1>11. TypeOK'
  <2>1. reserves' \in [Tokens -> Nat]
    BY <1>1, <1>5, <1>9 DEF Tokens
  <2>2. balance' \in [Tokens -> Nat]
    BY <1>1, <1>5, <1>9, <1>10 DEF Tokens
  <2>3. supply' \in Nat /\ minted' \in Nat
    BY <1>2, <1>3, <1>5, <1>6
  <2>4. lp' \in [Holders -> Nat]
    BY <1>2, <1>5, <1>6
  <2> QED
    BY <1>1, <1>4, <2>1, <2>2, <2>3, <2>4 DEF TypeOK, settings
<1>12. Accounted'
  BY <1>1, <1>5, <1>9, <1>10 DEF Accounted, Tokens
<1>13. NeverDrained' /\ LockedForever' /\ supply' > 0
  BY <1>1, <1>2, <1>3, <1>5, <1>6, <1>7, <1>8, <1>9 DEF NeverDrained, LockedForever
<1> QED
  BY <1>11, <1>12, <1>13 DEF IInv, FirstDeposit

\* A swap moves the offer in and the gross output out; what the book consumed and
\* paid passes the reserves by, with its escrow.
LEMMA SwapStep ==
  ASSUME IInv, NEW t \in Tokens, NEW x \in Offers, NEW limit, NEW min, NEW bps \in FeeRates,
         NEW declared \in 0 .. x, NEW used \in 0 .. x - declared,
         NEW paid \in Nat, paid <= escrow[Other(t)], NEW bookFee \in Nat,
         Swap(t, x, declared, used, paid, bps, bookFee, limit, min)
  PROVE  IInv'
<1> USE PoolAssumption, PoolMathAssumption
<1> DEFINE u == Other(t)
           pooled == x - used
           gross == IF pooled > 0 THEN GrossOut(reserves[t], reserves[u], pooled) ELSE 0
           poolFee == Commission(gross, bps)
<1>1. /\ u \in Tokens /\ u # t /\ (t = 1 => u = 2) /\ (t = 2 => u = 1)
      /\ pooled \in Nat /\ x \in Nat /\ used \in Nat
  BY DEF Tokens, Other
<1>2. pooled > 0 => reserves[1] > 0 /\ reserves[2] > 0
  BY DEF Swap
<1>3. reserves' = AfterSwap(t, pooled, gross)
  BY DEF Swap
<1>4. escrow' = [escrow EXCEPT ![u] = @ - paid]
  BY DEF Swap
<1>5. balance' = [v \in Tokens |-> IF v = t THEN balance[v] + x - used
                   ELSE balance[v] - ((paid - bookFee) + (gross - poolFee)) - (poolFee + bookFee)]
  BY DEF Swap
<1>6. UNCHANGED <<supply, minted, lp, gifts>> /\ UNCHANGED settings
  BY DEF Swap
<1>7. TypeOK /\ Accounted
  BY DEF IInv
<1>8. /\ reserves \in [Tokens -> Nat] /\ balance \in [Tokens -> Nat]
      /\ escrow \in [Tokens -> Nat] /\ gifts \in [Tokens -> Nat]
  BY <1>7 DEF TypeOK
<1>9. gross \in Nat /\ gross <= reserves[u] /\ (reserves[u] > 0 => gross < reserves[u])
  <2>1. CASE pooled > 0
    <3>1. reserves[t] \in Nat \ {0} /\ reserves[u] \in Nat \ {0}
      BY <1>1, <1>2, <1>8, <2>1 DEF Tokens
    <3>2. GrossOut(reserves[t], reserves[u], pooled) \in 0 .. reserves[u] - 1
      BY <1>1, <3>1, SwapKeepsProduct
    <3>3. gross = GrossOut(reserves[t], reserves[u], pooled)
      BY <2>1
    <3> QED
      BY <3>1, <3>2, <3>3
  <2>2. CASE ~(pooled > 0)
    BY <1>1, <1>8, <2>2
  <2> QED
    BY <2>1, <2>2
<1>10. poolFee \in Int
  <2>1. gross * bps \in Nat
    BY <1>9
  <2> QED
    BY <2>1 DEF Commission
<1> HIDE DEF u, pooled, gross, poolFee
<1>11. AfterSwap(t, pooled, gross) = [v \in Tokens |-> IF v = t THEN reserves[v] + pooled ELSE reserves[v] - gross]
  BY DEF AfterSwap
<1>12. reserves' \in [Tokens -> Nat] /\ reserves'[t] = reserves[t] + pooled /\ reserves'[u] = reserves[u] - gross
  BY <1>1, <1>3, <1>8, <1>9, <1>11 DEF Tokens
<1>13. escrow' \in [Tokens -> Nat] /\ escrow'[t] = escrow[t] /\ escrow'[u] = escrow[u] - paid
  BY <1>1, <1>4, <1>8 DEF u
<1>14. /\ balance[t] = reserves[t] + escrow[t] + gifts[t]
       /\ balance[u] = reserves[u] + escrow[u] + gifts[u]
  BY <1>1, <1>7 DEF Accounted
<1>15. balance'[t] = balance[t] + pooled
  BY <1>1, <1>5, <1>8 DEF pooled
<1>16. balance'[u] = balance[u] - paid - gross
  <2>1. balance'[u] = balance[u] - ((paid - bookFee) + (gross - poolFee)) - (poolFee + bookFee)
    BY <1>1, <1>5
  <2> QED
    BY <1>1, <1>8, <1>9, <1>10, <2>1
<1>17. /\ balance'[t] = reserves'[t] + escrow'[t] + gifts[t]
       /\ balance'[u] = reserves'[u] + escrow'[u] + gifts[u]
  BY <1>1, <1>8, <1>9, <1>12, <1>13, <1>14, <1>15, <1>16
<1>18. Accounted'
  BY <1>1, <1>6, <1>17 DEF Accounted, Tokens
<1>19. TypeOK'
  <2>1. balance'[t] \in Nat /\ balance'[u] \in Nat
    BY <1>1, <1>8, <1>12, <1>13, <1>17
  <2>2. \A v \in Tokens : balance'[v] \in Nat
    BY <1>1, <2>1 DEF Tokens
  <2>3. balance' = [v \in Tokens |-> balance'[v]]
    BY <1>5
  <2>4. balance' \in [Tokens -> Nat]
    BY <2>2, <2>3
  <2> QED
    BY <1>6, <1>7, <1>12, <1>13, <2>4 DEF TypeOK, settings
<1>20. NeverDrained'
  <2>1. SUFFICES ASSUME supply > 0 PROVE reserves'[1] > 0 /\ reserves'[2] > 0
    BY <1>6 DEF NeverDrained
  <2>2. reserves[t] > 0 /\ reserves[u] > 0
    BY <1>1, <2>1 DEF IInv, NeverDrained, Tokens
  <2>3. reserves'[t] > 0 /\ reserves'[u] > 0
    BY <1>1, <1>8, <1>9, <1>12, <2>2
  <2> QED
    BY <1>1, <2>3 DEF Tokens
<1>21. FirstDeposit'
  <2>1. SUFFICES ASSUME supply = 0 PROVE reserves'[1] = 0 /\ reserves'[2] = 0 /\ minted' = 0
    BY <1>6 DEF FirstDeposit
  <2>2. reserves[1] = 0 /\ reserves[2] = 0 /\ minted = 0
    BY <2>1 DEF IInv, FirstDeposit
  <2>3. pooled = 0
    BY <1>1, <1>2, <2>2 DEF pooled
  <2>4. reserves[t] = 0 /\ reserves[u] = 0 /\ gross = 0
    BY <1>1, <1>9, <2>2 DEF Tokens
  <2>5. reserves'[t] = 0 /\ reserves'[u] = 0
    BY <1>12, <2>3, <2>4
  <2> QED
    BY <1>1, <1>6, <2>2, <2>5 DEF Tokens
<1> QED
  BY <1>6, <1>18, <1>19, <1>20, <1>21 DEF IInv, LockedForever

\* Everything around the pool leaves reserves and shares alone.
LEMMA BesidesStep ==
  ASSUME IInv, NEW t \in Tokens, NEW a \in Nat, Rest(t, a) \/ TakeOut(t, a) \/ Gift(t, a) \/ Sweep(t)
  PROVE  IInv'
<1>1. TypeOK /\ Accounted
  BY DEF IInv
<1>2. /\ reserves \in [Tokens -> Nat] /\ balance \in [Tokens -> Nat]
      /\ escrow \in [Tokens -> Nat] /\ gifts \in [Tokens -> Nat]
  BY <1>1 DEF TypeOK
<1>3. \A v \in Tokens : balance[v] = reserves[v] + escrow[v] + gifts[v]
  BY <1>1 DEF Accounted
<1>4. UNCHANGED <<reserves, supply, minted, lp>> /\ UNCHANGED settings
  BY DEF Rest, TakeOut, Gift, Sweep, settings
<1>5. SUFFICES /\ balance' \in [Tokens -> Nat] /\ escrow' \in [Tokens -> Nat] /\ gifts' \in [Tokens -> Nat]
               /\ \A v \in Tokens : balance'[v] = reserves[v] + escrow'[v] + gifts'[v]
  <2>1. TypeOK' /\ Accounted'
    BY <1>1, <1>4, <1>5 DEF TypeOK, Accounted, settings
  <2> QED
    BY <1>4, <2>1 DEF IInv, NeverDrained, LockedForever, FirstDeposit
<1>6. CASE Rest(t, a)
  BY <1>2, <1>3, <1>6 DEF Rest
<1>7. CASE TakeOut(t, a)
  BY <1>2, <1>3, <1>7 DEF TakeOut
<1>8. CASE Gift(t, a)
  BY <1>2, <1>3, <1>8 DEF Gift
<1>9. CASE Sweep(t)
  <2>1. Surplus(t) = gifts[t]
    BY <1>2, <1>3 DEF Surplus, Excess
  <2>2. balance' = [balance EXCEPT ![t] = @ - gifts[t]] /\ gifts' = [gifts EXCEPT ![t] = 0] /\ escrow' = escrow
    BY <1>9, <2>1 DEF Sweep
  <2> QED
    BY <1>2, <1>3, <2>2
<1> QED
  BY <1>6, <1>7, <1>8, <1>9

\* The rest writes neither tokens nor shares, apart from what holders burn.
LEMMA IdleStep ==
  ASSUME IInv, UNCHANGED Pot, UNCHANGED supply,
         minted' \in Nat, minted' <= minted, lp' \in [Holders -> Nat], fee' \in FeeRates, shut' \in BOOLEAN
  PROVE  IInv'
<1>1. UNCHANGED reserves /\ UNCHANGED balance /\ UNCHANGED escrow /\ UNCHANGED gifts
  BY DEF Pot
<1>2. TypeOK /\ minted \in Nat
  BY DEF IInv, TypeOK
<1>3. TypeOK' /\ Accounted' /\ NeverDrained'
  BY <1>1, <1>2 DEF IInv, TypeOK, Accounted, NeverDrained
<1>4. LockedForever'
  <2>1. SUFFICES ASSUME supply > 0 PROVE minted' + MINIMUM_LIQUIDITY <= supply
    BY DEF LockedForever
  <2>2. minted + MINIMUM_LIQUIDITY <= supply
    BY <2>1 DEF IInv, LockedForever
  <2>3. supply \in Nat /\ minted \in Nat /\ MINIMUM_LIQUIDITY \in Nat
    BY PoolAssumption DEF IInv, TypeOK
  <2>4. \A i, j, k, n \in Nat : i <= j /\ j + k <= n => i + k <= n
    OBVIOUS
  <2> QED
    BY <2>2, <2>3, <2>4
<1>5. FirstDeposit'
  BY <1>1, <1>2 DEF IInv, FirstDeposit
<1> QED
  BY <1>3, <1>4, <1>5 DEF IInv

LEMMA NextIInv == IInv /\ [Next]_vars => IInv'
<1> SUFFICES ASSUME IInv, [Next]_vars PROVE IInv'
  OBVIOUS
<1> USE PoolAssumption
<1>0. TypeOK
  BY DEF IInv
<1>1. CASE Provide
  <2>1. PICK h \in Holders, d \in Deposits, limit \in Limits : ProvideLiquidity(h, d, limit.slippage)
    BY <1>1 DEF Provide
  <2> QED
    BY <2>1, ProvideStep
<1>2. CASE Withdraw
  <2>1. PICK h \in Holders : \E a \in 1 .. lp[h], m \in 0 .. 1 : WithdrawLiquidity(h, a, <<m, m>>)
    BY <1>2 DEF Withdraw
  <2>2. PICK a \in 1 .. lp[h], m \in 0 .. 1 : WithdrawLiquidity(h, a, <<m, m>>)
    BY <2>1
  <2> QED
    BY <2>2, WithdrawStep
<1>3. CASE Trade
  <2>1. PICK t \in Tokens, x \in Offers, limit \in Limits, min \in 0 .. 1, bps \in {f \in FeeRates : f <= fee} :
          \E declared \in 0 .. x : \E used \in 0 .. x - declared : \E f \in BookFills(t, used, bps) :
            Swap(t, x, declared, used, f[1], bps, f[2], limit, min)
    BY <1>3 DEF Trade
  <2>2. PICK declared \in 0 .. x : \E used \in 0 .. x - declared : \E f \in BookFills(t, used, bps) :
          Swap(t, x, declared, used, f[1], bps, f[2], limit, min)
    BY <2>1
  <2>3. PICK used \in 0 .. x - declared : \E f \in BookFills(t, used, bps) :
          Swap(t, x, declared, used, f[1], bps, f[2], limit, min)
    BY <2>2
  <2>4. PICK f \in BookFills(t, used, bps) : Swap(t, x, declared, used, f[1], bps, f[2], limit, min)
    BY <2>3
  <2>5. Other(t) \in Tokens /\ escrow[Other(t)] \in Nat
    BY <1>0 DEF TypeOK, Tokens, Other
  <2>6. f[1] \in Nat /\ f[1] <= escrow[Other(t)] /\ f[2] \in Nat
    BY <2>5 DEF BookFills
  <2>7. bps \in FeeRates
    OBVIOUS
  <2> QED
    BY <2>4, <2>6, <2>7, SwapStep
<1>4. CASE \E h \in Holders : \E amount \in 1 .. lp[h] : BurnShares(h, amount)
  <2>1. PICK h \in Holders : \E amount \in 1 .. lp[h] : BurnShares(h, amount)
    BY <1>4
  <2>2. PICK amount \in 1 .. lp[h] : BurnShares(h, amount)
    BY <2>1
  <2>3. lp \in [Holders -> Nat] /\ minted \in Nat
    BY <1>0 DEF TypeOK
  <2>4. UNCHANGED Pot /\ UNCHANGED supply /\ UNCHANGED settings
    BY <2>2 DEF BurnShares, Pot
  <2>5. minted' \in Nat /\ minted' <= minted /\ lp' \in [Holders -> Nat]
    BY <2>2, <2>3 DEF BurnShares
  <2> QED
    BY <1>0, <2>4, <2>5, IdleStep DEF settings, TypeOK
<1>5. CASE \E t \in Tokens, a \in Escrows : Rest(t, a) \/ TakeOut(t, a)
  BY <1>5, BesidesStep
<1>6. CASE \E t \in Tokens, a \in Gifts : Gift(t, a)
  BY <1>6, BesidesStep
<1>7. CASE \E t \in Tokens : Sweep(t)
  BY <1>7, BesidesStep
<1>8. CASE \/ \E bps \in FeeRates : UpdateFee(bps)
           \/ \E list \in HookLists : UpdateHooks(list)
           \/ SetShut
  <2>1. UNCHANGED Pot /\ UNCHANGED <<supply, minted, lp>>
    BY <1>8 DEF UpdateFee, UpdateHooks, SetShut, Pot
  <2>2. fee' \in FeeRates /\ shut' \in BOOLEAN
    BY <1>0, <1>8 DEF UpdateFee, UpdateHooks, SetShut, TypeOK
  <2> QED
    BY <1>0, <2>1, <2>2, IdleStep DEF TypeOK
<1>9. CASE Tick \/ (\E n \in 1 .. MAXSLOTS : Grow(n)) \/ UNCHANGED vars
  <2>1. UNCHANGED reserves
    BY <1>9 DEF Tick, Grow, Twap!Tick, Twap!IncreaseObservationCardinality, vars
  <2>2. UNCHANGED <<supply, minted, lp, balance, escrow, gifts>> /\ UNCHANGED settings
    BY <1>9 DEF Tick, Grow, vars, settings
  <2> QED
    BY <1>0, <2>1, <2>2, IdleStep DEF TypeOK, Pot, settings
<1> QED
  BY <1>1, <1>2, <1>3, <1>4, <1>5, <1>6, <1>7, <1>8, <1>9 DEF Next

THEOREM Invariance == Spec => []IInv
<1>1. Init => IInv
  BY InitIInv
<1>2. IInv /\ [Next]_vars => IInv'
  BY NextIInv
<1> QED
  BY <1>1, <1>2, PTL DEF Spec

-----------------------------------------------------------------------------
(* What the invariant gives. *)

\* Types, for every instance.
THEOREM PairPoolTypes == Spec => []TypeOK
  BY Invariance, PTL DEF IInv

\* The pair's tokens are its reserves, the book's escrow and gifts, at every moment.
THEOREM BalanceAccounted == Spec => []Accounted
  BY Invariance, PTL DEF IInv

\* No sequence of swaps and withdrawals empties a pool that has shares.
THEOREM PoolNeverDrained == Spec => []NeverDrained
  BY Invariance, PTL DEF IInv

\* The first deposit's lock can never be withdrawn.
THEOREM LockStays == Spec => []LockedForever
  BY Invariance, PTL DEF IInv

-----------------------------------------------------------------------------
(* The worth of a share. *)

\* Two inequalities of a side each multiply to the products of both.
LEMMA SidesMultiply ==
  ASSUME NEW a1 \in Nat, NEW a2 \in Nat, NEW b1 \in Nat, NEW b2 \in Nat,
         NEW s \in Nat, NEW z \in Nat, a1 * s >= b1 * z, a2 * s >= b2 * z
  PROVE  a1 * a2 * s * s >= b1 * b2 * z * z
<1>1. a1 * s \in Nat /\ a2 * s \in Nat /\ b1 * z \in Nat /\ b2 * z \in Nat
  OBVIOUS
<1>2. (a1 * s) * (a2 * s) >= (b1 * z) * (b2 * z)
  BY <1>1, ProductGrows
<1>3. (a1 * s) * (a2 * s) = a1 * a2 * s * s
  OBVIOUS
<1>4. (b1 * z) * (b2 * z) = b1 * b2 * z * z
  OBVIOUS
<1> QED
  BY <1>2, <1>3, <1>4

\* The formula of ShareWorthKept, for reserves and supply as they are.
WorthKept ==
  supply > 0 /\ supply' > 0 =>
    reserves'[1] * reserves'[2] * supply * supply >= reserves[1] * reserves[2] * supply' * supply'

LEMMA ProvideKeepsWorth ==
  ASSUME IInv, NEW h \in Holders, NEW d \in Deposits, NEW tol, ProvideLiquidity(h, d, tol)
  PROVE  WorthKept
<1> USE PoolAssumption
<1> SUFFICES ASSUME supply > 0 PROVE WorthKept
  BY DEF WorthKept
<1> DEFINE s == Shares(d)
<1>1. d[1] \in Nat /\ d[2] \in Nat
  OBVIOUS
<1>2. reserves[1] \in Nat \ {0} /\ reserves[2] \in Nat \ {0} /\ supply \in Nat
  BY DEF IInv, TypeOK, NeverDrained, Tokens
<1>3. s = Smaller(Portion(d[1], supply, reserves[1]), Portion(d[2], supply, reserves[2]))
  BY <1>2 DEF Shares, Bootstrap
<1>4. Portion(d[1], supply, reserves[1]) \in Nat /\ Portion(d[1], supply, reserves[1]) * reserves[1] <= d[1] * supply
  BY <1>1, <1>2, PortionBounds
<1>5. Portion(d[2], supply, reserves[2]) \in Nat /\ Portion(d[2], supply, reserves[2]) * reserves[2] <= d[2] * supply
  BY <1>1, <1>2, PortionBounds
<1>6. /\ reserves'[1] = reserves[1] + d[1] /\ reserves'[2] = reserves[2] + d[2]
      /\ supply' = supply + s
  BY DEF ProvideLiquidity
<1>7. /\ s \in Nat
      /\ s <= Portion(d[1], supply, reserves[1]) /\ s <= Portion(d[2], supply, reserves[2])
  BY <1>3, <1>4, <1>5 DEF Smaller
<1> DEFINE r1 == reserves[1]
           r2 == reserves[2]
           p1 == Portion(d[1], supply, r1)
           p2 == Portion(d[2], supply, r2)
           d1 == d[1]
           d2 == d[2]
<1>8. /\ r1 \in Nat /\ r2 \in Nat /\ d1 \in Nat /\ d2 \in Nat /\ p1 \in Nat /\ p2 \in Nat
      /\ p1 * r1 <= d1 * supply /\ p2 * r2 <= d2 * supply /\ s <= p1 /\ s <= p2
      /\ reserves'[1] = r1 + d1 /\ reserves'[2] = r2 + d2
  BY <1>1, <1>2, <1>4, <1>5, <1>6, <1>7
<1> HIDE DEF s, r1, r2, p1, p2, d1, d2
<1>9. (r1 + d1) * supply >= r1 * (supply + s)
  <2>1. s * r1 <= p1 * r1
    BY <1>7, <1>8, ProductGrows
  <2>2. (r1 + d1) * supply = r1 * supply + d1 * supply /\ r1 * (supply + s) = r1 * supply + s * r1
    BY <1>2, <1>7, <1>8
  <2>3. /\ s * r1 \in Nat /\ p1 * r1 \in Nat /\ d1 * supply \in Nat /\ r1 * supply \in Nat
    BY <1>2, <1>7, <1>8
  <2> QED
    BY <1>8, <2>1, <2>2, <2>3
<1>10. (r2 + d2) * supply >= r2 * (supply + s)
  <2>1. s * r2 <= p2 * r2
    BY <1>7, <1>8, ProductGrows
  <2>2. (r2 + d2) * supply = r2 * supply + d2 * supply /\ r2 * (supply + s) = r2 * supply + s * r2
    BY <1>2, <1>7, <1>8
  <2>3. /\ s * r2 \in Nat /\ p2 * r2 \in Nat /\ d2 * supply \in Nat /\ r2 * supply \in Nat
    BY <1>2, <1>7, <1>8
  <2> QED
    BY <1>8, <2>1, <2>2, <2>3
<1>11. (r1 + d1) * (r2 + d2) * supply * supply >= r1 * r2 * (supply + s) * (supply + s)
  <2>1. r1 + d1 \in Nat /\ r2 + d2 \in Nat /\ supply + s \in Nat
    BY <1>2, <1>7, <1>8
  <2> QED
    BY <1>2, <1>8, <1>9, <1>10, <2>1, SidesMultiply
<1> QED
  BY <1>6, <1>8, <1>11 DEF WorthKept, r1, r2, s

LEMMA WithdrawKeepsWorth ==
  ASSUME IInv, IInv', NEW h \in Holders, NEW a \in 1 .. lp[h], NEW min, WithdrawLiquidity(h, a, min)
  PROVE  WorthKept
<1> USE PoolAssumption
<1> SUFFICES ASSUME supply > 0 PROVE WorthKept
  BY DEF WorthKept
<1>1. /\ reserves[1] \in Nat /\ reserves[2] \in Nat /\ supply \in Nat \ {0} /\ lp[h] \in Nat
      /\ reserves'[1] \in Nat /\ reserves'[2] \in Nat /\ supply' \in Nat
  BY DEF IInv, TypeOK, Tokens
<1>2. a \in Nat
  BY <1>1
<1> DEFINE p1 == Payout(1, a)
           p2 == Payout(2, a)
           r1 == reserves[1]
           r2 == reserves[2]
           w1 == reserves'[1]
           w2 == reserves'[2]
           z == supply'
<1>3. p1 \in Nat /\ p1 * supply <= a * r1
  BY <1>1, <1>2, PortionBounds DEF Payout
<1>4. p2 \in Nat /\ p2 * supply <= a * r2
  BY <1>1, <1>2, PortionBounds DEF Payout
<1>5. w1 = r1 - p1 /\ w2 = r2 - p2 /\ z = supply - a
  BY DEF WithdrawLiquidity
<1>6. r1 \in Nat /\ r2 \in Nat /\ w1 \in Nat /\ w2 \in Nat /\ z \in Nat
  BY <1>1
<1> HIDE DEF p1, p2, r1, r2, w1, w2, z
<1>7. w1 * supply >= r1 * z
  <2>1. w1 * supply = r1 * supply - p1 * supply /\ r1 * z = r1 * supply - a * r1
    BY <1>1, <1>2, <1>3, <1>5, <1>6
  <2>2. r1 * supply \in Nat /\ p1 * supply \in Nat /\ a * r1 \in Nat
    BY <1>1, <1>2, <1>3, <1>6
  <2> QED
    BY <1>3, <2>1, <2>2
<1>8. w2 * supply >= r2 * z
  <2>1. w2 * supply = r2 * supply - p2 * supply /\ r2 * z = r2 * supply - a * r2
    BY <1>1, <1>2, <1>4, <1>5, <1>6
  <2>2. r2 * supply \in Nat /\ p2 * supply \in Nat /\ a * r2 \in Nat
    BY <1>1, <1>2, <1>4, <1>6
  <2> QED
    BY <1>4, <2>1, <2>2
<1>9. w1 * w2 * supply * supply >= r1 * r2 * z * z
  BY <1>1, <1>6, <1>7, <1>8, SidesMultiply
<1> QED
  BY <1>9 DEF WorthKept, w1, w2, r1, r2, z

LEMMA SwapKeepsWorth ==
  ASSUME IInv, IInv', NEW t \in Tokens, NEW x \in Offers, NEW limit, NEW min, NEW bps \in FeeRates,
         NEW declared \in 0 .. x, NEW used \in 0 .. x - declared, NEW paid, NEW bookFee,
         Swap(t, x, declared, used, paid, bps, bookFee, limit, min)
  PROVE  WorthKept
<1> USE PoolAssumption
<1> SUFFICES ASSUME supply > 0 PROVE WorthKept
  BY DEF WorthKept
<1> DEFINE u == Other(t)
           pooled == x - used
           gross == IF pooled > 0 THEN GrossOut(reserves[t], reserves[u], pooled) ELSE 0
<1>1. u \in Tokens /\ u # t /\ (t = 1 => u = 2) /\ (t = 2 => u = 1) /\ pooled \in Nat
  BY DEF Tokens, Other
<1>2. /\ reserves[t] \in Nat \ {0} /\ reserves[u] \in Nat \ {0} /\ supply \in Nat
      /\ reserves'[1] \in Nat /\ reserves'[2] \in Nat
  BY <1>1 DEF IInv, TypeOK, NeverDrained, Tokens
<1>3. reserves' = AfterSwap(t, pooled, gross) /\ supply' = supply
  BY DEF Swap
<1>4. gross \in Int /\ (reserves[t] + pooled) * (reserves[u] - gross) >= reserves[t] * reserves[u]
  <2>1. CASE pooled > 0
    <3>1. /\ GrossOut(reserves[t], reserves[u], pooled) \in 0 .. reserves[u] - 1
          /\ (reserves[t] + pooled) * (reserves[u] - GrossOut(reserves[t], reserves[u], pooled))
               >= reserves[t] * reserves[u]
      BY <1>1, <1>2, SwapKeepsProduct
    <3>2. gross = GrossOut(reserves[t], reserves[u], pooled)
      BY <2>1
    <3> HIDE DEF gross
    <3> QED
      BY <3>1, <3>2
  <2>2. CASE ~(pooled > 0)
    <3>1. pooled = 0 /\ gross = 0
      BY <1>1, <2>2
    <3> QED
      BY <1>2, <3>1
  <2> QED
    BY <2>1, <2>2
<1>5. AfterSwap(t, pooled, gross) = [v \in Tokens |-> IF v = t THEN reserves[v] + pooled ELSE reserves[v] - gross]
  BY DEF AfterSwap
<1> HIDE DEF u, pooled, gross
<1>6. reserves'[t] = reserves[t] + pooled /\ reserves'[u] = reserves[u] - gross
  BY <1>1, <1>3, <1>5
<1>7. reserves'[t] * reserves'[u] >= reserves[t] * reserves[u]
  BY <1>4, <1>6
<1>8. reserves'[1] * reserves'[2] >= reserves[1] * reserves[2]
  <2>1. CASE t = 1
    BY <1>1, <1>7, <2>1
  <2>2. CASE t = 2
    <3>1. /\ reserves'[1] * reserves'[2] = reserves'[2] * reserves'[1]
          /\ reserves[1] * reserves[2] = reserves[2] * reserves[1]
      BY <1>1, <1>2, <2>2
    <3> QED
      BY <1>1, <1>7, <2>2, <3>1
  <2> QED
    BY <2>1, <2>2 DEF Tokens
<1> DEFINE k == reserves[1] * reserves[2]
           n == reserves'[1] * reserves'[2]
           q == supply * supply
<1>9. k \in Nat /\ n \in Nat /\ q \in Nat /\ n >= k
  BY <1>1, <1>2, <1>8 DEF Tokens
<1>10. n * q >= k * q
  <2> HIDE DEF k, n, q
  <2> QED
    BY <1>9, ProductGrows
<1>11. /\ reserves'[1] * reserves'[2] * supply * supply = n * q
       /\ reserves[1] * reserves[2] * supply * supply = k * q
  BY <1>1, <1>2 DEF Tokens
<1> HIDE DEF k, n, q
<1> QED
  BY <1>3, <1>10, <1>11 DEF WorthKept

\* Everything else leaves reserves and supply alone.
LEMMA StillKeepsWorth ==
  ASSUME IInv, UNCHANGED reserves, UNCHANGED supply
  PROVE  WorthKept
<1>1. reserves[1] \in Nat /\ reserves[2] \in Nat /\ supply \in Nat
  BY DEF IInv, TypeOK, Tokens
<1>2. reserves[1] * reserves[2] * supply * supply \in Nat
  BY <1>1
<1> QED
  BY <1>2 DEF WorthKept

\* No swap, deposit, withdrawal or anything else lowers the worth of a share, however
\* the divisions round.
THEOREM ShareNeverDiluted == Spec => ShareWorthKept
<1>1. IInv /\ IInv' /\ [Next]_vars => [WorthKept]_vars
  <2> SUFFICES ASSUME IInv, IInv', Next PROVE WorthKept
    OBVIOUS
  <2>1. CASE Provide
    BY <2>1, ProvideKeepsWorth DEF Provide
  <2>2. CASE Withdraw
    BY <2>2, WithdrawKeepsWorth DEF Withdraw
  <2>3. CASE Trade
    <3>1. PICK t \in Tokens, x \in Offers, limit \in Limits, min \in 0 .. 1, bps \in {f \in FeeRates : f <= fee} :
            \E declared \in 0 .. x : \E used \in 0 .. x - declared : \E f \in BookFills(t, used, bps) :
              Swap(t, x, declared, used, f[1], bps, f[2], limit, min)
      BY <2>3 DEF Trade
    <3>2. PICK declared \in 0 .. x : \E used \in 0 .. x - declared : \E f \in BookFills(t, used, bps) :
            Swap(t, x, declared, used, f[1], bps, f[2], limit, min)
      BY <3>1
    <3>3. bps \in FeeRates
      OBVIOUS
    <3> QED
      BY <3>2, <3>3, SwapKeepsWorth
  <2>4. CASE \/ \E h \in Holders : \E amount \in 1 .. lp[h] : BurnShares(h, amount)
             \/ \E t \in Tokens, a \in Escrows : Rest(t, a) \/ TakeOut(t, a)
             \/ \E t \in Tokens, a \in Gifts : Gift(t, a)
             \/ \E t \in Tokens : Sweep(t)
             \/ \E bps \in FeeRates : UpdateFee(bps)
             \/ \E list \in HookLists : UpdateHooks(list)
             \/ SetShut
             \/ \E n \in 1 .. MAXSLOTS : Grow(n)
             \/ Tick
    <3>1. UNCHANGED reserves /\ UNCHANGED supply
      BY <2>4 DEF BurnShares, Rest, TakeOut, Gift, Sweep, UpdateFee, UpdateHooks, SetShut,
                  Grow, Tick, Twap!Tick, Twap!IncreaseObservationCardinality
    <3> QED
      BY <3>1, StillKeepsWorth
  <2> QED
    BY <2>1, <2>2, <2>3, <2>4 DEF Next
<1>2. Spec => [][WorthKept]_vars
  BY <1>1, Invariance, PTL DEF Spec
<1> QED
  BY <1>2, PTL DEF ShareWorthKept, WorthKept

-----------------------------------------------------------------------------
(* The pair is a user of its oracle. *)

Bounded == reserves[1] <= MaxReserve /\ reserves[2] <= MaxReserve

LEMMA WithdrawShrinks ==
  ASSUME IInv, NEW h \in Holders, NEW a \in 1 .. lp[h], NEW min, WithdrawLiquidity(h, a, min)
  PROVE  reserves'[1] <= reserves[1] /\ reserves'[2] <= reserves[2] /\ supply' > 0
<1>1. /\ reserves[1] \in Nat /\ reserves[2] \in Nat /\ supply \in Nat /\ lp[h] \in Nat /\ minted \in Nat
  BY DEF IInv, TypeOK, Tokens
<1>2. /\ reserves' = <<reserves[1] - Payout(1, a), reserves[2] - Payout(2, a)>>
      /\ supply' = supply - a /\ a <= minted /\ supply > 0
  BY DEF WithdrawLiquidity
<1>3. minted + MINIMUM_LIQUIDITY <= supply /\ MINIMUM_LIQUIDITY \in Nat \ {0}
  BY <1>2, PoolAssumption DEF IInv, LockedForever
<1>4. a \in Nat
  BY <1>1
<1>5. Payout(1, a) \in Nat /\ Payout(2, a) \in Nat
  <2>1. supply \in Nat \ {0}
    BY <1>1, <1>2
  <2> QED
    BY <1>1, <1>4, <2>1, PortionBounds DEF Payout
<1> HIDE DEF Payout
<1> QED
  BY <1>1, <1>2, <1>3, <1>4, <1>5

LEMMA StaysBounded ==
  ASSUME IInv, Bounded, [Next]_vars
  PROVE  Bounded'
<1>1. CASE Provide \/ Trade
  BY <1>1 DEF Provide, Trade, Fits, Bounded
<1>2. CASE Withdraw
  <2>1. PICK h \in Holders : \E a \in 1 .. lp[h], m \in 0 .. 1 : WithdrawLiquidity(h, a, <<m, m>>)
    BY <1>2 DEF Withdraw
  <2>2. PICK a \in 1 .. lp[h], m \in 0 .. 1 : WithdrawLiquidity(h, a, <<m, m>>)
    BY <2>1
  <2>3. reserves'[1] <= reserves[1] /\ reserves'[2] <= reserves[2]
    BY <2>2, WithdrawShrinks
  <2>4. reserves[1] \in Nat /\ reserves[2] \in Nat /\ reserves'[1] \in Nat /\ reserves'[2] \in Nat /\ MaxReserve \in Nat
    BY NextIInv, PoolAssumption DEF IInv, TypeOK, Tokens
  <2> QED
    BY <2>3, <2>4 DEF Bounded
<1>3. CASE UNCHANGED reserves
  BY <1>3 DEF Bounded
<1>4. UNCHANGED reserves \/ Provide \/ Trade \/ Withdraw
  BY DEF Next, vars, BurnShares, Rest, TakeOut, Gift, Sweep, UpdateFee, UpdateHooks, SetShut,
         Grow, Tick, Twap!Tick, Twap!IncreaseObservationCardinality
<1> QED
  BY <1>1, <1>2, <1>3, <1>4

\* Observing first and leaving the pool funded is a step of the oracle.
LEMMA HandlerTouches ==
  ASSUME IInv, IInv', Bounded', Observes, supply' > 0 \/ UNCHANGED supply
  PROVE  Twap!Next
<1>1. reserves' \in [Tokens -> Nat] /\ reserves'[1] <= MaxReserve /\ reserves'[2] <= MaxReserve
  BY DEF IInv, TypeOK, Bounded
<1>2. reserves' = <<reserves'[1], reserves'[2]>>
  BY <1>1 DEF Tokens
<1>3. <<reserves'[1], reserves'[2]>> \in (0 .. MaxReserve) \X (0 .. MaxReserve)
  BY <1>1, PoolAssumption DEF Tokens
<1>4. reserves' \in Pools
  BY <1>2, <1>3, PoolAssumption
<1>5. Twap!Empty(reserves') => Twap!Empty(reserves)
  <2>1. CASE supply' > 0
    BY <2>1 DEF IInv, NeverDrained, Twap!Empty
  <2>2. CASE supply = 0 /\ UNCHANGED supply
    BY <2>2 DEF IInv, FirstDeposit, Twap!Empty
  <2>3. supply \in Nat
    BY DEF IInv, TypeOK
  <2> QED
    BY <2>1, <2>2, <2>3
<1>6. PICK r \in Pools : r = reserves'
  BY <1>4
<1>7. Twap!Touch(r)
  BY <1>5, <1>6 DEF Twap!Touch, Observes
<1> QED
  BY <1>7 DEF Twap!Next

LEMMA StepsTouch ==
  ASSUME IInv, IInv', Bounded', [Next]_vars
  PROVE  [Twap!Next]_(Twap!twapVars)
<1>1. CASE Provide
  <2>1. PICK h \in Holders, d \in Deposits, limit \in Limits : ProvideLiquidity(h, d, limit.slippage)
    BY <1>1 DEF Provide
  <2>2. Observes /\ Shares(d) > Locked /\ supply' = supply + Shares(d)
    BY <2>1 DEF ProvideLiquidity
  <2>3. supply' > 0
    <3>1. Locked \in Nat /\ supply \in Nat /\ supply' \in Nat
      BY PoolAssumption DEF IInv, TypeOK, Locked
    <3>2. d[1] > 0 /\ reserves' = <<reserves[1] + d[1], reserves[2] + d[2]>> /\ d \in Nat \X Nat
      BY <2>1, PoolAssumption DEF ProvideLiquidity
    <3>3. reserves'[1] # 0
      BY <3>2 DEF IInv, TypeOK, Tokens
    <3> QED
      BY <3>1, <3>3 DEF IInv, FirstDeposit
  <2> QED
    BY <2>2, <2>3, HandlerTouches
<1>2. CASE Withdraw
  <2>1. PICK h \in Holders : \E a \in 1 .. lp[h], m \in 0 .. 1 : WithdrawLiquidity(h, a, <<m, m>>)
    BY <1>2 DEF Withdraw
  <2>2. PICK a \in 1 .. lp[h], m \in 0 .. 1 : WithdrawLiquidity(h, a, <<m, m>>)
    BY <2>1
  <2>3. Observes
    BY <2>2 DEF WithdrawLiquidity
  <2> QED
    BY <2>2, <2>3, WithdrawShrinks, HandlerTouches
<1>3. CASE Trade
  <2>1. Observes /\ UNCHANGED supply
    BY <1>3 DEF Trade, Swap
  <2> QED
    BY <2>1, HandlerTouches
<1>4. CASE UNCHANGED Twap!twapVars
  BY <1>4
<1>5. CASE Tick \/ (\E n \in 1 .. MAXSLOTS : Grow(n))
  BY <1>5 DEF Tick, Grow, Twap!Next
<1>6. UNCHANGED Twap!twapVars \/ Provide \/ Trade \/ Withdraw \/ Tick \/ (\E n \in 1 .. MAXSLOTS : Grow(n))
  BY DEF Next, vars, Twap!twapVars, BurnShares, Rest, TakeOut, Gift, Sweep, UpdateFee, UpdateHooks, SetShut
<1> QED
  BY <1>1, <1>2, <1>3, <1>4, <1>5, <1>6

\* Every handler that changes the reserves writes the observation of the old ones
\* first, and none spoils the ring: PairPool implements TwapOracle.
THEOREM PairObserves == Spec => ObservesFirst
<1>1. Init => Bounded
  BY PoolAssumption DEF Init, Twap!Init, Bounded
<1>2. Init => Twap!Init
  BY DEF Init
<1>3. IInv /\ Bounded /\ [Next]_vars => Bounded'
  BY StaysBounded
<1>4. IInv /\ IInv' /\ Bounded' /\ [Next]_vars => [Twap!Next]_(Twap!twapVars)
  BY StepsTouch
<1>5. Spec => []IInv
  BY Invariance
<1> QED
  BY <1>1, <1>2, <1>3, <1>4, <1>5, PTL DEF Spec, ObservesFirst, Twap!Spec
=============================================================================
