------------------------------ MODULE PairPool ------------------------------
(***************************************************************************)
(* The pool of a pair contract: reserves, shares and the pair's token      *)
(* balances under swaps (with a book leg), liquidity and sweeps, with the  *)
(* oracle that every one of them writes first.  The limit book is here     *)
(* only what it means for the balances: escrow that comes and goes with    *)
(* tokens (LimitBook proves that it does, TokensBackEscrow).               *)
(***************************************************************************)
EXTENDS PoolMath

CONSTANTS Holders,           \* accounts that hold LP tokens
          MINIMUM_LIQUIDITY, \* shares minted to nobody on the first deposit
          Deposits,          \* amounts of a deposit, by token
          Offers,            \* amounts offered in a swap
          FeeRates,          \* swap fees
          HookLists,         \* lists of fee hooks, each its share of the output
          Limits,            \* <<max_spread, belief>> and slippage limits asked for
          Gifts,             \* amounts sent to the pair without a message
          Escrows,           \* amounts a limit order rests with
          MaxReserve,        \* bound on the reserves
          MaxEscrow,         \* bound on the escrow
          MaxGifts,          \* bound on the gifts
          \* of the oracle
          Pools, SCALE, MAXPRICE, Slots, MAXSLOTS, GrowsWrapped, MaxTime

VARIABLES now, reserves, observations, oracle,  \* see TwapOracle
          supply,   \* TOTAL_LP_SUPPLY
          minted,   \* the LP token's own total supply
          lp,       \* LP tokens of each holder
          balance,  \* the pair's balance of each token
          escrow,   \* PENDING_ESCROW_TOKEN0 / 1
          gifts,    \* of the balance, what came without a message (history)
          fee,      \* FEE_CONFIG.fee_bps
          hooks,    \* HOOKS, as the shares they take of the output token
          shut      \* paused, a token drifted or blacklisted

Twap == INSTANCE TwapOracle

oracleVars == <<now, observations, oracle>>
settings == <<fee, hooks, shut>>
vars == <<now, reserves, observations, oracle, supply, minted, lp, balance, escrow, gifts, fee, hooks, shut>>

ASSUME PoolAssumption ==
  /\ MINIMUM_LIQUIDITY \in Nat \ {0}
  /\ Deposits \subseteq Nat \X Nat /\ Offers \subseteq Nat
  /\ Gifts \subseteq Nat /\ Escrows \subseteq Nat
  /\ FeeRates \subseteq 0 .. BPS
  /\ Pools = (0 .. MaxReserve) \X (0 .. MaxReserve)
  /\ MaxReserve \in Nat /\ MaxEscrow \in Nat /\ MaxGifts \in Nat

Tokens == 1 .. 2
Other(t) == 3 - t

Init ==
  /\ Twap!Init
  /\ supply = 0 /\ minted = 0 /\ lp = [h \in Holders |-> 0]
  /\ balance = <<0, 0>> /\ escrow = <<0, 0>> /\ gifts = <<0, 0>>
  /\ fee \in FeeRates /\ hooks = << >> /\ shut = FALSE

\* Mutant: the handlers write no observation.
ObservesNot == UNCHANGED oracleVars

\* The first thing a handler of the pool does.
Observes == Twap!OracleUpdate /\ UNCHANGED now

-----------------------------------------------------------------------------
(* Liquidity. *)

Bootstrap == reserves[1] = 0 /\ reserves[2] = 0

\* Mutant: the shares of the side that gives more.
SharesGenerous(d) ==
  IF Bootstrap THEN Isqrt(d[1] * d[2])
  ELSE Larger(Portion(d[1], supply, reserves[1]), Portion(d[2], supply, reserves[2]))

Shares(d) ==
  IF Bootstrap THEN Isqrt(d[1] * d[2])
  ELSE Smaller(Portion(d[1], supply, reserves[1]), Portion(d[2], supply, reserves[2]))

\* Mutant: nothing is locked.
LockedNothing == 0
\* The first depositor is charged MINIMUM_LIQUIDITY; those shares are burned.
Locked == IF Bootstrap THEN MINIMUM_LIQUIDITY ELSE 0

\* The checks after the divisions, the narrowing of the root among them.
DepositSane(d) ==
  IF Bootstrap THEN Isqrt(d[1] * d[2]) \in Nat /\ SqrtSane(d[1] * d[2])
  ELSE PortionSane(d[1], supply, reserves[1]) /\ PortionSane(d[2], supply, reserves[2])

\* What the more generous side would give, less the tolerance (a share of ONE).
LeastShares(d, tolerance) ==
  IF Bootstrap THEN 0
  ELSE (Larger(Portion(d[1], supply, reserves[1]), Portion(d[2], supply, reserves[2]))
        * (ONE - tolerance)) \div ONE

ProvideLiquidity(h, d, tolerance) ==
  LET share == Shares(d) - Locked
  IN  /\ ~shut
      /\ d[1] > 0 /\ d[2] > 0
      /\ Observes
      /\ DepositSane(d) /\ Shares(d) > Locked
      /\ share >= LeastShares(d, tolerance)
      /\ reserves' = <<reserves[1] + d[1], reserves[2] + d[2]>>
      /\ supply' = supply + Shares(d)
      /\ minted' = minted + share
      /\ lp' = [lp EXCEPT ![h] = @ + share]
      /\ balance' = <<balance[1] + d[1], balance[2] + d[2]>>
      /\ UNCHANGED <<escrow, gifts, settings>>

Payout(t, amount) == Portion(amount, reserves[t], supply)

WithdrawLiquidity(h, amount, minAssets) ==
  /\ ~shut
  /\ amount \in 1 .. lp[h] /\ amount <= minted
  /\ Observes
  /\ supply > 0
  /\ \A t \in Tokens : PortionSane(amount, reserves[t], supply) /\ Payout(t, amount) >= minAssets[t]
  /\ amount <= supply
  /\ reserves' = <<reserves[1] - Payout(1, amount), reserves[2] - Payout(2, amount)>>
  /\ supply' = supply - amount
  /\ minted' = minted - amount
  /\ lp' = [lp EXCEPT ![h] = @ - amount]
  /\ balance' = <<balance[1] - Payout(1, amount), balance[2] - Payout(2, amount)>>
  /\ UNCHANGED <<escrow, gifts, settings>>

\* The LP token lets holders burn what they hold; the pair does not learn of it.
BurnShares(h, amount) ==
  /\ amount \in 1 .. lp[h] /\ amount <= minted
  /\ minted' = minted - amount
  /\ lp' = [lp EXCEPT ![h] = @ - amount]
  /\ UNCHANGED <<now, reserves, observations, oracle, supply, balance, escrow, gifts, settings>>

-----------------------------------------------------------------------------
(* Swaps. *)

\* What the pool leg does to the reserves when x of token t goes in.
AfterSwap(t, x, gross) ==
  [u \in Tokens |-> IF u = t THEN reserves[u] + x ELSE reserves[u] - gross]

\* x of token t is offered, of which declared is meant for the pool; makers on the
\* book take used and give paid, commission off it included; what is left of the
\* book leg goes to the pool too.  min is the least return the trader signs.
Swap(t, x, declared, used, paid, bps, bookFee, limit, min) ==
  LET u == Other(t)
      pooled == x - used
      gross == IF pooled > 0 THEN GrossOut(reserves[t], reserves[u], pooled) ELSE 0
      poolFee == Commission(gross, bps)
      total == (paid - bookFee) + (gross - poolFee)
      fees == poolFee + bookFee
      net == total - HookFees(hooks, total)
      leg == [offer |-> x, declared |-> declared, pool |-> pooled, book |-> used,
              net |-> gross - poolFee, fee |-> poolFee, bookNet |-> paid - bookFee,
              spread |-> IF pooled > 0 THEN Spread(reserves[t], reserves[u], pooled, gross) ELSE 0]
  IN  /\ ~shut
      /\ x > 0
      /\ hooks # << >> => min > 0
      /\ declared < x => limit.belief # NoBelief \/ min > 0
      /\ (declared < x /\ declared > 0 /\ limit.belief = NoBelief) => declared >= MinPoolLeg(x)
      /\ Observes
      /\ pooled > 0 =>
           reserves[1] > 0 /\ reserves[2] > 0 /\ SwapSane(reserves[t], reserves[u], pooled, bps)
      /\ reserves' = AfterSwap(t, pooled, gross)
      /\ MaxSpreadHolds(leg, limit.belief, limit.spread)
      /\ HookFees(hooks, BPS) <= BPS /\ net >= min
      /\ escrow' = [escrow EXCEPT ![u] = @ - paid]
      /\ balance' = [v \in Tokens |-> IF v = t THEN balance[v] + x - used
                                      ELSE balance[v] - total - fees]
      /\ UNCHANGED <<supply, minted, lp, gifts, settings>>

-----------------------------------------------------------------------------
(* Around the pool. *)

\* The book's side of the balance: an order rests, or its owner takes it out.
Rest(t, amount) ==
  /\ ~shut /\ escrow[t] + amount <= MaxEscrow
  /\ escrow' = [escrow EXCEPT ![t] = @ + amount]
  /\ balance' = [balance EXCEPT ![t] = @ + amount]
  /\ UNCHANGED <<now, reserves, observations, oracle, supply, minted, lp, gifts, settings>>

TakeOut(t, amount) ==
  /\ ~shut /\ amount <= escrow[t]
  /\ escrow' = [escrow EXCEPT ![t] = @ - amount]
  /\ balance' = [balance EXCEPT ![t] = @ - amount]
  /\ UNCHANGED <<now, reserves, observations, oracle, supply, minted, lp, gifts, settings>>

Gift(t, amount) ==
  /\ gifts[t] + amount <= MaxGifts
  /\ gifts' = [gifts EXCEPT ![t] = @ + amount]
  /\ balance' = [balance EXCEPT ![t] = @ + amount]
  /\ UNCHANGED <<now, reserves, observations, oracle, supply, minted, lp, escrow, settings>>

\* Mutant: the escrow of the book taken for surplus.
SurplusOfBook(t) == Excess(balance[t], reserves[t])

Surplus(t) == Excess(Excess(balance[t], reserves[t]), escrow[t])

Sweep(t) ==
  /\ Surplus(t) > 0
  /\ balance' = [balance EXCEPT ![t] = @ - Surplus(t)]
  /\ gifts' = [gifts EXCEPT ![t] = 0]
  /\ UNCHANGED <<now, reserves, observations, oracle, supply, minted, lp, escrow, settings>>

UpdateFee(bps) ==
  /\ bps # fee
  /\ fee' = bps
  /\ UNCHANGED <<now, reserves, observations, oracle, supply, minted, lp, balance, escrow, gifts, hooks, shut>>

UpdateHooks(list) ==
  /\ list # hooks
  /\ hooks' = list
  /\ UNCHANGED <<now, reserves, observations, oracle, supply, minted, lp, balance, escrow, gifts, fee, shut>>

\* SetPaused of the pair, or a change of the factory's list or of a token's code.
SetShut ==
  /\ shut' = ~shut
  /\ UNCHANGED <<now, reserves, observations, oracle, supply, minted, lp, balance, escrow, gifts, fee, hooks>>

Grow(n) ==
  /\ Twap!IncreaseObservationCardinality(n)
  /\ UNCHANGED <<supply, minted, lp, balance, escrow, gifts, settings>>

Tick ==
  /\ Twap!Tick
  /\ UNCHANGED <<supply, minted, lp, balance, escrow, gifts, settings>>

-----------------------------------------------------------------------------
Fits == reserves'[1] <= MaxReserve /\ reserves'[2] <= MaxReserve

\* What makers can give for the offer used, and the commission taken off it: the
\* book charges each fill and rounds down, so at most the rate on the whole.
BookFills(t, used, bps) ==
  IF used = 0 THEN {<<0, 0>>}
  ELSE {f \in (1 .. escrow[Other(t)]) \X (0 .. MaxEscrow) : f[2] <= Commission(f[1], bps)}

Trade ==
  \E t \in Tokens, x \in Offers, limit \in Limits, min \in 0 .. 1, bps \in {f \in FeeRates : f <= fee} :
    \E declared \in 0 .. x : \E used \in 0 .. x - declared : \E f \in BookFills(t, used, bps) :
      Swap(t, x, declared, used, f[1], bps, f[2], limit, min) /\ Fits

Provide == \E h \in Holders, d \in Deposits, limit \in Limits : ProvideLiquidity(h, d, limit.slippage) /\ Fits

Withdraw == \E h \in Holders : \E amount \in 1 .. lp[h], m \in 0 .. 1 : WithdrawLiquidity(h, amount, <<m, m>>)

Next ==
  \/ Provide
  \/ Withdraw
  \/ Trade
  \/ \E h \in Holders : \E amount \in 1 .. lp[h] : BurnShares(h, amount)
  \/ \E t \in Tokens, a \in Escrows : Rest(t, a) \/ TakeOut(t, a)
  \/ \E t \in Tokens, a \in Gifts : Gift(t, a)
  \/ \E t \in Tokens : Sweep(t)
  \/ \E bps \in FeeRates : UpdateFee(bps)
  \/ \E list \in HookLists : UpdateHooks(list)
  \/ SetShut
  \/ \E n \in 1 .. MAXSLOTS : Grow(n)
  \/ Tick

Spec == Init /\ [][Next]_vars

-----------------------------------------------------------------------------
TypeOK ==
  /\ reserves \in [Tokens -> Nat] /\ balance \in [Tokens -> Nat]
  /\ escrow \in [Tokens -> Nat] /\ gifts \in [Tokens -> Nat]
  /\ supply \in Nat /\ minted \in Nat /\ lp \in [Holders -> Nat]
  /\ fee \in FeeRates /\ shut \in BOOLEAN

\* The pair holds exactly its reserves, the book's escrow and what was given to it:
\* no swap with a book leg, deposit, withdrawal or sweep pays from the wrong pot.
Accounted ==
  \A t \in Tokens : balance[t] = reserves[t] + escrow[t] + gifts[t]

\* A pool once funded is never emptied, neither by swaps nor by withdrawals, so the
\* next deposit cannot pass for the first one and mint shares at par.
NeverDrained ==
  supply > 0 => reserves[1] > 0 /\ reserves[2] > 0

\* The shares that nobody holds stay locked: what the pair counts as supply exceeds
\* the LP token's supply by the first deposit's lock and by all that was burned since.
LockedForever ==
  supply > 0 => minted + MINIMUM_LIQUIDITY <= supply

\* Rounding always favours the pool: the product of the reserves per square of the
\* supply, so the worth of a share, never falls by a swap, deposit or withdrawal.
ShareWorthKept ==
  [][supply > 0 /\ supply' > 0 =>
       reserves'[1] * reserves'[2] * supply * supply >= reserves[1] * reserves[2] * supply' * supply']_vars

\* Every handler that changes the reserves observes the old ones first and leaves
\* the ring to the oracle otherwise: the pair is a user of TwapOracle.
ObservesFirst == Twap!Spec
=============================================================================
