----------------------------- MODULE TaxRoutes -----------------------------
(***************************************************************************)
(* The router, the pairs it trades with and the community tax token: a     *)
(* route is one message that sells through one pair after the other and    *)
(* settles refunds and output at the end, and quotes foresee its amounts.  *)
(* The other tokens move what they are told to.  Pairs have no hooks and   *)
(* no book here, and one fee for everybody.                                *)
(***************************************************************************)
EXTENDS TaxToken

CONSTANTS Tokens, PairTokens, \* the two tokens of each pair
          Paths,              \* the paths routes take
          FeeBps,             \* the pairs' fee
          MaxSpread,          \* the spread a route tolerates
          InitialPool,        \* of either token of a pair
          InitialHeld,        \* what a wallet holds of each token
          Setups,             \* settings to start with
          Exemptions,         \* sets of exempt accounts
          Amounts, Gift,      \* what is offered, and given away
          MaxActs, MaxHeight  \* bounds on messages and blocks

VARIABLES given, \* history: what was sent to pairs and router outside of trades
          acts   \* messages so far

vars == <<settings, height, chain, given, acts>>

\* A path leads from pair to pair.  Taxes go to the treasury or are burned; only pairs
\* that trade the token are listed with it; a pair leaves something of what it returns.
ASSUME RouteAssumption ==
  /\ Tax \in Tokens /\ DOMAIN PairTokens = Pairs
  /\ \A p \in Pairs : \E a, b \in Tokens : a # b /\ PairTokens[p] = {a, b}
  /\ \A path \in Paths :
       /\ path \in Seq(Tokens) /\ Len(path) > 1
       /\ \A i \in 1 .. Len(path) - 1 :
            \E p \in Pairs : path[i] # path[i + 1] /\ PairTokens[p] = {path[i], path[i + 1]}
  /\ FeeBps \in 0 .. BPS - 1 /\ MaxSpread \in Nat
  /\ InitialPool \in Nat \ {0} /\ InitialHeld \in [Wallets -> Nat]
  /\ Amounts \subseteq Nat \ {0} /\ Gift \in Nat
  /\ \A setup \in Setups :
       /\ setup.rates \in [buy : 0 .. BPS, sell : 0 .. BPS, transfer : 0 .. BPS]
       /\ setup.guards \in [on : BOOLEAN, trading : BOOLEAN, cooldown : Nat,
                            max : Nat \cup {NoCap}]
       /\ setup.sinks \in Seq([to : {Treasury, Burn}, bps : 0 .. BPS]) /\ setup.sinks # <<>>
       /\ setup.listed \subseteq {p \in Pairs : Tax \in PairTokens[p]}
       /\ setup.official \in {Router, Nobody}

PairOf(a, b) == CHOOSE p \in Pairs : PairTokens[p] = {a, b}

InitChain ==
  [held |-> [t \in Tokens |-> [a \in Accounts |->
               IF a \in Wallets THEN InitialHeld[a]
               ELSE IF a \in Pairs /\ t \in PairTokens[a] THEN InitialPool ELSE 0]],
   pool |-> [p \in Pairs |-> [t \in PairTokens[p] |-> InitialPool]],
   last |-> [a \in Accounts |-> Never],
   used |-> [id |-> 0, slots |-> {}],
   burned |-> 0, failed |-> {},
   \* the router's: LAST_ROUTE_ID and, within a route, SWAP_STATE
   routeId |-> 0, ctx |-> NoRoute, refunds |-> <<>>, got |-> 0]

-----------------------------------------------------------------------------
(* Swaps.                                                                   *)

Plain(c, token, from, to, amount) ==
  IF c.held[token][from] < amount THEN Failed(c, {"funds"})
  ELSE [c EXCEPT !.held[token] = Shifted(@, from, amount, to, amount)]

Pays(c, token, from, to, amount, swap) ==
  IF token = Tax THEN Transfer(c, from, to, amount, swap)
  ELSE Plain(c, token, from, to, amount)

SwapCauses(rin, rout, amount, floor) ==
  LET gross == GrossOut(rin, rout, amount)
      fee == Commission(gross, FeeBps)
      leg == [offer |-> amount, declared |-> amount, pool |-> amount, book |-> 0,
              net |-> gross - fee, fee |-> fee, bookNet |-> 0,
              spread |-> Spread(rin, rout, amount, gross)]
  IN  When("zero", amount = 0)
      \cup When("floor", gross - fee < floor)
      \cup When("spread", ~WithinSpread(leg, MaxSpread))

\* Nothing is sent of nothing.
PairPays(c, token, pair, to, amount) ==
  IF amount > 0 THEN Pays(c, token, pair, to, amount, NoHook) ELSE c

\* The pair's side of a swap: the reserves, then the return, then the commission.
PairSwap(c, pair, offer, ask, amount, receiver, floor) ==
  LET rin == c.pool[pair][offer]
      rout == c.pool[pair][ask]
      gross == GrossOut(rin, rout, amount)
      fee == Commission(gross, FeeBps)
      causes == SwapCauses(rin, rout, amount, floor)
      reserves == [t \in PairTokens[pair] |-> IF t = offer THEN rin + amount ELSE rout - gross]
      swapped == [c EXCEPT !.pool[pair] = reserves]
      payments == <<[to |-> receiver, amount |-> gross - fee], [to |-> House, amount |-> fee]>>
      \* after k payments
      paid[k \in 0 .. 2] ==
        IF k = 0 THEN swapped
        ELSE Then(paid[k - 1], PairPays(paid[k - 1], ask, pair, payments[k].to, payments[k].amount))
  IN  IF causes # {} THEN Failed(c, causes)
      ELSE paid[2]

\* The pair is told what arrived.
Arrived(c, sent, pair, offer, ask, receiver, floor) ==
  Then(sent, PairSwap(sent, pair, offer, ask, sent.held[offer][pair] - c.held[offer][pair],
                      receiver, floor))

\* Send with a Swap hook, which names trader.
SendSwap(c, from, offer, ask, amount, receiver, floor, trader) ==
  LET pair == PairOf(offer, ask)
  IN  Arrived(c, Pays(c, offer, from, pair, amount, trader), pair, offer, ask, receiver, floor)

\* A wallet that trades with a pair itself.
DirectSwap(c, wallet, offer, ask, amount) ==
  SendSwap(c, wallet, offer, ask, amount, wallet, 0, Nobody)

-----------------------------------------------------------------------------
(* The router's amounts, the same in quotes and in routes.                  *)

\* What of gross can be sold through pair, and the floor of a hop before its tax.
Funded(token, gross, trader) ==
  IF token = Tax THEN SellFromGross(gross, TraderRate(trader, "sell")) ELSE gross
SellTax(token, economic, trader) ==
  IF token = Tax THEN TaxOf(economic, TraderRate(trader, "sell")) ELSE 0
BuyNet(token, output, trader) ==
  IF token = Tax THEN BuyFromGross(output, TraderRate(trader, "buy")) ELSE output
FloorBefore(token, floor, trader) ==
  IF token = Tax THEN ReverseBuy(floor, TraderRate(trader, "buy")) ELSE floor

\* A token that taxes may occur once in a path, unless as the ask and next offer.
ValidPath(path) ==
  \A i \in 2 .. Len(path) : path[i] = Tax => \A j \in 1 .. i - 1 : path[j] # Tax

HopPair(path, i) == PairOf(path[i], path[i + 1])

\* A preview of a tax of amount, as far as the token of the hop is the tax token.
HopPreviewed(token, pair, trader, tax) == token = Tax => Previewed(pair, trader, tax)

-----------------------------------------------------------------------------
(* A route.                                                                 *)

\* Mutant: the whole balance counts as output.
OutputAll(after, before) == after
Output(after, before) == after - before

\* What came back from a hop funds the next.
Received(c, swapped, ask) ==
  LET got == Output(swapped.held[ask][Router], c.held[ask][Router])
  IN  Then(swapped, IF got = 0 THEN Failed(c, {"no output"})
                    ELSE [swapped EXCEPT !.got = got, !.ctx.acquired = @ \cup {ask}])

\* One hop: the sale funded out of gross, its context, the swap, and what came back.
Hop(c, path, i, trader, floor) ==
  LET offer == path[i]
      ask == path[i + 1]
      pair == HopPair(path, i)
      economic == Funded(offer, c.got, trader)
      tax == SellTax(offer, economic, trader)
      residue == c.got - (economic + tax)
      refund == [slot |-> Len(c.refunds), token |-> offer, recipient |-> trader, amount |-> residue]
      refunds == IF residue = 0 THEN c.refunds ELSE Append(c.refunds, refund)
      ctx == [id |-> c.routeId, trader |-> trader, pair |-> pair, offer |-> offer, ask |-> ask,
              gross |-> c.got, economic |-> economic, transfers |-> {},
              restore |-> IF i = 1 THEN ToSet(refunds) ELSE c.ctx.restore,
              acquired |-> c.ctx.acquired]
      causes == When("preview", ~HopPreviewed(offer, pair, trader, tax))
                \cup When("preview", floor > 0 /\
                         ~HopPreviewed(ask, pair, trader, TraderRate(trader, "buy")))
                \cup When("floor", floor > 0 /\ FloorBefore(ask, floor, trader) = Unreachable)
  IN  IF causes # {} THEN Failed(c, causes)
      ELSE Received(c, SendSwap([c EXCEPT !.ctx = ctx, !.refunds = refunds], Router, offer, ask,
                                economic, Router, FloorBefore(ask, floor, trader), trader), ask)

Deliver(c, entry) ==
  IF entry.token = Tax THEN RouteTransfer(c, Router, entry)
  ELSE Plain(c, entry.token, Router, entry.recipient, entry.amount)

\* The last reply: refunds and output, authorized entry by entry, then no state is left.
Settle(c, path, to, minimum) ==
  LET output == [slot |-> Len(c.refunds), token |-> Last(path), recipient |-> to, amount |-> c.got]
      transfers == Append(c.refunds, output)
      live == [c EXCEPT !.ctx.transfers = ToSet(transfers)]
      \* after k transfers
      settled[k \in 0 .. Len(transfers)] ==
        IF k = 0 THEN live ELSE Then(settled[k - 1], Deliver(settled[k - 1], transfers[k]))
  IN  IF c.got < minimum THEN Failed(c, {"minimum"})
      ELSE [settled[Len(transfers)] EXCEPT !.ctx = NoRoute, !.refunds = <<>>, !.got = 0]

\* The route that a deposit begins.
Begun(c, sent, token) ==
  Then(sent, [sent EXCEPT !.routeId = @ + 1, !.got = sent.held[token][Router] - c.held[token][Router]])

\* floors: min_return of every hop, 0 for none.
Routed(c, trader, to, path, amount, minimum, floors) ==
  LET begun == Begun(c, Pays(c, path[1], trader, Router, amount, NoHook), path[1])
      \* after i hops, the settlement after the last
      after[i \in 0 .. Len(path)] ==
        IF i = 0 THEN begun
        ELSE Then(after[i - 1], IF i < Len(path) THEN Hop(after[i - 1], path, i, trader, floors[i])
                                ELSE Settle(after[i - 1], path, to, minimum))
  IN  IF ~ValidPath(path) THEN Failed(c, {"path"}) ELSE after[Len(path)]

NoFloors(path) == [i \in 1 .. Len(path) - 1 |-> 0]

-----------------------------------------------------------------------------
(* Quotes, which look at the pairs as they are before the route.  They are  *)
(* the amounts where every preview answers.                                *)

SimulateHop(path, i, amount, trader) ==
  LET pair == HopPair(path, i)
      economic == Funded(path[i], amount, trader)
  IN  BuyNet(path[i + 1], NetOut(chain.pool[pair][path[i]], chain.pool[pair][path[i + 1]],
                                 economic, FeeBps), trader)

\* The amount after every hop.
Simulated(path, amount, trader) ==
  LET after[i \in 0 .. Len(path) - 1] ==
        IF i = 0 THEN amount ELSE SimulateHop(path, i, after[i - 1], trader)
  IN  [i \in 1 .. Len(path) - 1 |-> after[i]]

Simulate(path, amount, trader) == Last(Simulated(path, amount, trader))

\* What a route has to start with to end with target.
ReverseHop(path, i, target, trader) ==
  LET pair == HopPair(path, i)
      economic == MinPoolInput(chain.pool[pair][path[i]], chain.pool[pair][path[i + 1]], FeeBps,
                               FloorBefore(path[i + 1], target, trader))
  IN  IF target = Unreachable \/ FloorBefore(path[i + 1], target, trader) = Unreachable
         \/ economic = Unreachable
      THEN Unreachable
      ELSE IF path[i] = Tax THEN ReverseSell(economic, TraderRate(trader, "sell")) ELSE economic

ReverseSimulate(path, target, trader) ==
  LET before[i \in 1 .. Len(path)] ==
        IF i = Len(path) THEN target ELSE ReverseHop(path, i, before[i + 1], trader)
      need == before[1]
  IN  IF need # Unreachable /\ Simulate(path, need, trader) < target THEN Unreachable ELSE need

-----------------------------------------------------------------------------
(* Messages.                                                                *)

Init ==
  /\ \E setup \in Setups :
        /\ rates = setup.rates /\ guards = setup.guards /\ sinks = setup.sinks
        /\ listed = setup.listed /\ official = setup.official
  /\ exempt \in Exemptions
  /\ height = 0 /\ acts = 0 /\ chain = InitChain
  /\ given = [t \in Tokens |-> [a \in Pairs \cup {Router} |-> 0]]

\* A minimum and floors refuse routes, and change nothing in those that pass: they are
\* inputs of the properties below.
Route(trader, to, path, amount) ==
  LET after == Routed(chain, trader, to, path, amount, 0, NoFloors(path))
  IN  /\ after.failed = {} /\ chain' = after
      /\ UNCHANGED <<settings, height, given>>

Trade(wallet, offer, ask, amount) ==
  LET after == DirectSwap(chain, wallet, offer, ask, amount)
  IN  /\ after.failed = {} /\ chain' = after
      /\ UNCHANGED <<settings, height, given>>

\* A transfer to anybody, also to a pair or the router, where it stays.
Give(from, to, token, amount) ==
  LET after == Pays(chain, token, from, to, amount, NoHook)
  IN  /\ after.failed = {} /\ chain' = after
      /\ given' = [t \in Tokens |-> [a \in Pairs \cup {Router} |->
                     given[t][a] + (IF t = token /\ a = to
                                    THEN after.held[t][a] - chain.held[t][a] ELSE 0)]]
      /\ UNCHANGED <<settings, height>>

Tick ==
  /\ height < MaxHeight
  /\ height' = height + 1
  /\ UNCHANGED <<settings, chain, given, acts>>

Message ==
  \/ \E t, to \in Wallets, path \in Paths, n \in Amounts : Route(t, to, path, n)
  \/ \E t \in Wallets, p \in Pairs, n \in Amounts :
        \E offer, ask \in PairTokens[p] : offer # ask /\ Trade(t, offer, ask, n)
  \/ \E t \in Wallets, to \in Wallets \cup Pairs \cup {Router} :
        t # to /\ Give(t, to, Tax, Gift)

Governance ==
  /\ \/ \E setup \in Setups, e \in Exemptions :
           UpdateSettings(setup.rates,
                          IF guards.on THEN [setup.guards EXCEPT !.on = TRUE] ELSE guards,
                          e, setup.sinks)
     \/ EnableLaunchGuards
     \/ \E p \in Pairs : Tax \in PairTokens[p] /\ RegisterListedPair(p)
     \/ \E candidate \in {Router, Nobody} : RotateRouter(candidate)
  /\ UNCHANGED given

Next ==
  \/ acts < MaxActs /\ acts' = acts + 1 /\ (Message \/ Governance)
  \/ Tick

Spec == Init /\ [][Next]_vars

-----------------------------------------------------------------------------
\* Whatever messages do, a pair holds its reserves and what was given to it and
\* nothing more, the router holds what strays and nothing of anybody's route, and
\* every token is somewhere or burned.
BooksBalance ==
  /\ \A p \in Pairs : \A t \in PairTokens[p] :
        chain.held[t][p] = chain.pool[p][t] + given[t][p]
  /\ \A t \in Tokens :
        /\ chain.held[t][Router] = given[t][Router]
        /\ SumFunctionOnSet(chain.held[t], Accounts) + (IF t = Tax THEN chain.burned ELSE 0)
           = SumFunctionOnSet(InitChain.held[t], Accounts)

\* A wallet that trades along the path itself, with what the router would have sold.
AloneAfter(trader, path, amount) ==
  LET after[i \in 0 .. Len(path) - 1] ==
        IF i = 0 THEN [c |-> chain, n |-> amount]
        ELSE LET before == after[i - 1]
                 c == DirectSwap(before.c, trader, path[i], path[i + 1],
                                 Funded(path[i], before.n, trader))
             IN  [c |-> Then(before.c, c),
                  n |-> c.held[path[i + 1]][trader] - before.c.held[path[i + 1]][trader]]
  IN  after[Len(path) - 1].c

\* The token knows the pairs that the path trades it with.
Listed(path) ==
  \A i \in 1 .. Len(path) - 1 : Tax \in {path[i], path[i + 1]} => HopPair(path, i) \in listed

\* A route leaves every account and every pool as its trader would have by trading
\* with the pairs one after the other: it is taxed neither less nor more, pays
\* the same commissions, and the trader keeps the same change (apply_transfer,
\* reply_swap_hop).  A pair that is not listed pays wallets transfers and the router
\* nothing that is taxed.
RouteIsItsTrades ==
  ~guards.on =>
    \A trader \in Wallets, path \in Paths, n \in Amounts :
      LET route == Routed(chain, trader, trader, path, n, 0, NoFloors(path))
          alone == AloneAfter(trader, path, n)
      IN  Listed(path) /\ route.failed = {} =>
            /\ alone.failed = {}
            /\ <<route.held, route.pool, route.burned>> = <<alone.held, alone.pool, alone.burned>>

\* A quote looks at every pair once, as it is before the route.
OncePerPair(path) ==
  \A i, j \in 1 .. Len(path) - 1 : i # j => HopPair(path, i) # HopPair(path, j)

\* A route gets what was quoted, hop by hop: with the quote as minimum and as floor
\* of every hop it passes, with one unit more in any of them it is refused for it
\* (simulate_swap_operations, reverse_buy).
QuoteKept ==
  \A trader \in Wallets, path \in Paths, n \in Amounts :
    LET route == Routed(chain, trader, trader, path, n, 0, NoFloors(path))
        quote == Simulated(path, n, trader)
        total == Last(quote)
    IN  OncePerPair(path) /\ Listed(path) /\ route.failed = {} =>
          /\ Routed(chain, trader, trader, path, n, total, quote) = route
          /\ Routed(chain, trader, trader, path, n, total + 1, quote).failed = {"minimum"}
          /\ \A i \in DOMAIN quote :
               Routed(chain, trader, trader, path, n, 0,
                      [NoFloors(path) EXCEPT ![i] = quote[i] + 1]).failed = {"floor"}

\* The amount a reverse quote asks for is enough, and one unit less is not, through
\* every floor of fees, taxes and products; it is refused only if no amount would do.
ReverseExact ==
  \A trader \in Wallets, path \in Paths :
    \A target \in 1 .. InitialPool :
      LET need == ReverseSimulate(path, target, trader)
      IN  OncePerPair(path) /\ ValidPath(path) =>
            IF need = Unreachable
            THEN \A n \in Amounts : Simulate(path, n, trader) < target
            ELSE /\ Simulate(path, need, trader) >= target
                 /\ need > 0 => Simulate(path, need - 1, trader) < target

\* As long as the token trusts the router and knows its pairs, a route is refused for
\* what the trader asked or for a guard, and never for its own funding, context or
\* settlement, after any rotation of routers and with any gifts in the way.
RefusedForCause ==
  official = Router =>
    \A trader \in Wallets, path \in Paths, n \in Amounts :
      LET causes == Routed(chain, trader, trader, path, n, 0, NoFloors(path)).failed
      IN  Listed(path) =>
            /\ causes \subseteq {"path", "funds", "halted", "cooldown", "cap", "spread", "zero", "no output"}
            /\ "funds" \in causes => chain.held[path[1]][trader] < n
            /\ "cap" \in causes => Tax \in {path[i] : i \in 2 .. Len(path)}
            /\ "path" \in causes =>
                 \E i, j \in 1 .. Len(path) : i # j /\ path[i] = Tax /\ path[j] = Tax
            /\ "cooldown" \in causes => Cooling(chain, trader) \/ Cooling(chain, House)

\* No step lifts a wallet over the cap, and a pool of the token moves only for a
\* wallet whose own cooldown was over and starts again.  A route that gets the token
\* from a pair that is not listed sells it on in the cooldown, because the token takes
\* what the route acquired to be checked (apply_transfer).
NobodyOverCap ==
  \A a \in Wallets :
    guards.on /\ guards.max # NoCap /\ chain'.held[Tax][a] > chain.held[Tax][a]
      => chain'.held[Tax][a] <= guards.max

Traded(p) == Tax \in PairTokens[p] /\ chain'.pool[p][Tax] # chain.pool[p][Tax]

EveryTradeMarked ==
  \A p \in listed :
    guards.on /\ Traded(p)
      => /\ guards.trading
         /\ \E a \in Wallets :
              chain'.last[a] = height /\ (Cooling(chain, a) => \E q \in Pairs \ listed : Traded(q))

GuardsHold == [][NobodyOverCap /\ EveryTradeMarked]_vars

\* The launch guards' rule, "the pair timestamp must never rate-limit a third party": a
\* wallet whose own cooldown is over is never refused a trade for a cooldown.  It is
\* refuted: a pair's commission is a purchase of the pair's fee treasury
\* (classify_trade), which cools down like any wallet (check_cooldown).
OnlyOwnCooldown ==
  \A a \in Wallets, p \in listed, n \in Amounts :
    \A offer, ask \in PairTokens[p] :
      offer # ask /\ "cooldown" \in DirectSwap(chain, a, offer, ask, n).failed => Cooling(chain, a)
=============================================================================
