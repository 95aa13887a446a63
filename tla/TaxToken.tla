------------------------------ MODULE TaxToken ------------------------------
(***************************************************************************)
(* The community tax token: who pays which tax on a transfer, where it     *)
(* goes, the guards of a launch, and the settlement of the official        *)
(* router's routes.                                                        *)
(*                                                                         *)
(* A message and all it calls take effect together or not at all, so the   *)
(* operators below map one state of the chain to the next.  A chain whose  *)
(* field failed is not empty is a message that was refused, with the       *)
(* causes; no step leads to it.                                            *)
(***************************************************************************)
EXTENDS RouteTax, FiniteSets, SequencesExt

CONSTANTS Tax,       \* the token
          Wallets,   \* people's accounts
          House,     \* the account the pairs send their commission to
          Treasury,  \* the account taxes go to
          Pairs, Router,
          Nobody,    \* no account
          Burn       \* the sink that burns

VARIABLES rates,     \* buy, sell and transfer rate, over BPS
          guards,    \* the launch guards: on, trading, cooldown, max
          exempt,    \* the manager and its directory
          sinks,     \* where taxes go: to, bps
          listed,    \* LISTED_PAIRS
          official,  \* config.router
          height,    \* the block
          chain      \* held, burned, last, used, failed and the router's fields

settings == <<rates, guards, exempt, sinks, listed, official>>

Accounts == Wallets \cup Pairs \cup {House, Treasury, Router}

NoCap == -1     \* max_wallet None
Never == -1     \* no block in LAST_TRADE_BLOCK
NoHook == "no hook"

\* Nobody is two accounts at once, and what is burned is nobody's.
ASSUME AccountAssumption ==
  /\ IsFiniteSet(Wallets) /\ IsFiniteSet(Pairs) /\ Wallets \cap Pairs = {}
  /\ {House, Treasury, Router} \cap (Wallets \cup Pairs) = {}
  /\ House # Treasury /\ House # Router /\ Treasury # Router
  /\ {Nobody, Burn, NoHook} \cap Accounts = {} /\ Nobody # NoHook

\* The context of a router that is not in a route; route_id 0 is refused.
NoRoute == [id |-> 0, trader |-> Nobody, pair |-> Nobody, offer |-> Nobody, ask |-> Nobody,
            gross |-> 0, economic |-> 0, transfers |-> {}, restore |-> {}, acquired |-> {}]

\* The factory and the token itself are protocol accounts too, and hold nothing.
Protocol == listed \cup ({official} \ {Nobody})

When(cause, holds) == IF holds THEN {cause} ELSE {}
Failed(c, causes) == [c EXCEPT !.failed = causes]
Then(c, next) == IF c.failed = {} THEN next ELSE c

-----------------------------------------------------------------------------
(* Classification.  swap is the trader that a Swap hook names, or NoHook.   *)

IsRouteTrader(a) == a # Nobody /\ a \notin Protocol

IsRouterSell(from, to, swap) == to \in listed /\ swap # NoHook /\ from = official

IsSell(from, to, swap) == to \in listed /\ swap # NoHook /\ (from \notin Protocol \/ from = official)

\* A pair that pays the router is a purchase when the live route asks this pair for
\* the token.  Mutant: never.
NeverRouterBuy(c, from, to) == FALSE
IsRouterBuy(c, from, to) ==
  /\ from \in listed /\ to = official
  /\ c.ctx.id # 0 /\ c.ctx.pair = from /\ c.ctx.ask = Tax

IsBuy(c, from, to) == (from \in Protocol /\ to \notin Protocol) \/ IsRouterBuy(c, from, to)

IsTransfer(from, to) == {from, to} \cap (Protocol \cup exempt) = {}

TradeKind(c, from, to, swap) ==
  IF IsSell(from, to, swap) THEN "sell"
  ELSE IF IsBuy(c, from, to) THEN "buy"
  ELSE IF IsTransfer(from, to) THEN "transfer" ELSE "honest"

HopTrader(c, from, to, swap) ==
  IF IsRouterSell(from, to, swap) THEN swap
  ELSE IF IsRouterBuy(c, from, to) THEN c.ctx.trader ELSE Nobody

\* Within a route the trader's exemption counts, and nobody else's.
TraderRate(trader, kind) == IF trader \in exempt THEN 0 ELSE rates[kind]
RateOf(kind, hop, from, to) ==
  IF kind = "honest" \/ (IF hop # Nobody THEN hop \in exempt ELSE {from, to} \cap exempt # {})
  THEN 0 ELSE rates[kind]

-----------------------------------------------------------------------------
(* Sinks: every share is rounded down but the last, which takes the rest.   *)

Share(tax, i) ==
  IF i < Len(sinks) THEN TaxOf(tax, sinks[i].bps)
  ELSE tax - SumFunctionOnSet([j \in 1 .. i - 1 |-> TaxOf(tax, sinks[j].bps)], 1 .. i - 1)

ShareOf(tax, a) ==
  SumFunctionOnSet([i \in DOMAIN sinks |-> Share(tax, i)], {i \in DOMAIN sinks : sinks[i].to = a})

\* A tax of a route must not go to the router or a pair.
Misdirected(tax) == \E a \in Protocol : ShareOf(tax, a) > 0

-----------------------------------------------------------------------------
(* Launch guards.                                                           *)

IsTrade(kind) == guards.on /\ kind \in {"buy", "sell"}

Cooling(c, a) ==
  guards.cooldown > 0 /\ c.last[a] # Never /\ height < c.last[a] + guards.cooldown

OverCap(c, to, credit) ==
  /\ guards.on /\ guards.max # NoCap
  /\ to \notin Protocol /\ credit > 0 /\ c.held[Tax][to] + credit > guards.max

GuardCauses(c, kind, traders, to, credit) ==
  When("halted", IsTrade(kind) /\ ~guards.trading)
  \cup When("cooldown", IsTrade(kind) /\ \E a \in traders \ Protocol : Cooling(c, a))
  \cup When("cap", OverCap(c, to, credit))

\* record_trade_blocks
Marked(c, kind, traders) ==
  [a \in Accounts |->
    IF IsTrade(kind) /\ a \in traders \ Protocol THEN height ELSE c.last[a]]

-----------------------------------------------------------------------------
(* apply_transfer                                                           *)

\* A router's sale is what its live route says, tax included.
Authorized(c, to, amount, trader) ==
  /\ c.ctx.id # 0
  /\ c.ctx.trader = trader /\ c.ctx.pair = to /\ c.ctx.offer = Tax /\ c.ctx.economic = amount
  /\ amount + TaxOf(amount, TraderRate(trader, "sell")) <= c.ctx.gross

\* Balances after a debit and a credit, of two accounts or of one.
Shifted(held, from, debit, to, credit) ==
  [a \in Accounts |-> held[a] - (IF a = from THEN debit ELSE 0) + (IF a = to THEN credit ELSE 0)]

Transfer(c, from, to, amount, swap) ==
  LET kind == TradeKind(c, from, to, swap)
      hop == HopTrader(c, from, to, swap)
      routerSell == IsRouterSell(from, to, swap)
      tax == TaxOf(amount, RateOf(kind, hop, from, to))
      debit == IF kind = "sell" THEN amount + tax ELSE amount
      credit == IF kind \in {"buy", "transfer"} THEN amount - tax ELSE amount
      traders == {from, to, hop} \ {Nobody}
      bought == routerSell /\ Tax \in c.ctx.acquired
      causes ==
        When("trader", (routerSell \/ IsRouterBuy(c, from, to)) /\ ~IsRouteTrader(hop))
        \cup When("context", routerSell /\ ~Authorized(c, to, amount, hop))
        \cup When("funds", c.held[Tax][from] < debit)
        \cup When("sink", hop # Nobody /\ Misdirected(tax))
        \cup GuardCauses(c, kind, IF bought THEN {from, to} ELSE traders, to, credit)
      moved == Shifted(c.held[Tax], from, debit, to, credit)
  IN  IF causes # {} THEN Failed(c, causes)
      ELSE [c EXCEPT !.held[Tax] = [a \in Accounts |-> moved[a] + ShareOf(tax, a)],
                     !.burned = @ + ShareOf(tax, Burn),
                     !.last = Marked(c, kind, traders)]

-----------------------------------------------------------------------------
(* Settlement of a route: each slot of a route pays once.                   *)

\* Mutant: a refund of anything is the trader's own.
RestoresAny(c, entry) == entry.recipient = c.ctx.trader
Restores(c, entry) ==
  /\ entry.recipient = c.ctx.trader
  /\ \E refund \in c.ctx.restore : [refund EXCEPT !.slot = entry.slot] = entry

\* A rotation leaves the floor with no slot: the routes up to it are history.
Spent(c, slot) ==
  \/ c.ctx.id < c.used.id
  \/ c.ctx.id = c.used.id /\ (slot \in c.used.slots \/ c.used.slots = {})

Consumed(c, slot) ==
  [id |-> c.ctx.id, slots |-> (IF c.ctx.id > c.used.id THEN {} ELSE c.used.slots) \cup {slot}]

\* entry: slot, token, recipient, amount.
RouteTransfer(c, sender, entry) ==
  LET causes ==
        When("sender", sender # official)
        \cup When("context", c.ctx.id = 0 \/ entry \notin c.ctx.transfers)
        \cup When("slot", Spent(c, entry.slot))
        \cup When("funds", c.held[Tax][sender] < entry.amount)
        \cup IF Restores(c, entry) THEN {}
             ELSE GuardCauses(c, "honest", {}, entry.recipient, entry.amount)
  IN  IF causes # {} THEN Failed(c, causes)
      ELSE [c EXCEPT !.held[Tax] = Shifted(@, sender, entry.amount, entry.recipient, entry.amount),
                     !.used = Consumed(c, entry.slot)]

\* route_preview's checks of a hop through pair for trader, with its tax.
Previewed(pair, trader, tax) ==
  official = Router /\ pair \in listed /\ IsRouteTrader(trader) /\ ~Misdirected(tax)

-----------------------------------------------------------------------------
(* Governance of the token and its manager.                                 *)

UpdateSettings(newRates, newGuards, newExempt, newSinks) ==
  /\ <<newRates, newGuards, newExempt, newSinks>> # <<rates, guards, exempt, sinks>>
  \* addresses of the protocol are neither added nor removed
  /\ ((newExempt \ exempt) \cup (exempt \ newExempt)) \cap Protocol = {}
  \* guards take effect with the feature, which is never switched off again
  /\ newGuards.on = guards.on /\ (guards.on \/ newGuards = guards)
  /\ rates' = newRates /\ guards' = newGuards /\ exempt' = newExempt /\ sinks' = newSinks
  /\ UNCHANGED <<listed, official, height, chain>>

\* enable_feature: trading is off until the manager opens it.
EnableLaunchGuards ==
  /\ ~guards.on
  /\ guards' = [on |-> TRUE, trading |-> FALSE, cooldown |-> 0, max |-> NoCap]
  /\ UNCHANGED <<rates, exempt, sinks, listed, official, height, chain>>

RegisterListedPair(pair) ==
  /\ pair \notin listed
  /\ listed' = listed \cup {pair}
  /\ UNCHANGED <<rates, guards, exempt, sinks, official, height, chain>>

\* The floor under settlements is the candidate's last route, or what was consumed of
\* it.  Mutant: above it.
FloorAbove == chain.routeId + 1
Floor == Larger(chain.routeId, chain.used.id)

RotateRouter(candidate) ==
  /\ official' = candidate
  /\ chain' = [chain EXCEPT !.used = [id |-> IF candidate = Nobody THEN 0 ELSE Floor,
                                      slots |-> {}]]
  /\ UNCHANGED <<rates, guards, exempt, sinks, listed, height>>
=============================================================================
