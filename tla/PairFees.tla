------------------------------ MODULE PairFees ------------------------------
(***************************************************************************)
(* What a pair charges whom: the pairs listed by the factory ask the       *)
(* discount registry and keep its answers for a while                      *)
(* (contracts/pair/src/discount_cache.rs).  Trades throw lapsed            *)
(* registrations out, by a message that runs after the trade's transfers.  *)
(***************************************************************************)
EXTENDS FeeDiscount, Factory

CONSTANTS
  Registry,     \* the registry's address; any other but None does not answer
  PaysCl8y,     \* pairs that trade CL8Y
  Requests,     \* <<pair, trader named, sender>> of the trades there may be
  BPS,          \* 10 000 basis points
  TTL,          \* DISCOUNT_CACHE_TTL_SECONDS, in blocks
  MaxActs       \* bound on messages that neither trade nor list a pair

ASSUME FeesAssumption ==
  /\ Requests \subseteq Nat \X Wallets \X Wallets
  /\ BPS \in Nat \ {0} /\ TTL \in Nat \ {0} /\ MaxActs \in Nat /\ Registry # None
  /\ \A t \in Terms : t.swap <= BPS /\ t.limit <= BPS
  /\ \A i \in DOMAIN Ladder : Ladder[i].swap <= BPS /\ Ladder[i].limit <= BPS

VARIABLES
  cache,   \* DISCOUNT_CACHE of all pairs, on the entries that exist
  acts     \* messages so far, those that trade or list a pair left out

factory == <<now, default, pairs, created, rollout>>
feeVars == <<registry, balance, factory, cache, acts>>

Init ==
  InitRegistry /\ InitFactory /\ cache = [c \in {} |-> 0] /\ acts = 0

\* effective_fee_bps
Effective(fee, discount) == (fee * (BPS - discount)) \div BPS

Asks(i) == pairs[i].has["registry"]
Fee(i) == pairs[i].has["fee"]
Plain(i) == [fee |-> Fee(i), limit |-> 0, lapsed |-> FALSE, epoch |-> 0]

\* The registry's answer, or the plain fee if there is none.
Live(i, w, s) ==
  IF Asks(i) # Registry THEN Plain(i)
  ELSE LET a == Answer(w, s) IN
       [fee |-> Effective(Fee(i), a.swap), limit |-> a.limit,
        lapsed |-> a.lapsed, epoch |-> a.epoch]

\* Mutant: an entry is served for one more second.
IsFreshAtBoundary(e) == now - e.at <= TTL
IsFresh(e) == now - e.at < TTL

Hit(c) == c \in DOMAIN cache /\ IsFresh(cache[c])

\* lookup_effective_fee_bps_cached.  Without a registry the cache is not asked.
Lookup(i, w, s) ==
  IF Asks(i) # None /\ Hit(<<i, w, s>>)
  THEN [fee |-> cache[<<i, w, s>>].fee, limit |-> cache[<<i, w, s>>].limit,
        lapsed |-> FALSE, epoch |-> 0]
  ELSE Live(i, w, s)

\* What a lookup leaves in the cache; a lapsed answer throws the entry out.
Cached(i, w, s) ==
  LET c == <<i, w, s>>  l == Live(i, w, s) IN
  IF Asks(i) # Registry \/ Hit(c) THEN cache
  ELSE IF l.lapsed THEN Without(cache, c)
  ELSE With(cache, c, [fee |-> l.fee, limit |-> l.limit, at |-> now])

\* The message to the registry names the trader, with the epoch answered.  If it
\* fails, so does everything.
Outcome(i, w, s, held) == DeregisterOutcome(w, Lookup(i, w, s).epoch, held)
DeregisterAfter(i, w, s, held) ==
  IF ~Lookup(i, w, s).lapsed THEN UNCHANGED registration
  ELSE /\ Outcome(i, w, s, held) # "error"
       /\ registration' = IF Outcome(i, w, s, held) = "removed"
                          THEN Without(registration, w) ELSE registration

Elsewhere == UNCHANGED <<tiers, epochs, trusted, factory, acts>>

Gains(i) == IF pairs[i].key \in PaysCl8y THEN {0, 1} ELSE {0}
After(to, gain) == [balance EXCEPT ![to] = balance[to] + gain]

\* The fee's part of execute_swap: s sends a swap naming w, the receiver gets gain.
Swap(i, w, s, to, gain) ==
  /\ balance[to] + gain <= MaxBalance
  /\ balance' = After(to, gain)
  /\ cache' = Cached(i, w, s)
  /\ DeregisterAfter(i, w, s, After(to, gain)[w])
  /\ Elsewhere

\* The fee's part of a placement, by its owner.  The message is the first sent.
PlaceLimitOrders(i, w) ==
  /\ cache' = Cached(i, w, w)
  /\ DeregisterAfter(i, w, w, balance[w])
  /\ UNCHANGED balance
  /\ Elsewhere

-----------------------------------------------------------------------------
GovernRegistry ==
  \/ \E i \in TierIds : RemoveTier(i) \/ \E t \in Terms : AddTier(i, t) \/ UpdateTier(i, t)
  \/ \E w \in Wallets : Expel(w) \/ SetTrusted(w) \/ \E i \in TierIds : RegisterWallet(w, i)

Govern ==
  /\ \/ GovernRegistry /\ UNCHANGED factory
     \/ GovernFactory /\ UNCHANGED <<registry, balance>>
  /\ UNCHANGED cache

Join ==
  /\ \E w \in Wallets :
       \/ Deregister(w) \/ DeregisterWallet(w)
       \/ \E i \in TierIds : Register(w, i)
       \/ \E b \in 0 .. MaxBalance : MoveCl8y(w, b)
  /\ UNCHANGED <<factory, cache>>

List ==
  /\ \E key \in Keys : CreatePair(key)
  /\ UNCHANGED <<registry, balance, cache, acts>>

Act == acts < MaxActs /\ acts' = acts + 1 /\ (Govern \/ Join)

Tick == NextBlock /\ UNCHANGED <<registry, balance, cache, acts>>

Asked == {r \in Requests : r[1] \in DOMAIN pairs}

Trade ==
  \E r \in Asked :
    \/ \E to \in Wallets : \E gain \in Gains(r[1]) : Swap(r[1], r[2], r[3], to, gain)
    \/ r[2] = r[3] /\ PlaceLimitOrders(r[1], r[2])

Next == Act \/ List \/ Tick \/ Trade
Spec == Init /\ [][Next]_feeVars

-----------------------------------------------------------------------------
TypeOK ==
  /\ RegistryTypes /\ FactoryTypes
  /\ acts \in Nat
  /\ DOMAIN cache \subseteq Nat \X Wallets \X Wallets
  /\ \A c \in DOMAIN cache : cache[c] \in [fee : Nat, limit : Nat, at : 0 .. now]

\* A trade throws out only a wallet whose tier is gone or which, with what the
\* trade has just paid it, holds too little; never one in governance's own tier,
\* and never another's registration, or a newer one, than the one answered for.
OnlyLapsedEvicted ==
  [][acts' = acts =>
       /\ \A w \in DOMAIN registration' : registration'[w] = registration[w]
       /\ \A w \in DOMAIN registration \ DOMAIN registration' :
            Lapsed(w) /\ Short(w, balance'[w])]_feeVars

\* A trade that pays out no CL8Y is never refused for the message that throws a
\* lapsed registration out: if the registration answered for is not the one of
\* the trader named, the epoch tells the registry.
SwapUnharmed ==
  \A r \in Asked :
    Lookup(r[1], r[2], r[3]).lapsed =>
      Outcome(r[1], r[2], r[3], balance[r[2]]) # "error"
=============================================================================
