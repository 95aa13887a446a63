----------------------------- MODULE TwapOracle -----------------------------
(***************************************************************************)
(* The time-weighted average price oracle inside a pair: a ring buffer of  *)
(* observations of the cumulative price, written by every handler that     *)
(* changes the reserves, before it changes them, and searched by Observe.  *)
(* What a handler does to the reserves is left open here: any new reserves *)
(* of the set Pools.  PairPool shows that its handlers are such steps.     *)
(***************************************************************************)
EXTENDS Integers, FiniteSets

CONSTANTS Pools,        \* pairs <<reserve_a, reserve_b>> the reserves may take
          SCALE,        \* Decimal's fractional unit (10^18)
          MAXPRICE,     \* the largest price a Decimal holds, in SCALE units
          Slots,        \* cardinality of a new pair (DEFAULT_OBSERVATION_CARDINALITY)
          MAXSLOTS,     \* MAX_OBSERVATION_CARDINALITY
          GrowsWrapped, \* whether anybody asks for growth while the ring is wrapped
          MaxTime       \* bound on the clock

ASSUME OracleAssumption ==
  /\ Pools \subseteq Nat \X Nat /\ <<0, 0>> \in Pools
  /\ SCALE \in Nat \ {0} /\ MAXPRICE \in Nat
  /\ Slots \in Nat \ {0} /\ MAXSLOTS \in Nat /\ Slots <= MAXSLOTS
  /\ GrowsWrapped \in BOOLEAN /\ MaxTime \in Nat

VARIABLES now,          \* block time, in seconds
          reserves,     \* RESERVES
          observations, \* OBSERVATIONS: slot -> [t, a, b], only written slots
          oracle        \* ORACLE_STATE: [cardinality, index, initialized]

ring == <<observations, oracle>>
twapVars == <<now, reserves, observations, oracle>>

Observation == [t : Nat, a : Nat, b : Nat]

\* Decimal::from_ratio
Ratio(num, den) == (num * SCALE) \div den
PriceA(r) == Ratio(r[2], r[1])
PriceB(r) == Ratio(r[1], r[2])
Representable(r) == PriceA(r) <= MAXPRICE /\ PriceB(r) <= MAXPRICE

\* The cumulative prices dt seconds after observation o, at the prices of r.
Accrued(o, r, t) == [t |-> t,
                     a |-> o.a + PriceA(r) * (t - o.t),
                     b |-> o.b + PriceB(r) * (t - o.t)]

Init ==
  /\ now = 0 /\ reserves = <<0, 0>>
  /\ observations = << >>
  /\ oracle = [cardinality |-> Slots, index |-> 0, initialized |-> 0]

-----------------------------------------------------------------------------
(* Writing. *)

Empty(r) == r[1] = 0 \/ r[2] = 0
Seeded == oracle.index \in DOMAIN observations
Latest == observations[oracle.index]

Seed ==
  /\ observations' = [i \in {oracle.index} |-> [t |-> now, a |-> 0, b |-> 0]]
  /\ oracle' = [oracle EXCEPT !.initialized = 1]

\* Mutant: the ring is stuck.
NextSlotStuck == IF oracle.initialized < oracle.cardinality
                   THEN oracle.initialized ELSE oracle.index
\* While slots are left the next unused one is taken, then the ring wraps.
NextSlot == IF oracle.initialized < oracle.cardinality
              THEN oracle.initialized
              ELSE (oracle.index + 1) % oracle.cardinality

Append ==
  /\ observations' = [i \in DOMAIN observations \cup {NextSlot} |->
                        IF i = NextSlot THEN Accrued(Latest, reserves, now) ELSE observations[i]]
  /\ oracle' = [oracle EXCEPT !.index = NextSlot,
                              !.initialized = IF @ < oracle.cardinality THEN @ + 1 ELSE @]

\* Mutant: at most one observation every other second.
OracleUpdateThrottled ==
  IF Empty(reserves) THEN UNCHANGED ring
  ELSE IF ~Seeded THEN Seed
  ELSE IF now <= Latest.t + 1 \/ ~Representable(reserves) THEN UNCHANGED ring
  ELSE Append

OracleUpdate ==
  IF Empty(reserves) THEN UNCHANGED ring
  ELSE IF ~Seeded THEN Seed
  ELSE IF now <= Latest.t \/ ~Representable(reserves) THEN UNCHANGED ring
  ELSE Append

\* A handler observes the old reserves, then stores new ones.  The first conjunct is
\* no guard of the code: no handler empties a funded pool (PairPool, NeverDrained).
Touch(r) ==
  /\ Empty(r) => Empty(reserves)
  /\ OracleUpdate
  /\ reserves' = r
  /\ UNCHANGED now

\* The ring is full and its oldest observation is not in slot 0.
Wrapped == oracle.initialized = oracle.cardinality /\ oracle.index + 1 # oracle.cardinality

\* Anybody may ask for more slots.  GrowsWrapped is a bound of the instance, not a
\* guard: FALSE leaves out growth at the moment that spoils the order of the slots.
IncreaseObservationCardinality(n) ==
  /\ n <= MAXSLOTS /\ n > oracle.cardinality
  /\ Wrapped => GrowsWrapped
  /\ oracle' = [oracle EXCEPT !.cardinality = n]
  /\ UNCHANGED <<now, reserves, observations>>

Tick ==
  /\ now < MaxTime
  /\ now' = now + 1
  /\ UNCHANGED <<reserves, observations, oracle>>

Next ==
  \/ \E r \in Pools : Touch(r)
  \/ \E n \in 1 .. MAXSLOTS : IncreaseObservationCardinality(n)
  \/ Tick

Spec == Init /\ [][Next]_twapVars

-----------------------------------------------------------------------------
(* Reading. *)

NoAnswer == [t |-> -1, a |-> 0, b |-> 0]

OldestSlot == IF oracle.initialized < oracle.cardinality
                THEN 0 ELSE (oracle.index + 1) % oracle.cardinality

\* The k-th slot, counted from the one Observe takes for the oldest.
Slot(k) == (OldestSlot + k) % oracle.cardinality

\* The largest k of lo .. hi whose observation is not after t, for sorted rings.
Search(t) ==
  LET Ring == 0 .. oracle.initialized - 1
      bisect[range \in Ring \X Ring] ==
        LET lo == range[1]
            hi == range[2]
            mid == lo + ((hi - lo) + 1) \div 2
        IN  IF lo >= hi THEN lo
            ELSE IF observations[Slot(mid)].t <= t THEN bisect[<<mid, hi>>]
            ELSE bisect[<<lo, mid - 1>>]
  IN  bisect[<<0, oracle.initialized - 1>>]

Before(t) == observations[Slot(Search(t))]
\* Mutant: the far end of the ring instead of the neighbour.
AfterLatest(t) == Latest
After(t) == IF Search(t) + 1 < oracle.initialized
              THEN observations[Slot(Search(t) + 1)] ELSE Latest

\* On the line from o to p; errors when p is not the later one or fell behind.
Between(o, p, t) ==
  IF p.t <= o.t \/ p.a < o.a \/ p.b < o.b THEN NoAnswer
  ELSE [t |-> t,
        a |-> o.a + ((p.a - o.a) * (t - o.t)) \div (p.t - o.t),
        b |-> o.b + ((p.b - o.b) * (t - o.t)) \div (p.t - o.t)]

Extrapolated(t) ==
  IF t = Latest.t \/ Empty(reserves) \/ ~Representable(reserves)
    THEN [Latest EXCEPT !.t = t]
    ELSE Accrued(Latest, reserves, t)

\* oracle_observe_single for the time t of the past or present
Observe(t) ==
  IF ~Seeded THEN NoAnswer
  ELSE IF t = now \/ t >= Latest.t THEN Extrapolated(t)
  ELSE IF oracle.initialized < 2 \/ t < observations[OldestSlot].t THEN NoAnswer
  ELSE IF Before(t).t = t THEN Before(t)
  ELSE Between(Before(t), After(t), t)
=============================================================================
