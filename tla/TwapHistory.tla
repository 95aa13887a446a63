---------------------------- MODULE TwapHistory ----------------------------
(***************************************************************************)
(* TwapOracle with the true price history beside it, and the properties    *)
(* that compare the answers of Observe with it.                            *)
(***************************************************************************)
EXTENDS TwapOracle

VARIABLE truth   \* time -> the integrals of both prices since the first observation,
                 \* and whether every price so far fitted

hvars == <<now, reserves, observations, oracle, truth>>

HInit == Init /\ truth = [t \in {0} |-> [a |-> 0, b |-> 0, fits |-> TRUE]]

\* A second passes at the price the last handler of the block left behind.
Second ==
  /\ Tick
  /\ truth' = [t \in 0 .. now + 1 |->
                 IF t <= now THEN truth[t]
                 ELSE IF ~Seeded \/ Empty(reserves) THEN truth[now]
                 ELSE [a |-> truth[now].a + PriceA(reserves),
                       b |-> truth[now].b + PriceB(reserves),
                       fits |-> truth[now].fits /\ Representable(reserves)]]

Trade(r) == Touch(r) /\ UNCHANGED truth
Grow(n) == IncreaseObservationCardinality(n) /\ UNCHANGED truth

HNext ==
  \/ \E r \in Pools : Trade(r)
  \/ \E n \in 1 .. MAXSLOTS : Grow(n)
  \/ Second

HSpec == HInit /\ [][HNext]_hvars

Stored == {observations[i].t : i \in DOMAIN observations}
FirstStored == CHOOSE t \in Stored : \A u \in Stored : t <= u

-----------------------------------------------------------------------------
TypeOK ==
  /\ now \in 0 .. MaxTime /\ reserves \in Pools
  /\ oracle \in [cardinality : 1 .. MAXSLOTS, index : 0 .. MAXSLOTS - 1, initialized : 0 .. MAXSLOTS]
  /\ DOMAIN observations = 0 .. oracle.initialized - 1
  /\ \A i \in DOMAIN observations : observations[i] \in Observation

\* Whatever Observe answers, by extrapolation, look-up or interpolation, is the
\* integral of the closing prices of each second up to the time asked for: a price
\* made and unmade within a block never shows, whichever slots were overwritten
\* (as long as no price was left out for being too large).
ObserveExact ==
  truth[now].fits =>
    \A t \in 0 .. now :
      Observe(t) # NoAnswer => Observe(t).a = truth[t].a /\ Observe(t).b = truth[t].b

\* The search finds the two observations that bracket the time asked for, with no
\* stored one between them (the comment above oracle_observe_single).
SearchBrackets ==
  (oracle.initialized >= 2) =>
    \A t \in observations[OldestSlot].t .. Latest.t - 1 :
      /\ Before(t).t <= t /\ t < After(t).t
      /\ \A u \in Stored : u <= Before(t).t \/ u >= After(t).t

\* Full rings forget nothing but the oldest observation per write: a slot that is
\* overwritten held the earliest time stored.
ForgetsOldest ==
  [][\A i \in DOMAIN observations :
       observations'[i] # observations[i] => observations[i].t = FirstStored]_hvars

\* Prices are never negative, so later observations are never smaller, also when
\* some were skipped because a price did not fit.
NeverFallsBack ==
  \A i, j \in DOMAIN observations :
    observations[i].t <= observations[j].t =>
      observations[i].a <= observations[j].a /\ observations[i].b <= observations[j].b
=============================================================================
