----------------------------- MODULE TwapProofs -----------------------------
(***************************************************************************)
(* Proofs about the oracle's ring: its shape, that cumulative prices never *)
(* fall back, and, as long as nobody grows a wrapped ring, that its slots  *)
(* are in order of time, so that a write costs the oldest observation      *)
(* only, the binary search finds the right neighbours, and a reader is     *)
(* told the true integral of the prices.                                   *)
(***************************************************************************)
EXTENDS TwapHistory, DataLemmas, TLAPS

\* The next slot after i in a ring of c.
LEMMA ModNext ==
  ASSUME NEW c \in Nat \ {0}, NEW i \in 0 .. c - 1
  PROVE  (i + 1) % c = IF i + 1 = c THEN 0 ELSE i + 1
<1>1. CASE i + 1 = c
  BY <1>1
<1>2. CASE i + 1 < c
  BY <1>2
<1> QED
  BY <1>1, <1>2

\* Prices are not negative.
LEMMA PriceNat ==
  ASSUME NEW r \in Nat \X Nat, r[1] > 0, r[2] > 0
  PROVE  PriceA(r) \in Nat /\ PriceB(r) \in Nat
<1>1. r[1] * SCALE \in Nat /\ r[2] * SCALE \in Nat
  BY OracleAssumption
<1> QED
  BY <1>1 DEF PriceA, PriceB, Ratio

\* A later observation at the old one's prices never has smaller sums.
LEMMA AccruedGrows ==
  ASSUME NEW o \in Observation, NEW r \in Nat \X Nat, r[1] > 0, r[2] > 0, NEW t \in Nat, t > o.t
  PROVE  /\ Accrued(o, r, t) \in Observation /\ Accrued(o, r, t).t = t
         /\ Accrued(o, r, t).a >= o.a /\ Accrued(o, r, t).b >= o.b
<1> DEFINE pa == PriceA(r)
           pb == PriceB(r)
<1>1. pa \in Nat /\ pb \in Nat
  BY PriceNat
<1>2. o.t \in Nat /\ o.a \in Nat /\ o.b \in Nat /\ t - o.t \in Nat
  BY DEF Observation
<1>3. Accrued(o, r, t) = [t |-> t, a |-> o.a + pa * (t - o.t), b |-> o.b + pb * (t - o.t)]
  BY DEF Accrued
<1> HIDE DEF pa, pb
<1>4. pa * (t - o.t) \in Nat /\ pb * (t - o.t) \in Nat
  BY <1>1, <1>2
<1> QED
  BY <1>2, <1>3, <1>4 DEF Observation

-----------------------------------------------------------------------------
(* The shape of the ring, with or without growth. *)

Shape ==
  /\ now \in 0 .. MaxTime /\ reserves \in Pools
  /\ oracle \in [cardinality : 1 .. MAXSLOTS, index : 0 .. MAXSLOTS - 1, initialized : 0 .. MAXSLOTS]
  /\ oracle.initialized <= oracle.cardinality /\ oracle.index < oracle.cardinality
  /\ DOMAIN observations = 0 .. oracle.initialized - 1
  /\ \A i \in DOMAIN observations : observations[i] \in Observation
  /\ IF oracle.initialized = 0 THEN oracle.index = 0 ELSE oracle.index < oracle.initialized

\* The observation written last has the largest time and sums.
LatestLargest ==
  \A i \in DOMAIN observations :
    observations[i].t <= Latest.t /\ observations[i].a <= Latest.a /\ observations[i].b <= Latest.b

RingInv == Shape /\ LatestLargest /\ NeverFallsBack /\ (Seeded => Latest.t <= now)

\* Types of what the steps are about.
LEMMA ShapeTypes ==
  ASSUME Shape
  PROVE  /\ oracle.cardinality \in Nat \ {0} /\ oracle.cardinality <= MAXSLOTS
         /\ oracle.index \in Nat /\ oracle.index < oracle.cardinality
         /\ oracle.initialized \in Nat /\ oracle.initialized <= oracle.cardinality
         /\ now \in Nat /\ MAXSLOTS \in Nat
         /\ Seeded <=> oracle.initialized # 0
         /\ reserves \in Nat \X Nat
<1>1. MAXSLOTS \in Nat /\ Pools \subseteq Nat \X Nat /\ MaxTime \in Nat
  BY OracleAssumption
<1>2. /\ oracle.cardinality \in 1 .. MAXSLOTS /\ oracle.index \in 0 .. MAXSLOTS - 1
      /\ oracle.initialized \in 0 .. MAXSLOTS
      /\ oracle.initialized <= oracle.cardinality /\ oracle.index < oracle.cardinality
  BY DEF Shape
<1>3. now \in 0 .. MaxTime /\ reserves \in Pools
  BY DEF Shape
<1>4. Seeded <=> oracle.initialized # 0
  <2>1. Seeded <=> oracle.index \in 0 .. oracle.initialized - 1
    BY DEF Shape, Seeded
  <2>2. IF oracle.initialized = 0 THEN oracle.index = 0 ELSE oracle.index < oracle.initialized
    BY DEF Shape
  <2> QED
    BY <1>1, <1>2, <2>1, <2>2
<1> QED
  BY <1>1, <1>2, <1>3, <1>4

LEMMA NextSlotIs ==
  ASSUME Shape
  PROVE  /\ oracle.initialized < oracle.cardinality => NextSlot = oracle.initialized
         /\ oracle.initialized = oracle.cardinality =>
              NextSlot = IF oracle.index + 1 = oracle.cardinality THEN 0 ELSE oracle.index + 1
         /\ NextSlot \in 0 .. oracle.cardinality - 1
<1>1. /\ oracle.cardinality \in Nat \ {0} /\ oracle.index \in 0 .. oracle.cardinality - 1
      /\ oracle.initialized \in 0 .. oracle.cardinality
  BY ShapeTypes
<1>2. (oracle.index + 1) % oracle.cardinality = IF oracle.index + 1 = oracle.cardinality THEN 0 ELSE oracle.index + 1
  BY <1>1, ModNext
<1> QED
  BY <1>1, <1>2 DEF NextSlot

\* What Append writes.
LEMMA Appended ==
  ASSUME RingInv, Seeded, ~Empty(reserves), now > Latest.t, Append
  PROVE  /\ DOMAIN observations' = 0 .. oracle'.initialized - 1
         /\ oracle' = [cardinality |-> oracle.cardinality, index |-> NextSlot,
                       initialized |-> IF oracle.initialized < oracle.cardinality
                                         THEN oracle.initialized + 1 ELSE oracle.initialized]
         /\ observations'[NextSlot] \in Observation
         /\ observations'[NextSlot].t = now
         /\ observations'[NextSlot].a >= Latest.a /\ observations'[NextSlot].b >= Latest.b
         /\ \A i \in DOMAIN observations : i # NextSlot => observations'[i] = observations[i]
         /\ DOMAIN observations' = DOMAIN observations \cup {NextSlot}
<1> DEFINE o == Accrued(Latest, reserves, now)
<1>1. Shape
  BY DEF RingInv
<1>2. /\ oracle.cardinality \in Nat \ {0} /\ oracle.index \in Nat /\ oracle.initialized \in Nat \ {0}
      /\ oracle.initialized <= oracle.cardinality /\ reserves \in Nat \X Nat /\ now \in Nat
  BY <1>1, ShapeTypes
<1>3. NextSlot \in 0 .. oracle.cardinality - 1 /\ (oracle.initialized < oracle.cardinality => NextSlot = oracle.initialized)
  BY <1>1, NextSlotIs
<1>4. Latest \in Observation
  BY <1>1 DEF Shape, Latest, Seeded
<1>5. o \in Observation /\ o.t = now /\ o.a >= Latest.a /\ o.b >= Latest.b
  BY <1>2, <1>4, AccruedGrows DEF Empty
<1>6. observations' = [i \in DOMAIN observations \cup {NextSlot} |-> IF i = NextSlot THEN o ELSE observations[i]]
  BY DEF Append
<1> HIDE DEF o
<1>7. oracle' = [oracle EXCEPT !.index = NextSlot, !.initialized = IF @ < oracle.cardinality THEN @ + 1 ELSE @]
  BY DEF Append
<1>8. oracle' = [cardinality |-> oracle.cardinality, index |-> NextSlot,
                 initialized |-> IF oracle.initialized < oracle.cardinality
                                   THEN oracle.initialized + 1 ELSE oracle.initialized]
  BY <1>1, <1>7 DEF Shape
<1>9. DOMAIN observations' = DOMAIN observations \cup {NextSlot}
  BY <1>6
<1>10. DOMAIN observations = 0 .. oracle.initialized - 1
  BY <1>1 DEF Shape
<1>11. DOMAIN observations' = 0 .. oracle'.initialized - 1
  BY <1>2, <1>3, <1>8, <1>9, <1>10
<1>12. observations'[NextSlot] = o /\ \A i \in DOMAIN observations : i # NextSlot => observations'[i] = observations[i]
  BY <1>6
<1> QED
  BY <1>5, <1>8, <1>9, <1>11, <1>12

LEMMA AppendKeepsRing ==
  ASSUME RingInv, Seeded, ~Empty(reserves), now > Latest.t, Append, UNCHANGED now, reserves' \in Pools
  PROVE  RingInv'
<1>1. Shape /\ LatestLargest /\ NeverFallsBack
  BY DEF RingInv
<1>2. /\ oracle.cardinality \in Nat \ {0} /\ oracle.cardinality <= MAXSLOTS /\ oracle.index \in Nat
      /\ oracle.initialized \in Nat \ {0} /\ oracle.initialized <= oracle.cardinality /\ now \in Nat /\ MAXSLOTS \in Nat
  BY <1>1, ShapeTypes
<1>3. NextSlot \in 0 .. oracle.cardinality - 1 /\ (oracle.initialized < oracle.cardinality => NextSlot = oracle.initialized)
  BY <1>1, NextSlotIs
<1> DEFINE n == NextSlot
           o == observations'[n]
<1>4. /\ DOMAIN observations' = 0 .. oracle'.initialized - 1
      /\ oracle' = [cardinality |-> oracle.cardinality, index |-> n,
                    initialized |-> IF oracle.initialized < oracle.cardinality
                                      THEN oracle.initialized + 1 ELSE oracle.initialized]
      /\ o \in Observation /\ o.t = now /\ o.a >= Latest.a /\ o.b >= Latest.b
      /\ \A i \in DOMAIN observations : i # n => observations'[i] = observations[i]
      /\ DOMAIN observations' = DOMAIN observations \cup {n}
  BY Appended
<1>5. \A i \in DOMAIN observations : observations[i] \in Observation
  BY <1>1 DEF Shape
<1>6. Latest' = o
  BY <1>4 DEF Latest
<1> HIDE DEF n
<1>7. \A i \in DOMAIN observations' : i # n => i \in DOMAIN observations /\ observations'[i] = observations[i]
  BY <1>4
<1>8. Latest \in Observation /\ now > Latest.t
  BY <1>5 DEF Seeded, Latest
<1> HIDE DEF o
<1>9. \A i \in DOMAIN observations' : i # n =>
        /\ observations'[i] \in Observation
        /\ observations'[i].t < o.t /\ observations'[i].a <= o.a /\ observations'[i].b <= o.b
  <2>1. SUFFICES ASSUME NEW i \in DOMAIN observations', i # n
                 PROVE  /\ observations'[i] \in Observation
                        /\ observations'[i].t < o.t /\ observations'[i].a <= o.a /\ observations'[i].b <= o.b
    OBVIOUS
  <2>2. observations'[i] = observations[i] /\ observations[i] \in Observation /\ i \in DOMAIN observations
    BY <1>5, <1>7, <2>1
  <2>3. observations[i].t <= Latest.t /\ observations[i].a <= Latest.a /\ observations[i].b <= Latest.b
    BY <1>1, <2>2 DEF LatestLargest
  <2> QED
    BY <1>2, <1>4, <1>8, <2>2, <2>3 DEF Observation
<1>10. Shape'
  <2>1. oracle' \in [cardinality : 1 .. MAXSLOTS, index : 0 .. MAXSLOTS - 1, initialized : 0 .. MAXSLOTS]
    BY <1>2, <1>3, <1>4 DEF n
  <2>2. /\ oracle'.initialized <= oracle'.cardinality /\ oracle'.index < oracle'.cardinality
        /\ oracle'.initialized # 0
    BY <1>2, <1>3, <1>4 DEF n
  <2>3. oracle'.index < oracle'.initialized
    BY <1>2, <1>3, <1>4 DEF n
  <2>4. \A i \in DOMAIN observations' : observations'[i] \in Observation
    BY <1>4, <1>9 DEF o
  <2>5. now' \in 0 .. MaxTime
    BY <1>1 DEF Shape
  <2> QED
    BY <1>4, <2>1, <2>2, <2>3, <2>4, <2>5 DEF Shape
<1>11. LatestLargest'
  <2>1. SUFFICES ASSUME NEW i \in DOMAIN observations'
                 PROVE observations'[i].t <= o.t /\ observations'[i].a <= o.a /\ observations'[i].b <= o.b
    BY <1>6 DEF LatestLargest
  <2>2. CASE i = n
    BY <1>4, <2>2 DEF Observation, o
  <2>3. CASE i # n
    BY <1>4, <1>9, <2>3 DEF Observation
  <2> QED
    BY <2>2, <2>3
<1>12. NeverFallsBack'
  <2>1. SUFFICES ASSUME NEW i \in DOMAIN observations', NEW j \in DOMAIN observations',
                        observations'[i].t <= observations'[j].t
                 PROVE  observations'[i].a <= observations'[j].a /\ observations'[i].b <= observations'[j].b
    BY DEF NeverFallsBack
  <2>2. CASE j = n
    BY <1>6, <1>11, <2>2 DEF LatestLargest, o
  <2>3. CASE j # n /\ i = n
    BY <1>4, <1>9, <2>1, <2>3 DEF Observation, o
  <2>4. CASE j # n /\ i # n
    BY <1>1, <1>7, <2>1, <2>4 DEF NeverFallsBack
  <2> QED
    BY <2>2, <2>3, <2>4
<1>13. Latest'.t <= now'
  BY <1>2, <1>4, <1>6
<1> QED
  BY <1>10, <1>11, <1>12, <1>13 DEF RingInv

LEMMA SeedKeepsRing ==
  ASSUME RingInv, ~Seeded, Seed, UNCHANGED now, reserves' \in Pools
  PROVE  RingInv'
<1>1. Shape
  BY DEF RingInv
<1>2. oracle.initialized = 0 /\ now \in Nat /\ oracle.cardinality \in Nat \ {0} /\ MAXSLOTS \in Nat
  BY <1>1, ShapeTypes
<1>3. oracle.index = 0
  BY <1>1, <1>2 DEF Shape
<1>4. observations' = [i \in {0} |-> [t |-> now, a |-> 0, b |-> 0]]
  BY <1>3 DEF Seed
<1>5. oracle' = [oracle EXCEPT !.initialized = 1]
  BY DEF Seed
<1>6. /\ oracle' \in [cardinality : 1 .. MAXSLOTS, index : 0 .. MAXSLOTS - 1, initialized : 0 .. MAXSLOTS]
      /\ oracle'.cardinality = oracle.cardinality /\ oracle'.index = 0 /\ oracle'.initialized = 1
  BY <1>1, <1>2, <1>3, <1>5, OracleAssumption DEF Shape
<1>7. DOMAIN observations' = {0} /\ observations'[0] = [t |-> now, a |-> 0, b |-> 0]
  BY <1>4
<1>8. observations'[0] \in Observation
  BY <1>2, <1>7 DEF Observation
<1>9. Shape'
  BY <1>1, <1>2, <1>6, <1>7, <1>8 DEF Shape
<1>10. Latest' = observations'[0]
  BY <1>6 DEF Latest
<1> QED
  BY <1>2, <1>7, <1>9, <1>10 DEF RingInv, LatestLargest, NeverFallsBack

LEMMA StillKeepsRing ==
  ASSUME RingInv, UNCHANGED ring, now' \in now .. MaxTime, reserves' \in Pools
  PROVE  RingInv'
<1>1. UNCHANGED observations /\ UNCHANGED oracle
  BY DEF ring
<1>2. now \in Nat /\ now' \in Nat /\ now <= now' /\ now' \in 0 .. MaxTime
  BY OracleAssumption DEF RingInv, Shape
<1>3. Shape'
  BY <1>1, <1>2 DEF RingInv, Shape
<1>4. LatestLargest' /\ NeverFallsBack'
  BY <1>1 DEF RingInv, LatestLargest, NeverFallsBack, Latest
<1>5. ASSUME Seeded' PROVE Latest'.t <= now'
  <2>1. Seeded /\ Latest' = Latest
    BY <1>1, <1>5 DEF Seeded, Latest
  <2>2. Latest.t <= now /\ Latest \in Observation
    BY <2>1 DEF RingInv, Shape, Latest, Seeded
  <2> QED
    BY <1>2, <2>1, <2>2 DEF Observation
<1> QED
  BY <1>3, <1>4, <1>5 DEF RingInv

LEMMA TouchKeepsRing ==
  ASSUME RingInv, NEW r \in Pools, Touch(r)
  PROVE  RingInv'
<1>1. UNCHANGED now /\ reserves' \in Pools /\ OracleUpdate
  BY DEF Touch
<1>2. now' \in now .. MaxTime
  BY <1>1, OracleAssumption DEF RingInv, Shape
<1>3. CASE UNCHANGED ring
  BY <1>1, <1>2, <1>3, StillKeepsRing
<1>4. CASE ~Empty(reserves) /\ ~Seeded /\ Seed
  BY <1>1, <1>4, SeedKeepsRing
<1>5. CASE ~Empty(reserves) /\ Seeded /\ ~(now <= Latest.t) /\ Append
  <2>1. Latest \in Observation /\ now \in Nat
    BY <1>5, ShapeTypes DEF RingInv, Shape, Latest, Seeded
  <2>2. now > Latest.t
    BY <1>5, <2>1 DEF Observation
  <2> QED
    BY <1>1, <1>5, <2>2, AppendKeepsRing
<1> QED
  BY <1>1, <1>3, <1>4, <1>5 DEF OracleUpdate

LEMMA GrowKeepsRing ==
  ASSUME RingInv, NEW n \in 1 .. MAXSLOTS, IncreaseObservationCardinality(n)
  PROVE  RingInv'
<1>1. oracle' = [oracle EXCEPT !.cardinality = n] /\ n > oracle.cardinality
      /\ UNCHANGED now /\ UNCHANGED reserves /\ UNCHANGED observations
  BY DEF IncreaseObservationCardinality
<1>2. /\ oracle.cardinality \in Nat /\ oracle.index \in Nat /\ oracle.initialized \in Nat /\ MAXSLOTS \in Nat
      /\ oracle.initialized <= oracle.cardinality /\ oracle.index < oracle.cardinality
  BY ShapeTypes DEF RingInv
<1>3. /\ oracle'.cardinality = n /\ oracle'.index = oracle.index /\ oracle'.initialized = oracle.initialized
      /\ oracle' \in [cardinality : 1 .. MAXSLOTS, index : 0 .. MAXSLOTS - 1, initialized : 0 .. MAXSLOTS]
  BY <1>1 DEF RingInv, Shape
<1>4. Shape'
  BY <1>1, <1>2, <1>3 DEF RingInv, Shape
<1>5. LatestLargest' /\ NeverFallsBack' /\ (Seeded' => Latest'.t <= now')
  BY <1>1, <1>3 DEF RingInv, LatestLargest, NeverFallsBack, Latest, Seeded
<1> QED
  BY <1>4, <1>5 DEF RingInv

LEMMA HNextIs ==
  ASSUME [HNext]_hvars
  PROVE  \/ \E r \in Pools : Touch(r)
         \/ \E n \in 1 .. MAXSLOTS : IncreaseObservationCardinality(n)
         \/ Tick
         \/ UNCHANGED <<now, reserves, observations, oracle>>
  BY DEF HNext, hvars, Trade, Grow, Second

LEMMA NextKeepsRing ==
  ASSUME RingInv, [HNext]_hvars
  PROVE  RingInv'
<1>1. CASE \E r \in Pools : Touch(r)
  BY <1>1, TouchKeepsRing
<1>2. CASE \E n \in 1 .. MAXSLOTS : IncreaseObservationCardinality(n)
  BY <1>2, GrowKeepsRing
<1>3. now \in 0 .. MaxTime /\ MaxTime \in Nat /\ reserves \in Pools
  BY OracleAssumption DEF RingInv, Shape
<1>4. CASE Tick
  BY <1>3, <1>4, StillKeepsRing DEF Tick, ring
<1>5. CASE UNCHANGED <<now, reserves, observations, oracle>>
  BY <1>3, <1>5, StillKeepsRing DEF ring
<1> QED
  BY <1>1, <1>2, <1>4, <1>5, HNextIs

LEMMA InitRing == HInit => RingInv
<1> SUFFICES ASSUME HInit PROVE RingInv
  OBVIOUS
<1>1. /\ now = 0 /\ reserves = <<0, 0>> /\ observations = << >>
      /\ oracle = [cardinality |-> Slots, index |-> 0, initialized |-> 0]
  BY DEF HInit, Init
<1>2. DOMAIN observations = {}
  BY <1>1
<1>3. Shape
  BY <1>1, <1>2, OracleAssumption DEF Shape
<1> QED
  BY <1>2, <1>3 DEF RingInv, LatestLargest, NeverFallsBack, Seeded

THEOREM RingInvariance == HSpec => []RingInv
<1>1. RingInv /\ [HNext]_hvars => RingInv'
  BY NextKeepsRing
<1> QED
  BY <1>1, InitRing, PTL DEF HSpec

\* The ring keeps its shape: exactly the slots counted as initialized are written,
\* and the index is one of them, also when the ring grows.
THEOREM RingTypes == HSpec => []TypeOK
<1>1. RingInv => TypeOK
  BY DEF RingInv, Shape, TypeOK
<1> QED
  BY <1>1, RingInvariance, PTL

\* Later observations never have smaller sums: the subtraction of Observe cannot fail
\* for two slots in order.
THEOREM SumsNeverFall == HSpec => []NeverFallsBack
  BY RingInvariance, PTL DEF RingInv

-----------------------------------------------------------------------------
(* Order of the slots, while no wrapped ring grows. *)

\* Slot i is older than slot j when it comes first counting from behind the index.
Sorted ==
  \A i, j \in DOMAIN observations :
    (i < j /\ (j <= oracle.index \/ oracle.index < i)) \/ (oracle.index < i /\ j <= oracle.index)
      => observations[i].t < observations[j].t

\* A ring that is not full has been written up to its index.
Straight == oracle.initialized < oracle.cardinality /\ oracle.initialized # 0 => oracle.index = oracle.initialized - 1

OrderInv == RingInv /\ Sorted /\ Straight

LEMMA AppendKeepsOrder ==
  ASSUME OrderInv, RingInv', Seeded, ~Empty(reserves), now > Latest.t, Append
  PROVE  /\ Sorted' /\ Straight'
         /\ \A i \in DOMAIN observations :
              observations'[i] # observations[i] => \A j \in DOMAIN observations : observations[i].t <= observations[j].t
<1>1. RingInv /\ Shape /\ LatestLargest /\ Sorted /\ Straight
  BY DEF OrderInv, RingInv
<1> DEFINE n == NextSlot
           c == oracle.cardinality
           k == oracle.index
           m == oracle.initialized
<1>2. /\ c \in Nat \ {0} /\ k \in Nat /\ m \in Nat \ {0} /\ m <= c /\ k < c /\ now \in Nat
  BY <1>1, ShapeTypes
<1>3. /\ m < c => n = m /\ k = m - 1
      /\ m = c => n = IF k + 1 = c THEN 0 ELSE k + 1
      /\ n \in 0 .. c - 1
  BY <1>1, <1>2, NextSlotIs DEF Straight
<1>4. /\ oracle'.index = n /\ oracle'.cardinality = c
      /\ oracle'.initialized = IF m < c THEN m + 1 ELSE m
      /\ observations'[n].t = now
      /\ \A i \in DOMAIN observations : i # n => observations'[i] = observations[i]
      /\ DOMAIN observations' = DOMAIN observations \cup {n}
  BY <1>1, Appended
<1>5. DOMAIN observations = 0 .. m - 1
  BY <1>1 DEF Shape
<1>6. \A i \in DOMAIN observations : observations[i].t \in Nat /\ observations[i].t <= Latest.t
  BY <1>1 DEF Shape, LatestLargest, Observation
<1>7. \A i \in DOMAIN observations : observations[i].t < now
  <2>1. Latest.t \in Nat
    BY <1>1 DEF Shape, Seeded, Latest, Observation
  <2> QED
    BY <1>2, <1>6, <2>1
<1>8. \A i, j \in DOMAIN observations :
        (i < j /\ (j <= k \/ k < i)) \/ (k < i /\ j <= k) => observations[i].t < observations[j].t
  BY <1>1 DEF Sorted
<1> HIDE DEF n, c, k, m
<1>9. Sorted'
  <2>1. SUFFICES ASSUME NEW i \in DOMAIN observations', NEW j \in DOMAIN observations',
                        (i < j /\ (j <= n \/ n < i)) \/ (n < i /\ j <= n)
                 PROVE  observations'[i].t < observations'[j].t
    BY <1>4 DEF Sorted
  <2>2. i \in Nat /\ j \in Nat /\ n \in Nat
    BY <1>2, <1>3, <1>4, <1>5
  <2>3. i # n
    BY <1>2, <1>3, <1>4, <1>5, <2>1, <2>2
  <2>4. i \in DOMAIN observations /\ observations'[i] = observations[i]
    BY <1>4, <2>3
  <2>5. CASE j = n
    BY <1>4, <1>7, <2>4, <2>5
  <2>6. CASE j # n
    <3>1. j \in DOMAIN observations /\ observations'[j] = observations[j]
      BY <1>4, <2>6
    <3>2. i \in 0 .. m - 1 /\ j \in 0 .. m - 1
      BY <1>5, <2>4, <3>1
    <3>3. (i < j /\ (j <= k \/ k < i)) \/ (k < i /\ j <= k)
      BY <1>2, <1>3, <2>1, <2>3, <2>6, <3>2
    <3> QED
      BY <1>8, <2>4, <3>1, <3>3
  <2> QED
    BY <2>5, <2>6
<1>10. Straight'
  BY <1>2, <1>3, <1>4 DEF Straight
<1>11. ASSUME NEW i \in DOMAIN observations, observations'[i] # observations[i],
              NEW j \in DOMAIN observations
       PROVE  observations[i].t <= observations[j].t
  <2>1. i = n
    BY <1>4, <1>11
  <2>2. i \in 0 .. m - 1 /\ j \in 0 .. m - 1
    BY <1>5, <1>11
  <2>3. m = c
    BY <1>2, <1>3, <2>1, <2>2
  <2>4. CASE i = j
    BY <1>6, <2>4
  <2>5. CASE i # j
    <3>1. (i < j /\ (j <= k \/ k < i)) \/ (k < i /\ j <= k)
      BY <1>2, <1>3, <2>1, <2>2, <2>3, <2>5
    <3> QED
      BY <1>6, <1>8, <3>1
  <2> QED
    BY <2>4, <2>5
<1> QED
  BY <1>9, <1>10, <1>11

LEMMA StepKeepsOrder ==
  ASSUME ~GrowsWrapped, OrderInv, RingInv', [HNext]_hvars
  PROVE  /\ Sorted' /\ Straight'
         /\ \A i \in DOMAIN observations :
              observations'[i] # observations[i] => \A j \in DOMAIN observations : observations[i].t <= observations[j].t
<1>1. CASE UNCHANGED ring
  BY <1>1 DEF ring, OrderInv, Sorted, Straight
<1>2. CASE \E n \in 1 .. MAXSLOTS : IncreaseObservationCardinality(n)
  <2>1. PICK n \in 1 .. MAXSLOTS : IncreaseObservationCardinality(n)
    BY <1>2
  <2>2. /\ oracle' = [oracle EXCEPT !.cardinality = n] /\ n > oracle.cardinality
        /\ UNCHANGED observations /\ ~Wrapped
    BY <2>1 DEF IncreaseObservationCardinality
  <2>3. oracle'.index = oracle.index /\ oracle'.initialized = oracle.initialized
    BY <2>2 DEF OrderInv, RingInv, Shape
  <2>4. Sorted'
    BY <2>2, <2>3 DEF OrderInv, Sorted
  <2>5. /\ oracle.cardinality \in Nat /\ oracle.index \in Nat /\ oracle.initialized \in Nat
        /\ oracle.initialized <= oracle.cardinality
    BY ShapeTypes DEF OrderInv, RingInv
  <2>6. Straight'
    BY <2>2, <2>3, <2>5 DEF OrderInv, Straight, Wrapped
  <2> QED
    BY <2>2, <2>4, <2>6
<1>3. CASE ~Seeded /\ Seed
  <2>1. oracle.initialized = 0 /\ oracle.index = 0
    BY <1>3, ShapeTypes DEF OrderInv, RingInv, Shape
  <2>2. DOMAIN observations = {}
    BY <2>1 DEF OrderInv, RingInv, Shape
  <2>3. observations' = [i \in {0} |-> [t |-> now, a |-> 0, b |-> 0]] /\ oracle' = [oracle EXCEPT !.initialized = 1]
    BY <1>3, <2>1 DEF Seed
  <2>4. oracle'.initialized = 1 /\ oracle'.index = 0
    BY <2>1, <2>3 DEF OrderInv, RingInv, Shape
  <2>5. Sorted' /\ Straight'
    BY <2>3, <2>4 DEF Sorted, Straight
  <2> QED
    BY <2>2, <2>5
<1>4. CASE Seeded /\ ~Empty(reserves) /\ ~(now <= Latest.t) /\ Append
  <2>1. Latest \in Observation /\ now \in Nat
    BY <1>4, ShapeTypes DEF OrderInv, RingInv, Shape, Latest, Seeded
  <2>2. now > Latest.t
    BY <1>4, <2>1 DEF Observation
  <2> QED
    BY <1>4, <2>2, AppendKeepsOrder
<1>5. CASE \E r \in Pools : Touch(r)
  <2>1. OracleUpdate
    BY <1>5 DEF Touch
  <2> QED
    BY <1>1, <1>3, <1>4, <2>1 DEF OracleUpdate
<1>6. CASE Tick
  BY <1>1, <1>6 DEF Tick, ring
<1> QED
  BY <1>1, <1>2, <1>5, <1>6, HNextIs DEF ring

\* While no wrapped ring grows, the slots stay in the order of time.
LEMMA OrderInvariance ==
  ASSUME ~GrowsWrapped
  PROVE  HSpec => []OrderInv
<1>1. HInit => OrderInv
  <2>1. HInit => DOMAIN observations = {} /\ oracle.initialized = 0
    BY DEF HInit, Init
  <2> QED
    BY <2>1, InitRing DEF OrderInv, Sorted, Straight
<1>2. OrderInv /\ RingInv' /\ [HNext]_hvars => OrderInv'
  BY StepKeepsOrder DEF OrderInv
<1> QED
  BY <1>1, <1>2, RingInvariance, PTL DEF HSpec

\* As long as no wrapped ring is grown, an overwritten slot held the oldest
\* observation: nothing inside the window is lost.
THEOREM OldestForgotten ==
  ASSUME ~GrowsWrapped
  PROVE  HSpec => ForgetsOldest
<1> DEFINE Forgets == \A i \in DOMAIN observations :
             observations'[i] # observations[i] => observations[i].t = FirstStored
<1>3. OrderInv /\ RingInv' /\ [HNext]_hvars => [Forgets]_hvars
  <2> SUFFICES ASSUME OrderInv, RingInv', [HNext]_hvars,
                      NEW i \in DOMAIN observations, observations'[i] # observations[i]
               PROVE  observations[i].t = FirstStored
    OBVIOUS
  <2>1. \A j \in DOMAIN observations : observations[i].t <= observations[j].t
    BY StepKeepsOrder
  <2>2. Stored \subseteq Nat
    BY DEF OrderInv, RingInv, Shape, Stored, Observation
  <2>3. observations[i].t \in Stored /\ \A u \in Stored : observations[i].t <= u
    BY <2>1 DEF Stored
  <2>4. FirstStored \in Stored /\ \A u \in Stored : FirstStored <= u
    BY <2>3 DEF FirstStored
  <2>5. \A f, g \in Nat : f <= g /\ g <= f => f = g
    OBVIOUS
  <2> QED
    BY <2>2, <2>3, <2>4, <2>5
<1>4. HSpec => []OrderInv
  BY OrderInvariance
<1>5. HSpec => [][Forgets]_hvars
  BY <1>3, <1>4, RingInvariance, PTL DEF HSpec
<1> QED
  BY <1>5 DEF ForgetsOldest

-----------------------------------------------------------------------------
(* The search. *)

\* A number less than twice c, on a ring of c.
LEMMA ModWraps ==
  ASSUME NEW c \in Nat \ {0}, NEW x \in 0 .. 2 * c - 1
  PROVE  x % c = IF x < c THEN x ELSE x - c
<1>1. CASE x < c
  BY <1>1
<1>2. CASE x >= c
  <2>1. x = c * 1 + (x - c) /\ x - c \in 0 .. c - 1
    BY <1>2
  <2> QED
    BY <2>1
<1> QED
  BY <1>1, <1>2

\* Counted from the oldest on, the slots are those of the ring, in order of time.
LEMMA SlotsInOrder ==
  ASSUME OrderInv, Seeded
  PROVE  /\ \A k \in 0 .. oracle.initialized - 1 : Slot(k) \in DOMAIN observations
         /\ Slot(0) = OldestSlot /\ Slot(oracle.initialized - 1) = oracle.index
         /\ \A j, k \in 0 .. oracle.initialized - 1 :
              j < k => observations[Slot(j)].t < observations[Slot(k)].t
         /\ \A i \in DOMAIN observations : \E k \in 0 .. oracle.initialized - 1 : Slot(k) = i
<1> DEFINE c == oracle.cardinality
           x == oracle.index
           m == oracle.initialized
           o == OldestSlot
<1>1. /\ c \in Nat \ {0} /\ x \in 0 .. c - 1 /\ m \in 1 .. c /\ DOMAIN observations = 0 .. m - 1
      /\ m < c => x = m - 1
  BY ShapeTypes DEF OrderInv, RingInv, Shape, Straight
<1>2. o = IF m < c THEN 0 ELSE IF x + 1 = c THEN 0 ELSE x + 1
  BY <1>1, ModNext DEF OldestSlot
<1>3. \A k \in 0 .. m - 1 : Slot(k) = (o + k) % c
  BY DEF Slot
<1>4. \A i, j \in 0 .. m - 1 :
        (i < j /\ (j <= x \/ x < i)) \/ (x < i /\ j <= x)
          => observations[i].t < observations[j].t
  BY <1>1 DEF OrderInv, Sorted
<1> HIDE DEF c, x, m, o
<1>5. \A k \in 0 .. m - 1 : o + k \in 0 .. 2 * c - 1
  BY <1>1, <1>2
<1>6. \A k \in 0 .. m - 1 : Slot(k) = IF o + k < c THEN o + k ELSE o + k - c
  <2> SUFFICES ASSUME NEW k \in 0 .. m - 1
               PROVE  Slot(k) = IF o + k < c THEN o + k ELSE o + k - c
    OBVIOUS
  <2>1. o + k \in 0 .. 2 * c - 1 /\ Slot(k) = (o + k) % c
    BY <1>3, <1>5
  <2>2. PICK y \in 0 .. 2 * c - 1 : y = o + k
    BY <2>1
  <2>3. y % c = IF y < c THEN y ELSE y - c
    BY <1>1, ModWraps
  <2>4. Slot(k) = y % c
    BY <2>1, <2>2
  <2>5. o \in Nat /\ c \in Nat /\ y \in Nat
    BY <1>1, <1>2, <2>2
  <2> QED
    BY <2>2, <2>3, <2>4, <2>5
<1>7. \A k \in 0 .. m - 1 : Slot(k) \in 0 .. m - 1
  BY <1>1, <1>2, <1>6
<1>8. Slot(0) = o /\ Slot(m - 1) = x
  BY <1>1, <1>2, <1>6
<1>9. ASSUME NEW j \in 0 .. m - 1, NEW k \in 0 .. m - 1, j < k
      PROVE  observations[Slot(j)].t < observations[Slot(k)].t
  <2>1. (Slot(j) < Slot(k) /\ (Slot(k) <= x \/ x < Slot(j))) \/ (x < Slot(j) /\ Slot(k) <= x)
    BY <1>1, <1>2, <1>6, <1>9
  <2> QED
    BY <1>4, <1>7, <2>1
<1>10. ASSUME NEW i \in 0 .. m - 1
       PROVE  \E k \in 0 .. m - 1 : Slot(k) = i
  <2>1. CASE o <= i
    <3>1. i - o \in 0 .. m - 1 /\ o + (i - o) = i /\ i < c
      BY <1>1, <1>2, <2>1
    <3> QED
      BY <1>6, <3>1
  <2>2. CASE i < o
    <3>1. i - o + c \in 0 .. m - 1 /\ o + (i - o + c) - c = i /\ ~(o + (i - o + c) < c)
      BY <1>1, <1>2, <2>2
    <3> QED
      BY <1>6, <3>1
  <2> QED
    BY <1>1, <1>2, <2>1, <2>2
<1> QED
  BY <1>1, <1>7, <1>8, <1>9, <1>10 DEF m, o, x

\* Places in the ring whose observation is not after t.
NotAfter(t) == {k \in 0 .. oracle.initialized - 1 : observations[Slot(k)].t <= t}

\* The halves tried for t, at every range of places.
Searches(f, t) ==
  LET Ring == 0 .. oracle.initialized - 1 IN
  f = [range \in Ring \X Ring |->
         LET lo == range[1]
             hi == range[2]
             mid == lo + ((hi - lo) + 1) \div 2
         IN  IF lo >= hi THEN lo
             ELSE IF observations[Slot(mid)].t <= t THEN f[<<mid, hi>>]
             ELSE f[<<lo, mid - 1>>]]

LEMMA SearchIs ==
  ASSUME NEW t
  PROVE  Search(t) = (CHOOSE f : Searches(f, t))[<<0, oracle.initialized - 1>>]
BY DEF Search, Searches

LEMMA SearchesBisect ==
  ASSUME NEW t, oracle.initialized \in Nat, NEW f
  PROVE  Searches(f, t) <=>
           Bisects(f, (0 .. oracle.initialized - 1) \X (0 .. oracle.initialized - 1), NotAfter(t))
<1> DEFINE R == 0 .. oracle.initialized - 1
           Half(x) == LET lo == x[1]
                          hi == x[2]
                          mid == lo + ((hi - lo) + 1) \div 2
                      IN  IF lo >= hi THEN lo
                          ELSE IF observations[Slot(mid)].t <= t THEN f[<<mid, hi>>]
                          ELSE f[<<lo, mid - 1>>]
<1>1. ASSUME NEW x \in R \X R
      PROVE  Half(x) = Halved(f, x, NotAfter(t))
  <2>1. x[1] \in R /\ x[2] \in R
    OBVIOUS
  <2>2. CASE x[1] >= x[2]
    BY <2>2 DEF Halved
  <2>3. CASE x[1] < x[2]
    <3>1. Middle(x[1], x[2]) \in R
      BY <2>1, <2>3, MiddleBetween
    <3>2. Middle(x[1], x[2]) \in NotAfter(t) <=> observations[Slot(Middle(x[1], x[2]))].t <= t
      BY <3>1 DEF NotAfter
    <3> QED
      BY <2>1, <2>3, <3>2 DEF Halved, Middle
  <2> QED
    BY <2>1, <2>2, <2>3
<1>2. Searches(f, t) <=> f = [x \in R \X R |-> Half(x)]
  BY DEF Searches
<1> HIDE DEF Half
<1>3. [x \in R \X R |-> Half(x)] = [x \in R \X R |-> Halved(f, x, NotAfter(t))]
  BY <1>1
<1> QED
  BY <1>2, <1>3 DEF Bisects

\* For a time between the oldest and the latest observation the search ends before
\* the latest one, at the last place whose observation is not after it.
LEMMA SearchFinds ==
  ASSUME OrderInv, Seeded, NEW t \in Nat, observations[OldestSlot].t <= t, t < Latest.t
  PROVE  /\ Search(t) \in 0 .. oracle.initialized - 1
         /\ Search(t) + 1 \in 0 .. oracle.initialized - 1
         /\ observations[Slot(Search(t))].t <= t /\ t < observations[Slot(Search(t) + 1)].t
<1> DEFINE n == oracle.initialized - 1
           L == NotAfter(t)
           s == Search(t)
<1>1. oracle.initialized \in Nat \ {0} /\ n \in Nat
  BY ShapeTypes DEF OrderInv, RingInv
<1>2. \A k \in 0 .. n : Slot(k) \in DOMAIN observations /\ observations[Slot(k)].t \in Nat
  BY SlotsInOrder DEF OrderInv, RingInv, Shape, Observation
<1>3. Slot(0) = OldestSlot /\ Slot(n) = oracle.index
  BY SlotsInOrder
<1>4. \A j, k \in 0 .. n : j < k => observations[Slot(j)].t < observations[Slot(k)].t
  BY SlotsInOrder
<1>5. \A k \in 0 .. n : k \in L <=> observations[Slot(k)].t <= t
  BY DEF NotAfter
<1>6. \E f : Bisects(f, (0 .. n) \X (0 .. n), L)
  <2> HIDE DEF n, L
  <2> QED
    BY <1>1, BisectionExists
<1>7. PICK f : Bisects(f, (0 .. n) \X (0 .. n), L) /\ s = f[<<0, n>>]
  <2>1. Searches(CHOOSE f : Searches(f, t), t)
    BY <1>1, <1>6, SearchesBisect
  <2> QED
    BY <1>1, <2>1, SearchesBisect, SearchIs
<1> HIDE DEF n, L, s
<1>8. 0 \in L
  BY <1>1, <1>3, <1>5
<1>9. \A j, k \in 0 .. n : j <= k /\ k \in L => j \in L
  <2> SUFFICES ASSUME NEW j \in 0 .. n, NEW k \in 0 .. n, j <= k, k \in L
               PROVE  j \in L
    OBVIOUS
  <2>1. j = k \/ j < k
    OBVIOUS
  <2>2. observations[Slot(j)].t <= observations[Slot(k)].t
    BY <1>2, <1>4, <2>1
  <2> QED
    BY <1>2, <1>5, <2>2
<1>10. s \in 0 .. n /\ s \in L /\ \A k \in 0 .. n : k > s => k \notin L
  BY <1>1, <1>7, <1>8, <1>9, BisectionFinds
<1>11. n \notin L
  BY <1>1, <1>2, <1>3, <1>5 DEF Latest
<1>12. s + 1 \in 0 .. n /\ s + 1 \notin L
  BY <1>1, <1>10, <1>11
<1>13. ~(observations[Slot(s + 1)].t <= t) /\ observations[Slot(s + 1)].t \in Nat
  BY <1>2, <1>5, <1>12
<1> QED
  BY <1>5, <1>10, <1>12, <1>13 DEF n, s

LEMMA SearchedBrackets ==
  ASSUME OrderInv, Seeded, NEW t \in Nat, observations[OldestSlot].t <= t, t < Latest.t
  PROVE  /\ Before(t) = observations[Slot(Search(t))] /\ After(t) = observations[Slot(Search(t) + 1)]
         /\ Slot(Search(t)) \in DOMAIN observations /\ Slot(Search(t) + 1) \in DOMAIN observations
         /\ Before(t).t <= t /\ t < After(t).t
         /\ \A i \in DOMAIN observations : observations[i].t <= Before(t).t \/ observations[i].t >= After(t).t
<1> DEFINE s == Search(t)
           n == oracle.initialized - 1
<1>1. /\ s \in 0 .. n /\ s + 1 \in 0 .. n
      /\ observations[Slot(s)].t <= t /\ t < observations[Slot(s + 1)].t
  BY SearchFinds
<1>2. oracle.initialized \in Nat
  BY ShapeTypes DEF OrderInv, RingInv
<1>3. Before(t) = observations[Slot(s)] /\ After(t) = observations[Slot(s + 1)]
  BY <1>1, <1>2 DEF Before, After
<1>4. \A k \in 0 .. n : Slot(k) \in DOMAIN observations /\ observations[Slot(k)].t \in Nat
  BY SlotsInOrder DEF OrderInv, RingInv, Shape, Observation
<1> HIDE DEF s
<1>5. ASSUME NEW i \in DOMAIN observations
      PROVE  observations[i].t <= Before(t).t \/ observations[i].t >= After(t).t
  <2>1. PICK k \in 0 .. n : Slot(k) = i
    BY SlotsInOrder
  <2>2. \A a, b \in 0 .. n : a < b => observations[Slot(a)].t < observations[Slot(b)].t
    BY SlotsInOrder
  <2>3. k < s \/ k = s \/ k = s + 1 \/ k > s + 1
    BY <1>1, <1>2
  <2> QED
    BY <1>1, <1>3, <1>4, <2>1, <2>2, <2>3
<1> QED
  BY <1>1, <1>3, <1>4, <1>5 DEF s

\* As long as no wrapped ring is grown, the bisection finds the two observations
\* around the time asked for, however often the ring has gone round.
THEOREM SearchAlwaysBrackets ==
  ASSUME ~GrowsWrapped
  PROVE  HSpec => []SearchBrackets
<1>1. OrderInv => SearchBrackets
  <2> SUFFICES ASSUME OrderInv, oracle.initialized >= 2,
                      NEW t \in observations[OldestSlot].t .. Latest.t - 1
               PROVE  /\ Before(t).t <= t /\ t < After(t).t
                      /\ \A u \in Stored : u <= Before(t).t \/ u >= After(t).t
    BY DEF SearchBrackets
  <2>1. Seeded
    BY ShapeTypes DEF OrderInv, RingInv
  <2>2. OldestSlot \in DOMAIN observations
    <3>1. 0 \in 0 .. oracle.initialized - 1
      BY ShapeTypes DEF OrderInv, RingInv
    <3> QED
      BY <2>1, <3>1, SlotsInOrder
  <2>3. observations[OldestSlot].t \in Nat /\ Latest.t \in Nat
    BY <2>1, <2>2 DEF OrderInv, RingInv, Shape, Observation, Seeded, Latest
  <2>4. t \in Nat /\ observations[OldestSlot].t <= t /\ t < Latest.t
    BY <2>3
  <2> QED
    BY <2>1, <2>4, SearchedBrackets DEF Stored
<1> QED
  BY <1>1, OrderInvariance, PTL

-----------------------------------------------------------------------------
(* What Observe answers, against the true integral of the prices. *)

\* From u to v the price stayed the same.
Steady(u, v) ==
  \E pa, pb \in Nat : \A w \in u .. v :
    truth[w].a = truth[u].a + pa * (w - u) /\ truth[w].b = truth[u].b + pb * (w - u)

\* Observation j is the next one after i.
NextTo(i, j) ==
  /\ observations[i].t < observations[j].t
  /\ \A h \in DOMAIN observations :
       observations[h].t <= observations[i].t \/ observations[h].t >= observations[j].t

\* The price in force since the latest observation is that of the reserves.
SinceLatest ==
  /\ Latest.t < now => Representable(reserves)
  /\ \A u \in Latest.t .. now :
       /\ truth[u].a = Latest.a + PriceA(reserves) * (u - Latest.t)
       /\ truth[u].b = Latest.b + PriceB(reserves) * (u - Latest.t)

StoredTrue ==
  \A i \in DOMAIN observations :
    observations[i].a = truth[observations[i].t].a /\ observations[i].b = truth[observations[i].t].b

SteadyBetween ==
  \A i, j \in DOMAIN observations :
    NextTo(i, j) => Steady(observations[i].t, observations[j].t)

TruthShape ==
  /\ DOMAIN truth = 0 .. now
  /\ \A u \in 0 .. now : truth[u] \in [a : Nat, b : Nat, fits : BOOLEAN]
  /\ Seeded => ~Empty(reserves)

Faithful ==
  /\ ~Seeded => truth[now].a = 0 /\ truth[now].b = 0
  /\ Seeded => SinceLatest
  /\ StoredTrue /\ SteadyBetween

\* No price so far was left out for being too large.
TruthInv == TruthShape /\ (truth[now].fits => Faithful)

LEMMA TimesKnown ==
  ASSUME RingInv
  PROVE  /\ \A i \in DOMAIN observations :
              /\ observations[i] \in Observation
              /\ observations[i].t \in 0 .. now /\ observations[i].t <= Latest.t
         /\ Seeded => Latest \in Observation /\ Latest.t \in 0 .. now /\ oracle.index \in DOMAIN observations
         /\ now \in Nat
<1>1. /\ now \in Nat /\ (Seeded => Latest.t <= now)
      /\ \A i \in DOMAIN observations :
           observations[i] \in Observation /\ observations[i].t <= Latest.t
  BY ShapeTypes DEF RingInv, Shape, LatestLargest
<1>2. Seeded => Latest \in Observation /\ oracle.index \in DOMAIN observations
  BY <1>1 DEF Seeded, Latest
<1>3. ASSUME NEW i \in DOMAIN observations
      PROVE  Seeded
  BY <1>3, ShapeTypes DEF RingInv, Shape
<1>4. Seeded => Latest.t \in Nat
  BY <1>2 DEF Observation
<1>5. ASSUME NEW i \in DOMAIN observations
      PROVE  observations[i].t \in 0 .. now
  <2>1. observations[i].t \in Nat /\ Latest.t \in Nat /\ Latest.t <= now /\ observations[i].t <= Latest.t
    BY <1>1, <1>3, <1>4 DEF Observation
  <2> QED
    BY <1>1, <2>1
<1> QED
  BY <1>1, <1>2, <1>4, <1>5

LEMMA PricesNat ==
  ASSUME RingInv, ~Empty(reserves)
  PROVE  PriceA(reserves) \in Nat /\ PriceB(reserves) \in Nat
  BY PriceNat, ShapeTypes DEF RingInv, Empty

\* One more second at the same price.
LEMMA OneMore ==
  ASSUME NEW x \in Nat, NEW p \in Nat, NEW y \in Nat, NEW z \in Nat, z <= y
  PROVE  (x + p * (y - z)) + p = x + p * (y + 1 - z)
<1>1. PICK d \in Nat : d = y - z
  OBVIOUS
<1>2. p * (d + 1) = p * d + p
  OBVIOUS
<1>3. y + 1 - z = d + 1
  BY <1>1
<1>4. p * d \in Nat
  OBVIOUS
<1> QED
  BY <1>1, <1>2, <1>3, <1>4

LEMMA SecondKeepsTruth ==
  ASSUME RingInv, TruthInv, Second
  PROVE  TruthInv'
<1>1. /\ now \in Nat /\ now' = now + 1 /\ UNCHANGED <<reserves, observations, oracle>>
      /\ DOMAIN truth' = 0 .. now'
      /\ \A u \in 0 .. now : truth'[u] = truth[u]
      /\ truth'[now + 1] = IF ~Seeded \/ Empty(reserves) THEN truth[now]
                           ELSE [a |-> truth[now].a + PriceA(reserves),
                                 b |-> truth[now].b + PriceB(reserves),
                                 fits |-> truth[now].fits /\ Representable(reserves)]
  <2>1. now \in Nat /\ now' = now + 1 /\ UNCHANGED <<reserves, observations, oracle>>
    BY TimesKnown DEF Second, Tick
  <2>2. truth' = [t \in 0 .. now + 1 |->
                   IF t <= now THEN truth[t]
                   ELSE IF ~Seeded \/ Empty(reserves) THEN truth[now]
                   ELSE [a |-> truth[now].a + PriceA(reserves),
                         b |-> truth[now].b + PriceB(reserves),
                         fits |-> truth[now].fits /\ Representable(reserves)]]
    BY DEF Second
  <2>3. now + 1 \in 0 .. now + 1 /\ ~(now + 1 <= now)
        /\ \A u \in 0 .. now : u \in 0 .. now + 1 /\ u <= now
    BY <2>1
  <2> QED
    BY <2>1, <2>2, <2>3
<1>2. Seeded' = Seeded /\ Latest' = Latest /\ Empty(reserves)' = Empty(reserves)
  BY <1>1 DEF Seeded, Latest, Empty
<1>3. TruthShape /\ now \in 0 .. now
  BY <1>1 DEF TruthInv
<1>4. truth'[now + 1] \in [a : Nat, b : Nat, fits : BOOLEAN]
  <2>1. CASE ~Seeded \/ Empty(reserves)
    BY <1>1, <1>3, <2>1 DEF TruthShape
  <2>2. CASE Seeded /\ ~Empty(reserves)
    <3>1. PriceA(reserves) \in Nat /\ PriceB(reserves) \in Nat
      BY <2>2, PricesNat
    <3>2. truth[now] \in [a : Nat, b : Nat, fits : BOOLEAN]
      BY <1>3 DEF TruthShape
    <3>3. truth[now].a + PriceA(reserves) \in Nat /\ truth[now].b + PriceB(reserves) \in Nat
      BY <3>1, <3>2
    <3>4. (truth[now].fits /\ Representable(reserves)) \in BOOLEAN
      OBVIOUS
    <3> QED
      BY <1>1, <2>2, <3>3, <3>4
  <2> QED
    BY <2>1, <2>2
<1>5. TruthShape'
  <2>1. \A u \in 0 .. now' : u \in 0 .. now \/ u = now + 1
    BY <1>1
  <2>2. \A u \in 0 .. now' : truth'[u] \in [a : Nat, b : Nat, fits : BOOLEAN]
    BY <1>1, <1>3, <1>4, <2>1 DEF TruthShape
  <2> QED
    BY <1>1, <1>2, <1>3, <2>2 DEF TruthShape
<1>6. ASSUME truth'[now'].fits
      PROVE  Faithful'
  <2>1. truth[now].fits /\ (Seeded => Representable(reserves))
    <3>1. truth'[now + 1].fits
      BY <1>1, <1>6
    <3>2. CASE ~Seeded
      BY <1>1, <3>1, <3>2
    <3>3. CASE Seeded
      <4>1. ~Empty(reserves)
        BY <1>3, <3>3 DEF TruthShape
      <4>2. truth'[now + 1].fits = (truth[now].fits /\ Representable(reserves))
        BY <1>1, <3>3, <4>1
      <4> QED
        BY <3>1, <4>2
    <3> QED
      BY <3>2, <3>3
  <2>2. Faithful
    BY <2>1 DEF TruthInv
  <2>3. StoredTrue'
    <3>1. \A i \in DOMAIN observations : observations[i].t \in 0 .. now
      BY TimesKnown
    <3> QED
      BY <1>1, <2>2, <3>1 DEF Faithful, StoredTrue
  <2>4. SteadyBetween'
    <3>1. ASSUME NEW u \in 0 .. now, NEW v \in 0 .. now, Steady(u, v)
          PROVE  Steady(u, v)'
      <4>1. \A w \in u .. v : truth'[w] = truth[w]
        BY <1>1
      <4>2. truth'[u] = truth[u]
        BY <1>1
      <4>3. PICK pa \in Nat, pb \in Nat : \A w \in u .. v :
              truth[w].a = truth[u].a + pa * (w - u) /\ truth[w].b = truth[u].b + pb * (w - u)
        BY <3>1 DEF Steady
      <4>4. \A w \in u .. v :
              truth'[w].a = truth'[u].a + pa * (w - u) /\ truth'[w].b = truth'[u].b + pb * (w - u)
        BY <4>1, <4>2, <4>3
      <4> QED
        BY <4>4 DEF Steady
    <3>2. ASSUME NEW i \in DOMAIN observations', NEW j \in DOMAIN observations', NextTo(i, j)'
          PROVE  Steady(observations[i].t, observations[j].t)'
      <4>1. PICK u \in 0 .. now, v \in 0 .. now :
              u = observations[i].t /\ v = observations[j].t
        BY <1>1, TimesKnown
      <4>2. NextTo(i, j)
        BY <1>1, <3>2 DEF NextTo
      <4>3. Steady(observations[i].t, observations[j].t)
        BY <1>1, <2>2, <4>2 DEF Faithful, SteadyBetween
      <4>4. Steady(u, v)
        BY <4>1, <4>3
      <4>5. Steady(u, v)'
        BY <3>1, <4>4
      <4>6. observations'[i].t = u /\ observations'[j].t = v
        BY <1>1, <4>1
      <4> QED
        BY <4>5, <4>6 DEF Steady
    <3> QED
      BY <3>2 DEF SteadyBetween
  <2>5. ASSUME Seeded PROVE SinceLatest'
    <3>1. ~Empty(reserves)
      BY <1>3, <2>5 DEF TruthShape
    <3>2. PriceA(reserves) \in Nat /\ PriceB(reserves) \in Nat
      BY <3>1, PricesNat
    <3>3. /\ truth'[now + 1].a = truth[now].a + PriceA(reserves)
          /\ truth'[now + 1].b = truth[now].b + PriceB(reserves)
      BY <1>1, <2>5, <3>1
    <3>4. Latest \in Observation /\ Latest.t \in 0 .. now
      BY <2>5, TimesKnown
    <3>5. \A u \in Latest.t .. now :
             /\ truth[u].a = Latest.a + PriceA(reserves) * (u - Latest.t)
             /\ truth[u].b = Latest.b + PriceB(reserves) * (u - Latest.t)
      BY <2>2, <2>5 DEF Faithful, SinceLatest
    <3>6. /\ truth'[now + 1].a = Latest.a + PriceA(reserves) * (now + 1 - Latest.t)
          /\ truth'[now + 1].b = Latest.b + PriceB(reserves) * (now + 1 - Latest.t)
      <4>1. /\ Latest.a \in Nat /\ Latest.b \in Nat /\ Latest.t \in Nat /\ Latest.t <= now
            /\ now \in Latest.t .. now
        BY <1>1, <3>4 DEF Observation
      <4>2. /\ (Latest.a + PriceA(reserves) * (now - Latest.t)) + PriceA(reserves)
                 = Latest.a + PriceA(reserves) * (now + 1 - Latest.t)
            /\ (Latest.b + PriceB(reserves) * (now - Latest.t)) + PriceB(reserves)
                 = Latest.b + PriceB(reserves) * (now + 1 - Latest.t)
        <5>1. \A x, p, y, z \in Nat : z <= y => (x + p * (y - z)) + p = x + p * (y + 1 - z)
          BY OneMore
        <5> QED
          BY <1>1, <3>2, <4>1, <5>1
      <4>3. /\ truth[now].a = Latest.a + PriceA(reserves) * (now - Latest.t)
            /\ truth[now].b = Latest.b + PriceB(reserves) * (now - Latest.t)
        BY <3>5, <4>1
      <4> QED
        BY <3>3, <4>2, <4>3
    <3>7. ASSUME NEW u \in Latest.t .. now + 1
          PROVE  /\ truth'[u].a = Latest.a + PriceA(reserves) * (u - Latest.t)
                 /\ truth'[u].b = Latest.b + PriceB(reserves) * (u - Latest.t)
      <4>1. CASE u = now + 1
        <5>1. u - Latest.t = now + 1 - Latest.t /\ truth'[u] = truth'[now + 1]
          BY <4>1, <1>1, <3>4
        <5> QED
          BY <3>6, <5>1
      <4>2. CASE u # now + 1
        <5>1. u \in Latest.t .. now /\ u \in 0 .. now
          BY <1>1, <3>4, <4>2
        <5> QED
          BY <1>1, <3>5, <5>1
      <4> QED
        BY <4>1, <4>2
    <3>8. Representable(reserves)' /\ PriceA(reserves)' = PriceA(reserves) /\ PriceB(reserves)' = PriceB(reserves)
      BY <1>1, <2>1, <2>5 DEF Representable, PriceA, PriceB
    <3> QED
      BY <1>1, <1>2, <3>7, <3>8 DEF SinceLatest
  <2>6. ~Seeded => truth'[now'].a = 0 /\ truth'[now'].b = 0
    BY <1>1, <2>2 DEF Faithful
  <2> QED
    BY <1>2, <2>3, <2>4, <2>5, <2>6 DEF Faithful
<1> QED
  BY <1>5, <1>6 DEF TruthInv

\* A handler writes the price that was in force since the latest observation.
LEMMA AppendKeepsFaith ==
  ASSUME OrderInv, RingInv', TruthShape, Faithful, Seeded, now > Latest.t, Append,
         UNCHANGED <<now, truth>>, reserves' \in Pools, ~Empty(reserves')
  PROVE  Faithful'
<1> DEFINE n == NextSlot
           k == oracle.index
<1>1. RingInv /\ ~Empty(reserves)
  BY DEF OrderInv, TruthShape
<1>2. /\ oracle'.index = n /\ DOMAIN observations' = DOMAIN observations \cup {n}
      /\ \A i \in DOMAIN observations : i # n => observations'[i] = observations[i]
      /\ observations'[n].t = now
  BY <1>1, Appended
<1>3. observations'[n] = Accrued(Latest, reserves, now)
  BY DEF Append
<1>4. \A i \in DOMAIN observations :
        observations'[i] # observations[i] => \A j \in DOMAIN observations : observations[i].t <= observations[j].t
  BY <1>1, AppendKeepsOrder
<1>5. /\ now \in Nat /\ k \in DOMAIN observations /\ Latest = observations[k]
      /\ Latest \in Observation /\ Latest.t \in 0 .. now
      /\ \A i \in DOMAIN observations :
           /\ observations[i] \in Observation /\ observations[i].t \in Nat
           /\ observations[i].t <= Latest.t /\ observations[i].t < now
  <2>1. now \in Nat /\ Latest \in Observation /\ Latest.t \in 0 .. now /\ k \in DOMAIN observations
    BY <1>1, TimesKnown
  <2>2. \A i \in DOMAIN observations :
          observations[i] \in Observation /\ observations[i].t \in 0 .. now /\ observations[i].t <= Latest.t
    BY <1>1, TimesKnown
  <2> QED
    BY <2>1, <2>2 DEF Latest
<1> HIDE DEF n, k
<1>6. Seeded' /\ Latest' = observations'[n]
  BY <1>2 DEF Seeded, Latest
<1>7. observations'[n].a = truth[now].a /\ observations'[n].b = truth[now].b
  <2>1. now \in Latest.t .. now
    BY <1>5
  <2> QED
    BY <1>3, <2>1 DEF Faithful, SinceLatest, Accrued
<1>8. StoredTrue'
  <2> SUFFICES ASSUME NEW i \in DOMAIN observations'
               PROVE  /\ observations'[i].a = truth[observations'[i].t].a
                      /\ observations'[i].b = truth[observations'[i].t].b
    BY DEF StoredTrue
  <2>1. CASE i = n
    BY <1>2, <1>7, <2>1
  <2>2. CASE i # n
    BY <1>2, <2>2 DEF Faithful, StoredTrue
  <2> QED
    BY <2>1, <2>2
<1>9. SinceLatest'
  <2>1. PriceA(reserves)' \in Nat /\ PriceB(reserves)' \in Nat
    <3>1. reserves' \in Nat \X Nat /\ reserves'[1] > 0 /\ reserves'[2] > 0
      BY OracleAssumption DEF Empty
    <3> QED
      BY <3>1, PriceNat DEF PriceA, PriceB
  <2>2. Latest'.t = now /\ now' = now /\ truth' = truth
    BY <1>2, <1>6
  <2>3. truth[now].a \in Nat /\ truth[now].b \in Nat
    BY <1>5 DEF TruthShape
  <2>4. \A p, x \in Nat : x = x + p * (now - now)
    BY <1>5
  <2>5. Latest'.a = truth[now].a /\ Latest'.b = truth[now].b
    BY <1>6, <1>7
  <2>6. \A u \in now .. now : u = now
    BY <1>5
  <2>7. /\ truth[now].a = truth[now].a + PriceA(reserves)' * (now - now)
        /\ truth[now].b = truth[now].b + PriceB(reserves)' * (now - now)
    BY <2>1, <2>3, <2>4
  <2>8. ~(now < now)
    BY <1>5
  <2>9. \A u \in Latest'.t .. now' :
          /\ truth'[u].a = Latest'.a + PriceA(reserves)' * (u - Latest'.t)
          /\ truth'[u].b = Latest'.b + PriceB(reserves)' * (u - Latest'.t)
    BY <2>2, <2>5, <2>6, <2>7
  <2> QED
    BY <2>2, <2>8, <2>9 DEF SinceLatest
<1>10. Steady(Latest.t, now)
  <2>1. PriceA(reserves) \in Nat /\ PriceB(reserves) \in Nat
    BY <1>1, PricesNat
  <2>2. Latest.a = truth[Latest.t].a /\ Latest.b = truth[Latest.t].b
    BY <1>5 DEF Faithful, StoredTrue
  <2>3. \A u \in Latest.t .. now :
          /\ truth[u].a = truth[Latest.t].a + PriceA(reserves) * (u - Latest.t)
          /\ truth[u].b = truth[Latest.t].b + PriceB(reserves) * (u - Latest.t)
    BY <2>2 DEF Faithful, SinceLatest
  <2> QED
    BY <2>1, <2>3 DEF Steady
<1>11. ASSUME NEW i \in DOMAIN observations', NEW j \in DOMAIN observations', NextTo(i, j)'
       PROVE  Steady(observations'[i].t, observations'[j].t)
  <2>1. observations'[i].t < observations'[j].t
        /\ \A h \in DOMAIN observations' :
             observations'[h].t <= observations'[i].t \/ observations'[h].t >= observations'[j].t
    BY <1>11 DEF NextTo
  <2>2. i # n
    <3>1. j # n => observations'[j].t < now
      BY <1>2, <1>5
    <3>2. ASSUME i = n PROVE FALSE
      <4>1. observations'[i].t = now /\ observations'[j].t <= now
        BY <1>2, <1>5, <3>1, <3>2
      <4>2. observations'[j].t \in Nat
        BY <1>2, <1>5
      <4> QED
        BY <1>5, <2>1, <4>1, <4>2
    <3> QED
      BY <3>2
  <2>3. i \in DOMAIN observations /\ observations'[i] = observations[i]
    BY <1>2, <2>2
  <2>4. CASE j = n
    <3>1. k # n
      <4>1. ASSUME k = n PROVE FALSE
        <5>1. observations'[k] # observations[k]
          BY <1>2, <1>5, <4>1
        <5>2. Latest.t <= observations[i].t
          BY <1>4, <1>5, <2>3, <5>1
        <5>3. observations[i].t = Latest.t
          BY <1>5, <2>3, <5>2
        <5>4. i # k
          BY <2>2, <4>1
        <5>5. observations[i].t # observations[k].t
          <6>1. \A x, y \in DOMAIN observations :
                  (x < y /\ (y <= k \/ k < x)) \/ (k < x /\ y <= k) => observations[x].t < observations[y].t
            BY DEF OrderInv, Sorted, k
          <6>2. i \in Nat /\ k \in Nat
            BY <1>1, <1>5, <2>3, ShapeTypes DEF RingInv, Shape
          <6>3. observations[i].t < observations[k].t
            BY <1>5, <2>3, <5>4, <6>1, <6>2
          <6> QED
            BY <1>5, <2>3, <6>3
        <5> QED
          BY <1>5, <5>3, <5>5
      <4> QED
        BY <4>1
    <3>2. observations'[k] = observations[k] /\ k \in DOMAIN observations'
      BY <1>2, <1>5, <3>1
    <3>3. Latest.t <= observations[i].t \/ Latest.t >= now
      BY <1>2, <1>5, <2>1, <2>3, <2>4, <3>2
    <3>4. observations[i].t = Latest.t
      BY <1>5, <2>3, <3>3
    <3> QED
      BY <1>2, <1>10, <2>3, <2>4, <3>4
  <2>5. CASE j # n
    <3>1. j \in DOMAIN observations /\ observations'[j] = observations[j]
      BY <1>2, <2>5
    <3>2. ASSUME NEW h \in DOMAIN observations
          PROVE  observations[h].t <= observations[i].t \/ observations[h].t >= observations[j].t
      <4>1. CASE observations'[h] = observations[h]
        BY <1>2, <2>1, <2>3, <3>1, <4>1
      <4>2. CASE observations'[h] # observations[h]
        BY <1>4, <2>3, <4>2
      <4> QED
        BY <4>1, <4>2
    <3>3. NextTo(i, j)
      BY <2>1, <2>3, <3>1, <3>2 DEF NextTo
    <3> QED
      BY <2>3, <3>1, <3>3 DEF Faithful, SteadyBetween
  <2> QED
    BY <2>4, <2>5
<1>12. SteadyBetween'
  <2>1. \A i, j \in DOMAIN observations' : NextTo(i, j)' => Steady(observations'[i].t, observations'[j].t)
    BY <1>11
  <2>2. truth' = truth
    OBVIOUS
  <2> QED
    BY <2>1, <2>2 DEF SteadyBetween, Steady
<1> QED
  BY <1>6, <1>8, <1>9, <1>12 DEF Faithful

\* The first observation starts both integrals.
LEMMA SeedKeepsFaith ==
  ASSUME RingInv, TruthShape, Faithful, ~Seeded, Seed,
         UNCHANGED <<now, truth>>, reserves' \in Pools, ~Empty(reserves')
  PROVE  Faithful'
<1>1. oracle.initialized = 0 /\ oracle.index = 0 /\ now \in Nat
  BY ShapeTypes DEF RingInv, Shape
<1>2. observations' = [i \in {0} |-> [t |-> now, a |-> 0, b |-> 0]] /\ oracle'.index = 0
  BY <1>1 DEF Seed, RingInv, Shape
<1>3. DOMAIN observations' = {0} /\ observations'[0] = [t |-> now, a |-> 0, b |-> 0]
  BY <1>2
<1>4. Seeded' /\ Latest' = observations'[0]
  BY <1>2, <1>3 DEF Seeded, Latest
<1>5. truth[now].a = 0 /\ truth[now].b = 0
  BY DEF Faithful
<1>6. StoredTrue'
  BY <1>3, <1>5 DEF StoredTrue
<1>7. SteadyBetween'
  <2>1. \A i, j \in DOMAIN observations' : ~NextTo(i, j)'
    BY <1>1, <1>3 DEF NextTo
  <2> QED
    BY <2>1 DEF SteadyBetween
<1>8. SinceLatest'
  <2>1. PriceA(reserves)' \in Nat /\ PriceB(reserves)' \in Nat
    <3>1. reserves' \in Nat \X Nat /\ reserves'[1] > 0 /\ reserves'[2] > 0
      BY OracleAssumption DEF Empty
    <3> QED
      BY <3>1, PriceNat DEF PriceA, PriceB
  <2>2. Latest'.t = now /\ Latest'.a = 0 /\ Latest'.b = 0
    BY <1>3, <1>4
  <2>3. \A p \in Nat : 0 = 0 + p * (now - now)
    BY <1>1
  <2>4. \A u \in now .. now : u = now
    BY <1>1
  <2>5. ~(now < now)
    BY <1>1
  <2>6. 0 = 0 + PriceA(reserves)' * (now - now) /\ 0 = 0 + PriceB(reserves)' * (now - now)
    BY <2>1, <2>3
  <2>7. \A u \in Latest'.t .. now' :
          /\ truth'[u].a = Latest'.a + PriceA(reserves)' * (u - Latest'.t)
          /\ truth'[u].b = Latest'.b + PriceB(reserves)' * (u - Latest'.t)
    BY <1>5, <2>2, <2>4, <2>6
  <2> QED
    BY <2>2, <2>5, <2>7 DEF SinceLatest
<1> QED
  BY <1>4, <1>6, <1>7, <1>8 DEF Faithful

\* Nothing is written in the second of the latest observation, and need not be.
LEMMA StillKeepsFaith ==
  ASSUME RingInv, TruthShape, Faithful, UNCHANGED <<observations, now, truth>>,
         oracle'.index = oracle.index,
         \/ reserves' = reserves
         \/ ~Seeded
         \/ Latest.t = now /\ reserves' \in Pools /\ ~Empty(reserves')
  PROVE  Faithful'
<1>1. Seeded' = Seeded /\ Latest' = Latest
  BY DEF Seeded, Latest
<1>2. StoredTrue'
  BY DEF Faithful, StoredTrue
<1>3. SteadyBetween'
  BY DEF Faithful, SteadyBetween, Steady, NextTo
<1>4. ASSUME Seeded PROVE SinceLatest'
  <2>1. CASE reserves' = reserves
    BY <1>1, <1>4, <2>1 DEF Faithful, SinceLatest, Representable, PriceA, PriceB
  <2>2. CASE Latest.t = now /\ reserves' \in Pools /\ ~Empty(reserves')
    <3>1. PriceA(reserves)' \in Nat /\ PriceB(reserves)' \in Nat
      <4>1. reserves' \in Nat \X Nat /\ reserves'[1] > 0 /\ reserves'[2] > 0
        BY <2>2, OracleAssumption DEF Empty
      <4> QED
        BY <4>1, PriceNat DEF PriceA, PriceB
    <3>2. now \in Nat /\ Latest \in Observation /\ oracle.index \in DOMAIN observations
      BY <1>4, TimesKnown
    <3>3. Latest.a \in Nat /\ Latest.b \in Nat
      BY <3>2 DEF Observation
    <3>4. Latest.a = truth[now].a /\ Latest.b = truth[now].b
      BY <2>2, <3>2 DEF Faithful, StoredTrue, Latest
    <3>5. \A p, x \in Nat : x = x + p * (now - now)
      BY <3>2
    <3>6. /\ Latest.a = Latest.a + PriceA(reserves)' * (now - now)
          /\ Latest.b = Latest.b + PriceB(reserves)' * (now - now)
      BY <3>1, <3>3, <3>5
    <3>7. ~(now < now) /\ \A u \in now .. now : u = now
      BY <3>2
    <3>8. \A u \in Latest'.t .. now' :
            /\ truth'[u].a = Latest'.a + PriceA(reserves)' * (u - Latest'.t)
            /\ truth'[u].b = Latest'.b + PriceB(reserves)' * (u - Latest'.t)
      BY <1>1, <2>2, <3>4, <3>6, <3>7
    <3> QED
      BY <1>1, <2>2, <3>7, <3>8 DEF SinceLatest
  <2> QED
    BY <1>4, <2>1, <2>2
<1> QED
  BY <1>1, <1>2, <1>3, <1>4 DEF Faithful

LEMMA TradeKeepsTruth ==
  ASSUME OrderInv, RingInv', TruthInv, NEW r \in Pools, Trade(r)
  PROVE  TruthInv'
<1>1. /\ Empty(r) => Empty(reserves)
      /\ OracleUpdate /\ reserves' = r /\ now' = now /\ truth' = truth /\ RingInv
  BY DEF Trade, Touch, OrderInv
<1>2. Empty(reserves)' <=> Empty(r)
  BY <1>1 DEF Empty
<1>3. CASE Empty(reserves)
  <2>1. ~Seeded /\ UNCHANGED ring
    BY <1>1, <1>3 DEF OracleUpdate, TruthInv, TruthShape
  <2>2. observations' = observations /\ oracle' = oracle
    BY <2>1 DEF ring
  <2>3. TruthShape'
    BY <1>1, <2>1, <2>2 DEF TruthInv, TruthShape, Seeded
  <2>4. truth[now].fits => Faithful'
    BY <1>1, <2>1, <2>2, StillKeepsFaith DEF TruthInv
  <2> QED
    BY <1>1, <2>3, <2>4 DEF TruthInv
<1>4. CASE ~Empty(reserves)
  <2>1. ~Empty(reserves')
    BY <1>1, <1>4
  <2>2. TruthShape'
    BY <1>1, <1>2, <1>4 DEF TruthInv, TruthShape
  <2>3. ASSUME truth[now].fits PROVE Faithful'
    <3>1. TruthShape /\ Faithful
      BY <2>3 DEF TruthInv
    <3>2. CASE ~Seeded
      <4>1. Seed
        BY <1>1, <1>4, <3>2 DEF OracleUpdate
      <4> QED
        BY <1>1, <2>1, <3>1, <3>2, <4>1, SeedKeepsFaith
    <3>3. CASE Seeded
      <4>1. Latest.t \in 0 .. now /\ now \in Nat
        BY <1>1, <3>3, TimesKnown
      <4>2. CASE Latest.t = now
        <5>1. UNCHANGED ring
          BY <1>1, <1>4, <3>3, <4>1, <4>2 DEF OracleUpdate
        <5>2. observations' = observations /\ oracle' = oracle
          BY <5>1 DEF ring
        <5> QED
          BY <1>1, <2>1, <3>1, <4>2, <5>2, StillKeepsFaith
      <4>3. CASE Latest.t < now
        <5>1. Representable(reserves)
          BY <3>1, <3>3, <4>3 DEF Faithful, SinceLatest
        <5>2. Append /\ now > Latest.t
          BY <1>1, <1>4, <3>3, <4>1, <4>3, <5>1 DEF OracleUpdate
        <5> QED
          BY <1>1, <2>1, <3>1, <3>3, <5>2, AppendKeepsFaith
      <4> QED
        BY <4>1, <4>2, <4>3
    <3> QED
      BY <3>2, <3>3
  <2> QED
    BY <1>1, <2>2, <2>3 DEF TruthInv
<1> QED
  BY <1>3, <1>4

LEMMA NextKeepsTruth ==
  ASSUME OrderInv, RingInv', TruthInv, [HNext]_hvars
  PROVE  TruthInv'
<1>1. CASE \E r \in Pools : Trade(r)
  BY <1>1, TradeKeepsTruth
<1>2. CASE \E n \in 1 .. MAXSLOTS : Grow(n)
  <2>1. PICK n \in 1 .. MAXSLOTS : Grow(n)
    BY <1>2
  <2>2. /\ UNCHANGED <<now, reserves, observations, truth>>
        /\ oracle'.index = oracle.index /\ RingInv
    BY <2>1 DEF Grow, IncreaseObservationCardinality, OrderInv, RingInv, Shape
  <2>3. TruthShape'
    BY <2>2 DEF TruthInv, TruthShape, Seeded, Empty
  <2>4. truth[now].fits => Faithful'
    BY <2>2, StillKeepsFaith DEF TruthInv
  <2> QED
    BY <2>2, <2>3, <2>4 DEF TruthInv
<1>3. CASE Second
  BY <1>3, SecondKeepsTruth DEF OrderInv
<1>4. CASE UNCHANGED hvars
  <2>1. UNCHANGED <<now, reserves, observations, oracle, truth>> /\ RingInv
    BY <1>4 DEF hvars, OrderInv
  <2>2. TruthShape'
    BY <2>1 DEF TruthInv, TruthShape, Seeded, Empty
  <2>3. truth[now].fits => Faithful'
    BY <2>1, StillKeepsFaith DEF TruthInv
  <2> QED
    BY <2>1, <2>2, <2>3 DEF TruthInv
<1> QED
  BY <1>1, <1>2, <1>3, <1>4 DEF HNext

LEMMA InitTruth == HInit => TruthInv
<1> SUFFICES ASSUME HInit PROVE TruthInv
  OBVIOUS
<1>1. /\ now = 0 /\ observations = << >> /\ truth = [t \in {0} |-> [a |-> 0, b |-> 0, fits |-> TRUE]]
  BY DEF HInit, Init
<1>2. DOMAIN observations = {} /\ ~Seeded
  BY <1>1 DEF Seeded
<1>3. DOMAIN truth = 0 .. now /\ truth[0] = [a |-> 0, b |-> 0, fits |-> TRUE]
  BY <1>1
<1> QED
  BY <1>1, <1>2, <1>3 DEF TruthInv, TruthShape, Faithful, StoredTrue, SteadyBetween

\* Interpolating along a straight line gives its points, rounding included.
LEMMA OnTheLine ==
  ASSUME NEW p \in Nat, NEW d \in Nat \ {0}, NEW x \in Nat
  PROVE  ((p * d) * x) \div d = p * x
<1>1. p * x \in Nat
  OBVIOUS
<1>2. (p * d) * x = d * (p * x)
  OBVIOUS
<1>3. \A y \in Nat : (d * y) \div d = y
  OBVIOUS
<1> QED
  BY <1>1, <1>2, <1>3

LEMMA BetweenExact ==
  ASSUME NEW o \in Observation, NEW q \in Observation, NEW t \in o.t .. q.t, o.t < q.t,
         Steady(o.t, q.t), Between(o, q, t) # NoAnswer,
         o.a = truth[o.t].a, o.b = truth[o.t].b, q.a = truth[q.t].a, q.b = truth[q.t].b
  PROVE  Between(o, q, t).a = truth[t].a /\ Between(o, q, t).b = truth[t].b
<1>1. PICK pa \in Nat, pb \in Nat : \A w \in o.t .. q.t :
        truth[w].a = truth[o.t].a + pa * (w - o.t) /\ truth[w].b = truth[o.t].b + pb * (w - o.t)
  BY DEF Steady
<1> DEFINE d == q.t - o.t
           x == t - o.t
<1>2. o.t \in Nat /\ q.t \in Nat /\ o.a \in Nat /\ o.b \in Nat /\ q.t \in o.t .. q.t
      /\ d \in Nat \ {0} /\ x \in Nat
  BY DEF Observation
<1>3. /\ q.a = o.a + pa * d /\ q.b = o.b + pb * d
      /\ truth[t].a = o.a + pa * x /\ truth[t].b = o.b + pb * x
  BY <1>1, <1>2
<1>4. Between(o, q, t) = [t |-> t, a |-> o.a + ((q.a - o.a) * x) \div d,
                                   b |-> o.b + ((q.b - o.b) * x) \div d]
  BY DEF Between
<1> HIDE DEF d, x
<1>5. pa * d \in Nat /\ pb * d \in Nat
  BY <1>2
<1>6. q.a - o.a = pa * d /\ q.b - o.b = pb * d
  BY <1>2, <1>3, <1>5
<1>7. ((pa * d) * x) \div d = pa * x /\ ((pb * d) * x) \div d = pb * x
  BY <1>2, OnTheLine
<1> QED
  BY <1>3, <1>4, <1>6, <1>7

\* As long as no wrapped ring is grown and every price fits, each answer of Observe
\* is the exact integral of the prices the seconds closed at: an interpolated one
\* too, whichever of its neighbours' neighbours have been overwritten.
THEOREM ObserveAlwaysExact ==
  ASSUME ~GrowsWrapped
  PROVE  HSpec => []ObserveExact
<1>1. ASSUME OrderInv, TruthInv, truth[now].fits, NEW t \in 0 .. now, Observe(t) # NoAnswer
      PROVE  Observe(t).a = truth[t].a /\ Observe(t).b = truth[t].b
  <2>1. Seeded
    BY <1>1 DEF Observe
  <2>2. RingInv /\ TruthShape /\ StoredTrue /\ SteadyBetween /\ SinceLatest /\ ~Empty(reserves)
    BY <1>1, <2>1 DEF OrderInv, TruthInv, TruthShape, Faithful
  <2>3. /\ Latest \in Observation /\ Latest.t \in 0 .. now /\ oracle.index \in DOMAIN observations
        /\ now \in Nat
    BY <2>1, <2>2, TimesKnown
  <2>4. CASE t >= Latest.t
    <3>1. Observe(t) = Extrapolated(t)
      BY <2>1, <2>4 DEF Observe
    <3>2. CASE t = Latest.t
      <4>1. Extrapolated(t) = [Latest EXCEPT !.t = t]
        BY <3>2 DEF Extrapolated
      <4>2. Extrapolated(t).a = Latest.a /\ Extrapolated(t).b = Latest.b
        BY <2>3, <4>1 DEF Observation
      <4>3. Latest.a = truth[Latest.t].a /\ Latest.b = truth[Latest.t].b
        BY <2>2, <2>3 DEF StoredTrue, Latest
      <4> QED
        BY <3>1, <3>2, <4>2, <4>3
    <3>3. CASE t # Latest.t
      <4>1. Latest.t < now /\ t \in Latest.t .. now
        BY <1>1, <2>3, <2>4, <3>3
      <4>2. Extrapolated(t) = Accrued(Latest, reserves, t)
        BY <2>2, <3>3, <4>1 DEF Extrapolated, SinceLatest
      <4> QED
        BY <2>2, <3>1, <4>1, <4>2 DEF Accrued, SinceLatest
    <3> QED
      BY <3>2, <3>3
  <2>5. CASE t < Latest.t
    <3>1. t \in Nat /\ t # now /\ ~(t >= Latest.t)
      BY <1>1, <2>3, <2>5
    <3>2. ~(t < observations[OldestSlot].t)
          /\ Observe(t) = IF Before(t).t = t THEN Before(t) ELSE Between(Before(t), After(t), t)
      BY <1>1, <2>1, <3>1 DEF Observe
    <3>3. OldestSlot \in DOMAIN observations
      <4>1. 0 \in 0 .. oracle.initialized - 1
        BY <2>1, <2>2, ShapeTypes DEF RingInv
      <4> QED
        BY <1>1, <2>1, <4>1, SlotsInOrder
    <3>4. observations[OldestSlot].t \in 0 .. now
      BY <2>2, <3>3, TimesKnown
    <3>5. observations[OldestSlot].t <= t
      BY <3>1, <3>2, <3>4
    <3>6. PICK i \in DOMAIN observations, j \in DOMAIN observations :
            /\ Before(t) = observations[i] /\ After(t) = observations[j]
            /\ observations[i].t <= t /\ t < observations[j].t
            /\ \A h \in DOMAIN observations :
                 observations[h].t <= observations[i].t \/ observations[h].t >= observations[j].t
      BY <1>1, <2>1, <2>5, <3>1, <3>5, SearchedBrackets
    <3>7. /\ observations[i] \in Observation /\ observations[i].t \in Nat
          /\ observations[j] \in Observation /\ observations[j].t \in Nat
      BY <2>2, TimesKnown
    <3>8. /\ observations[i].a = truth[observations[i].t].a /\ observations[i].b = truth[observations[i].t].b
          /\ observations[j].a = truth[observations[j].t].a /\ observations[j].b = truth[observations[j].t].b
      BY <2>2 DEF StoredTrue
    <3>9. CASE observations[i].t = t
      BY <3>2, <3>6, <3>8, <3>9
    <3>10. CASE observations[i].t # t
      <4>1. observations[i].t < observations[j].t /\ t \in observations[i].t .. observations[j].t
        BY <3>1, <3>6, <3>7
      <4>2. Steady(observations[i].t, observations[j].t)
        BY <2>2, <3>6, <4>1 DEF SteadyBetween, NextTo
      <4>3. Observe(t) = Between(observations[i], observations[j], t)
        BY <3>2, <3>6, <3>10
      <4> QED
        BY <1>1, <3>7, <3>8, <4>1, <4>2, <4>3, BetweenExact
    <3> QED
      BY <3>9, <3>10
  <2> QED
    BY <1>1, <2>3, <2>4, <2>5
<1>2. OrderInv /\ TruthInv => ObserveExact
  BY <1>1 DEF ObserveExact
<1>3. OrderInv /\ RingInv' /\ TruthInv /\ [HNext]_hvars => TruthInv'
  BY NextKeepsTruth
<1>4. HSpec => []OrderInv
  BY OrderInvariance
<1> QED
  BY <1>2, <1>3, <1>4, InitTruth, RingInvariance, PTL DEF HSpec
=============================================================================
