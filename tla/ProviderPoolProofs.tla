------------------------- MODULE ProviderPoolProofs -------------------------
(***************************************************************************)
(* Any number of callers, any policy: the permits are counted, the probe   *)
(* is alone, nothing but its success closes the circuit and no attempt is  *)
(* counted twice.                                                          *)
(***************************************************************************)
EXTENDS ProviderPool, FiniteSetTheorems, TLAPS

\* The bucket after a refill (tokens never go below zero or above the burst).
LEMMA RefilledFits ==
  ASSUME tokens \in 0 .. Burst, refilledAt \in Nat, NEW t \in Nat
  PROVE  Refilled(t) \in 0 .. Burst
<1>. DEFINE earned == Greater(t - refilledAt, 0)
<1>1. earned \in Nat /\ Rate \in Nat /\ Burst \in Nat
  BY PolicyAssumption DEF Greater
<1>. HIDE DEF earned
<1>2. earned * Rate \in Nat
  BY <1>1
<1>3. Lesser(Burst, tokens + earned * Rate) \in 0 .. Burst
  BY <1>1, <1>2 DEF Lesser
<1>. QED
  BY <1>3 DEF Refilled, earned

\* Backoff, jitter and Retry-After make a delay, whatever the streak.
LEMMA DelayIsNat ==
  ASSUME NEW n \in Nat \ {0}, NEW retry \in RetryAfters, NEW delay \in Delays(n, retry)
  PROVE  delay \in Nat
<1>1. Lesser(n, 13) \in 1 .. 13
  BY DEF Lesser
<1>2. \A k \in 1 .. 13 : Shifted[k] \in Nat
  BY DEF Shifted
<1>3. Backoff(n) \in Nat
  <2>. DEFINE scale == Shifted[Lesser(n, 13)]
  <2>1. scale \in Nat /\ Base \in Nat /\ Cap \in Nat
    BY <1>1, <1>2, PolicyAssumption
  <2>. HIDE DEF scale
  <2>2. Base * scale \in Nat
    BY <2>1
  <2>3. Lesser(Cap, Base * scale) \in Nat
    BY <2>1, <2>2 DEF Lesser
  <2>. QED
    BY <2>3 DEF Backoff, scale
<1>4. \A j \in 0 .. Backoff(n) \div 4 : Lesser(Cap, Greater(Backoff(n) + j, retry)) \in Nat
  BY <1>3, PolicyAssumption DEF Lesser, Greater
<1>. QED
  BY <1>4 DEF Delays

-----------------------------------------------------------------------------
\* A permit that was granted while the circuit was closed is fresh only as long
\* as the circuit still is; one that knows of a failure is never neutral.
Generations ==
  \A c \in Callers :
    /\ Holds(c) => call[c].gen <= failures
    /\ Holds(c) /\ ~call[c].probe /\ call[c].gen = failures => openUntil = Closed
    /\ call[c].phase \in {"negative", "failing"} => ~call[c].neutral

\* The instant a caller read before it took the mutex has passed.
Past == \A c \in Callers : call[c].at <= now

IInv ==
  /\ TypeOK /\ PermitsCounted /\ OneProbe
  /\ StreakMeansOpen /\ CountedOnce /\ Generations /\ Past

\* The permits are out with the same callers, for the same reasons.
SameHolders ==
  \A d \in Callers :
    /\ Holds(d)' <=> Holds(d)
    /\ call'[d].probe = call[d].probe \/ ~Holds(d)
    /\ call'[d].gen = call[d].gen \/ ~Holds(d)

LEMMA HoldersFinite ==
  /\ IsFiniteSet(Holders) /\ Cardinality(Holders) \in Nat
  /\ IsFiniteSet(Unsettled) /\ Cardinality(Unsettled) \in Nat
<1>1. Holders \subseteq Callers /\ Unsettled \subseteq Callers
  BY DEF Holders, Unsettled
<1>. QED
  BY <1>1, PolicyAssumption, FS_Subset, FS_CardinalityType

\* What no permit changes hands for leaves the count and the probe alone.
LEMMA HoldersKept ==
  ASSUME PermitsCounted, OneProbe, SameHolders,
         inFlight' = inFlight, halfOpen' = halfOpen
  PROVE  PermitsCounted' /\ OneProbe'
<1>1. Holders' = Holders
  BY DEF SameHolders, Holders
<1>2. \A d \in Callers :
        (Holds(d)' /\ call'[d].probe) <=> (Holds(d) /\ call[d].probe)
  BY DEF SameHolders
<1>3. PermitsCounted'
  BY <1>1 DEF PermitsCounted
<1>4. OneProbe'
  BY <1>2 DEF OneProbe
<1>. QED
  BY <1>3, <1>4

\* Nothing was counted, and no permit that was settled becomes unsettled.
LEMMA CountKept ==
  ASSUME CountedOnce, TypeOK, Unsettled' \subseteq Unsettled,
         UNCHANGED totals
  PROVE  CountedOnce'
<1>1. Cardinality(Unsettled') <= Cardinality(Unsettled) /\ Cardinality(Unsettled') \in Nat
  BY HoldersFinite, FS_Subset, FS_CardinalityType
<1>2. /\ attempts' = attempts /\ successes' = successes
      /\ failures' = failures /\ cancellations' = cancellations
  BY DEF totals
<1>3. successes \in Nat /\ failures \in Nat /\ cancellations \in Nat /\ attempts \in Nat
  BY DEF TypeOK
<1>. QED
  BY <1>1, <1>2, <1>3, HoldersFinite DEF CountedOnce

\* One of the totals went up, and with it one permit was settled.
LEMMA CountMoved ==
  ASSUME CountedOnce, TypeOK, NEW c \in Unsettled, Unsettled' \subseteq Unsettled \ {c},
         successes' + failures' + cancellations' = successes + failures + cancellations + 1,
         attempts' = attempts,
         successes' \in Nat, failures' \in Nat, cancellations' \in Nat
  PROVE  CountedOnce'
<1>1. /\ IsFiniteSet(Unsettled \ {c})
      /\ Cardinality(Unsettled \ {c}) = Cardinality(Unsettled) - 1
  BY HoldersFinite, FS_RemoveElement
<1>2. /\ Cardinality(Unsettled') <= Cardinality(Unsettled \ {c})
      /\ Cardinality(Unsettled') \in Nat
  BY <1>1, FS_Subset, FS_CardinalityType
<1>. DEFINE settled == successes + failures + cancellations
            settledNext == successes' + failures' + cancellations'
            before == Cardinality(Unsettled)
            after == Cardinality(Unsettled')
<1>3. settled \in Nat /\ settledNext = settled + 1 /\ attempts \in Nat /\ attempts' = attempts
  <2>1. successes \in Nat /\ failures \in Nat /\ cancellations \in Nat /\ attempts \in Nat
    BY DEF TypeOK
  <2>2. settledNext = settled + 1
    OBVIOUS
  <2>3. settled \in Nat
    BY <2>1
  <2>. QED
    BY <2>1, <2>2, <2>3
<1>4. before \in Nat /\ after \in Nat /\ after <= before - 1
  BY <1>1, <1>2, HoldersFinite
<1>5. settled + before <= attempts
  BY DEF CountedOnce
<1>6. settledNext + after <= attempts'
  <2>. HIDE DEF settled, settledNext, before, after
  <2>. QED
    BY <1>3, <1>4, <1>5
<1>. QED
  BY <1>6 DEF CountedOnce

LEMMA InitIInv == Init => IInv
<1>. SUFFICES ASSUME Init PROVE IInv
  OBVIOUS
<1>1. Holders = {} /\ Unsettled = {}
  BY DEF Init, Holders, Holds, Unsettled, Idle
<1>2. Cardinality(Holders) = 0 /\ Cardinality(Unsettled) = 0
  BY <1>1, FS_EmptySet
<1>3. TypeOK
  <2>1. Idle \in Call
    BY PolicyAssumption DEF Idle, Call, Phases
  <2>2. call \in [Callers -> Call]
    BY <2>1 DEF Init
  <2>3. tokens \in 0 .. Burst /\ now \in 0 .. MaxTime /\ refilledAt \in 0 .. now
    BY PolicyAssumption DEF Init
  <2>. QED
    BY <2>2, <2>3 DEF Init, TypeOK, Closed
<1>4. PermitsCounted /\ CountedOnce
  BY <1>2, PolicyAssumption DEF Init, PermitsCounted, CountedOnce
<1>5. OneProbe /\ StreakMeansOpen /\ Generations /\ Past
  BY DEF Init, OneProbe, StreakMeansOpen, Generations, Past, Idle, Holds
<1>. QED
  BY <1>3, <1>4, <1>5 DEF IInv

\* The caller's record, where it is not the one that moved.
LEMMA OnlyOneMoved ==
  ASSUME TypeOK, NEW c \in Callers, NEW r, call' = [call EXCEPT ![c] = r]
  PROVE  call'[c] = r /\ \A d \in Callers : d # c => call'[d] = call[d]
BY DEF TypeOK

\* Clock read, denials: the caller holds no permit before or after.
LEMMA OutsideStep ==
  ASSUME IInv, NEW c \in Callers, ~Holds(c),
         NEW r \in Call, r.at <= now, r.phase \in {"idle", "asking"},
         call' = [call EXCEPT ![c] = r],
         tokens' \in 0 .. Burst, refilledAt' \in 0 .. now,
         UNCHANGED <<circuit, inFlight, totals, now>>
  PROVE  IInv'
<1>1. call'[c] = r /\ \A d \in Callers : d # c => call'[d] = call[d]
  BY OnlyOneMoved DEF IInv
<1>2. TypeOK'
  BY DEF IInv, TypeOK, circuit, totals
<1>3. SameHolders
  BY <1>1 DEF SameHolders, Holds
<1>4. PermitsCounted' /\ OneProbe'
  BY <1>3, HoldersKept DEF IInv, circuit
<1>5. StreakMeansOpen'
  BY DEF IInv, StreakMeansOpen, circuit
<1>6. Unsettled' \subseteq Unsettled
  BY <1>1 DEF Unsettled
<1>7. CountedOnce'
  BY <1>6, CountKept DEF IInv
<1>8. Generations'
  BY <1>1, <1>3 DEF IInv, Generations, SameHolders, circuit, totals
<1>9. Past'
  BY <1>1 DEF IInv, Past
<1>. QED
  BY <1>2, <1>4, <1>5, <1>7, <1>8, <1>9 DEF IInv

\* Steps of a permit's holder between two critical sections.
LEMMA InsideStep ==
  ASSUME IInv, NEW c \in Callers, Holds(c),
         NEW r \in Call, r.at <= now, r.phase \in {"held", "negative", "failing", "releasing"},
         r.probe = call[c].probe, r.gen = call[c].gen,
         r.phase \in {"negative", "failing"} => ~r.neutral,
         call[c].phase # "releasing",
         call' = [call EXCEPT ![c] = r],
         UNCHANGED <<bucket, circuit, inFlight, totals, now>>
  PROVE  IInv'
<1>1. call'[c] = r /\ \A d \in Callers : d # c => call'[d] = call[d]
  BY OnlyOneMoved DEF IInv
<1>2. TypeOK'
  BY DEF IInv, TypeOK, bucket, circuit, totals
<1>3. SameHolders
  BY <1>1 DEF SameHolders, Holds
<1>4. PermitsCounted' /\ OneProbe'
  BY <1>3, HoldersKept DEF IInv, circuit
<1>5. StreakMeansOpen'
  BY DEF IInv, StreakMeansOpen, circuit
<1>6. Unsettled' \subseteq Unsettled
  BY <1>1 DEF Unsettled, Holds
<1>7. CountedOnce'
  BY <1>6, CountKept DEF IInv
<1>8. Generations'
  BY <1>1, <1>3 DEF IInv, Generations, SameHolders, circuit, totals
<1>9. Past'
  BY <1>1 DEF IInv, Past
<1>. QED
  BY <1>2, <1>4, <1>5, <1>7, <1>8, <1>9 DEF IInv

LEMMA AdmitStep ==
  ASSUME IInv, NEW c \in Callers, NEW scheduled \in BOOLEAN, Admit(c, scheduled)
  PROVE  IInv'
<1>. DEFINE r == [Idle EXCEPT !.phase = "held", !.probe = openUntil # Closed,
                              !.neutral = scheduled /\ ~(openUntil # Closed),
                              !.gen = failures]
<1>1. /\ call' = [call EXCEPT ![c] = r] /\ call[c].phase = "asking"
      /\ Admissible(call[c].at) /\ Refilled(call[c].at) >= 2
      /\ tokens' = Refilled(call[c].at) - 2 /\ refilledAt' = call[c].at
      /\ halfOpen' = (openUntil # Closed)
      /\ inFlight' = inFlight + 1 /\ attempts' = attempts + 1
      /\ UNCHANGED <<openUntil, consecutive, successes, failures, cancellations, now>>
  BY DEF Admit
<1>2. /\ r.phase = "held" /\ r.gen = failures /\ r.completed = FALSE
      /\ r.probe = (openUntil # Closed)
      /\ r.at = 0
  BY DEF Idle
<1>3. r \in Call
  BY PolicyAssumption DEF IInv, TypeOK, Idle, Call, Phases
<1>. HIDE DEF r
<1>4. call'[c] = r /\ \A d \in Callers : d # c => call'[d] = call[d]
  BY <1>1, OnlyOneMoved DEF IInv
<1>5. TypeOK'
  <2>1. call[c].at \in Nat
    BY DEF IInv, TypeOK, Call
  <2>2. Refilled(call[c].at) \in 0 .. Burst
    BY <2>1, RefilledFits DEF IInv, TypeOK
  <2>3. tokens' \in 0 .. Burst
    BY <1>1, <2>2, PolicyAssumption
  <2>4. refilledAt' \in 0 .. now'
    BY <1>1, <2>1 DEF IInv, Past, TypeOK
  <2>. QED
    BY <1>1, <1>3, <2>3, <2>4 DEF IInv, TypeOK
<1>6. Holders' = Holders \cup {c} /\ c \notin Holders
  BY <1>1, <1>2, <1>4 DEF Holders, Holds
<1>7. PermitsCounted'
  <2>1. Cardinality(Holders') = Cardinality(Holders) + 1
    BY <1>6, HoldersFinite, FS_AddElement
  <2>. QED
    BY <1>1, <2>1, HoldersFinite, PolicyAssumption DEF IInv, PermitsCounted, Admissible
<1>8. OneProbe'
  <2>1. \A d \in Callers : ~(Holds(d) /\ call[d].probe)
    BY <1>1 DEF IInv, OneProbe, Admissible
  <2>2. \A d \in Callers : Holds(d)' /\ call'[d].probe => d = c
    BY <2>1, <1>4 DEF Holds
  <2>3. Holds(c)' /\ (call'[c].probe <=> halfOpen')
    BY <1>1, <1>2, <1>4 DEF Holds
  <2>. QED
    BY <2>2, <2>3 DEF OneProbe
<1>9. StreakMeansOpen'
  BY <1>1 DEF IInv, StreakMeansOpen
<1>10. CountedOnce'
  <2>1. Unsettled' \subseteq Unsettled \cup {c}
    BY <1>4 DEF Unsettled
  <2>2. /\ IsFiniteSet(Unsettled \cup {c})
        /\ Cardinality(Unsettled \cup {c}) <= Cardinality(Unsettled) + 1
    <3>1. IsFiniteSet(Unsettled) /\ Cardinality(Unsettled) \in Nat
      BY HoldersFinite
    <3>2. /\ IsFiniteSet(Unsettled \cup {c})
          /\ Cardinality(Unsettled \cup {c}) =
               IF c \in Unsettled THEN Cardinality(Unsettled) ELSE Cardinality(Unsettled) + 1
      BY <3>1, FS_AddElement
    <3>. QED
      BY <3>1, <3>2
  <2>3. Cardinality(Unsettled') <= Cardinality(Unsettled) + 1 /\ Cardinality(Unsettled') \in Nat
    BY <2>1, <2>2, HoldersFinite, FS_Subset, FS_CardinalityType
  <2>. QED
    BY <1>1, <2>3, HoldersFinite DEF IInv, CountedOnce, TypeOK
<1>11. Generations'
  <2>1. ASSUME NEW d \in Callers, d # c
        PROVE  /\ Holds(d)' => call'[d].gen <= failures'
               /\ Holds(d)' /\ ~call'[d].probe /\ call'[d].gen = failures' => openUntil' = Closed
               /\ call'[d].phase \in {"negative", "failing"} => ~call'[d].neutral
    BY <1>1, <1>4, <2>1 DEF IInv, Generations, Holds
  <2>2. /\ call'[c].gen <= failures'
        /\ ~call'[c].probe => openUntil' = Closed
        /\ call'[c].phase = "held"
    <3>1. failures \in Nat /\ failures' = failures /\ openUntil' = openUntil
      BY <1>1 DEF IInv, TypeOK
    <3>2. call'[c].gen = failures /\ call'[c].phase = "held"
      BY <1>2, <1>4
    <3>3. call'[c].probe = (openUntil # Closed)
      BY <1>2, <1>4
    <3>4. ~call'[c].probe => openUntil = Closed
      BY <3>3
    <3>. QED
      BY <3>1, <3>2, <3>4
  <2>. QED
    BY <2>1, <2>2 DEF Generations
<1>12. Past'
  BY <1>1, <1>2, <1>4 DEF IInv, TypeOK, Past
<1>. QED
  BY <1>5, <1>7, <1>8, <1>9, <1>10, <1>11, <1>12 DEF IInv

LEMMA SucceedStep ==
  ASSUME IInv, NEW c \in Callers, Succeed(c)
  PROVE  IInv'
<1>. DEFINE r == [call[c] EXCEPT !.phase = "releasing", !.completed = TRUE]
<1>1. /\ call' = [call EXCEPT ![c] = r] /\ call[c].phase = "held" /\ call[c] \in Call
      /\ successes' = successes + 1
      /\ \/ Fresh(c) /\ consecutive' = 0 /\ openUntil' = Closed
         \/ consecutive' = consecutive /\ openUntil' = openUntil
      /\ UNCHANGED <<bucket, halfOpen, inFlight, attempts, failures, cancellations, now>>
  BY DEF Succeed, IInv, TypeOK
<1>2. /\ r.phase = "releasing" /\ r.completed = TRUE /\ r.at = call[c].at
      /\ r.probe = call[c].probe /\ r.gen = call[c].gen /\ r \in Call
  BY <1>1 DEF Call, Phases
<1>. HIDE DEF r
<1>3. call'[c] = r /\ \A d \in Callers : d # c => call'[d] = call[d]
  BY <1>1, OnlyOneMoved DEF IInv
<1>4. TypeOK'
  BY <1>1, <1>2 DEF IInv, TypeOK, bucket, Closed
<1>5. SameHolders
  BY <1>1, <1>2, <1>3 DEF SameHolders, Holds
<1>6. PermitsCounted' /\ OneProbe'
  BY <1>1, <1>5, HoldersKept DEF IInv
<1>7. StreakMeansOpen'
  BY <1>1 DEF IInv, StreakMeansOpen
<1>8. CountedOnce'
  <2>1. c \in Unsettled /\ Unsettled' \subseteq Unsettled \ {c}
    BY <1>1, <1>2, <1>3 DEF Unsettled
  <2>. QED
    BY <1>1, <1>4, <2>1, CountMoved DEF IInv, TypeOK
<1>9. Generations'
  BY <1>1, <1>2, <1>3, <1>5 DEF IInv, Generations, SameHolders
<1>10. Past'
  BY <1>1, <1>2, <1>3 DEF IInv, Past
<1>. QED
  BY <1>4, <1>6, <1>7, <1>8, <1>9, <1>10 DEF IInv

LEMMA FailStep ==
  ASSUME IInv, NEW c \in Callers, Fail(c)
  PROVE  IInv'
<1>. DEFINE r == [call[c] EXCEPT !.phase = "releasing", !.at = 0, !.retry = 0]
<1>1. PICK delay \in Delays(consecutive + 1, call[c].retry) :
        openUntil' = OpenFor(call[c].at, delay)
  BY DEF Fail
<1>2. /\ call' = [call EXCEPT ![c] = r] /\ call[c].phase = "failing" /\ call[c] \in Call
      /\ failures' = failures + 1 /\ consecutive' = consecutive + 1
      /\ UNCHANGED <<bucket, halfOpen, inFlight, attempts, successes, cancellations, now>>
  BY DEF Fail, IInv, TypeOK
<1>3. /\ r.phase = "releasing" /\ r.at = 0 /\ r.neutral = call[c].neutral
      /\ r.probe = call[c].probe /\ r.gen = call[c].gen /\ r \in Call
  BY <1>2, PolicyAssumption DEF Call, Phases
<1>. HIDE DEF r
<1>4. call'[c] = r /\ \A d \in Callers : d # c => call'[d] = call[d]
  BY <1>2, OnlyOneMoved DEF IInv
<1>5. openUntil' \in Nat
  <2>1. delay \in Nat /\ call[c].at \in Nat
    BY <1>1, <1>2, DelayIsNat DEF IInv, TypeOK, Call
  <2>2. openUntil \in Int /\ (openUntil \in Nat \/ openUntil = -1)
    BY DEF IInv, TypeOK, Closed
  <2>. QED
    BY <1>1, <2>1, <2>2 DEF OpenFor, Greater
<1>6. TypeOK'
  BY <1>2, <1>3, <1>5 DEF IInv, TypeOK, bucket
<1>7. SameHolders
  BY <1>2, <1>3, <1>4 DEF SameHolders, Holds
<1>8. PermitsCounted' /\ OneProbe'
  BY <1>2, <1>7, HoldersKept DEF IInv
<1>9. StreakMeansOpen'
  BY <1>2, <1>5 DEF IInv, TypeOK, StreakMeansOpen, Closed
<1>10. CountedOnce'
  <2>1. ~call[c].neutral
    BY <1>2 DEF IInv, Generations
  <2>2. c \in Unsettled /\ Unsettled' \subseteq Unsettled \ {c}
    BY <1>2, <1>3, <1>4, <2>1 DEF Unsettled
  <2>. QED
    BY <1>2, <1>6, <2>2, CountMoved DEF IInv, TypeOK
<1>11. Generations'
  <2>1. \A d \in Callers : Holds(d)' => call'[d].gen < failures' /\ call'[d].gen \in Nat
    BY <1>2, <1>7 DEF IInv, Generations, SameHolders, TypeOK, Call
  <2>2. \A d \in Callers :
          call'[d].phase \in {"negative", "failing"} => ~call'[d].neutral
    BY <1>3, <1>4 DEF IInv, Generations
  <2>. QED
    BY <1>2, <2>1, <2>2 DEF Generations, IInv, TypeOK
<1>12. Past'
  BY <1>2, <1>3, <1>4 DEF IInv, Past, TypeOK
<1>. QED
  BY <1>6, <1>8, <1>9, <1>10, <1>11, <1>12 DEF IInv

LEMMA ReleaseStep ==
  ASSUME IInv, NEW c \in Callers, Release(c)
  PROVE  IInv'
<1>1. /\ call' = [call EXCEPT ![c] = Idle] /\ call[c].phase = "releasing"
      /\ inFlight' = inFlight - 1 /\ halfOpen' = StillHalfOpen(c)
      /\ UNCHANGED <<bucket, openUntil, consecutive, attempts, successes, failures, now>>
  BY DEF Release
<1>2. Idle \in Call /\ Idle.phase = "idle" /\ Idle.at = 0
  BY PolicyAssumption DEF Idle, Call, Phases
<1>3. call'[c] = Idle /\ \A d \in Callers : d # c => call'[d] = call[d]
  BY <1>1, OnlyOneMoved DEF IInv
<1>4. Holders' = Holders \ {c} /\ c \in Holders
  BY <1>1, <1>2, <1>3 DEF Holders, Holds
<1>5. inFlight' = Cardinality(Holders') /\ inFlight' \in Nat /\ inFlight' < inFlight
  <2>1. /\ Cardinality(Holders') = Cardinality(Holders) - 1
        /\ IsFiniteSet(Holders')
    BY <1>4, HoldersFinite, FS_RemoveElement
  <2>2. Cardinality(Holders') \in Nat
    BY <2>1, FS_CardinalityType
  <2>. QED
    BY <1>1, <2>1, <2>2 DEF IInv, PermitsCounted, TypeOK
<1>6. TypeOK'
  <2>1. cancellations' \in Nat
    BY DEF Release, IInv, TypeOK
  <2>. QED
    BY <1>1, <1>2, <1>5, <2>1 DEF IInv, TypeOK, bucket, StillHalfOpen
<1>7. PermitsCounted'
  BY <1>5, PolicyAssumption DEF IInv, PermitsCounted, TypeOK
<1>8. OneProbe'
  BY <1>1, <1>2, <1>3 DEF IInv, OneProbe, StillHalfOpen, Holds
<1>9. StreakMeansOpen'
  BY <1>1 DEF IInv, StreakMeansOpen
<1>10. CountedOnce'
  <2>1. Unsettled' \subseteq Unsettled \ {c}
    BY <1>2, <1>3 DEF Unsettled
  <2>2. CASE call[c].neutral /\ ~call[c].completed
    <3>1. c \in Unsettled
      BY <1>1, <2>2 DEF Unsettled
    <3>2. cancellations' = cancellations + 1
      BY <2>2 DEF Release
    <3>. QED
      BY <1>1, <1>6, <2>1, <3>1, <3>2, CountMoved DEF IInv, TypeOK
  <2>3. CASE ~(call[c].neutral /\ ~call[c].completed)
    <3>1. cancellations' = cancellations
      BY <2>3 DEF Release
    <3>. QED
      BY <1>1, <2>1, <3>1, CountKept DEF IInv, totals
  <2>. QED
    BY <2>2, <2>3
<1>11. Generations'
  BY <1>1, <1>2, <1>3 DEF IInv, Generations, Holds
<1>12. Past'
  BY <1>1, <1>2, <1>3 DEF IInv, Past, TypeOK
<1>. QED
  BY <1>6, <1>7, <1>8, <1>9, <1>10, <1>11, <1>12 DEF IInv

LEMMA AdmissionStep ==
  ASSUME IInv, NEW c \in Callers, Ask(c) \/ Denied(c) \/ RateDenied(c)
  PROVE  IInv'
<1>1. /\ Idle \in Call /\ Idle.phase = "idle" /\ Idle.at = 0
      /\ now \in Nat /\ tokens \in 0 .. Burst /\ refilledAt \in 0 .. now
  BY PolicyAssumption DEF Idle, Call, Phases, IInv, TypeOK
<1>2. call[c].at \in 0 .. now
  BY DEF IInv, TypeOK, Call, Past
<1>3. CASE Ask(c)
  <2>. DEFINE r == [Idle EXCEPT !.phase = "asking", !.at = now]
  <2>1. r \in Call /\ r.phase = "asking" /\ r.at = now
    BY <1>1 DEF Idle, Call, Phases
  <2>2. call' = [call EXCEPT ![c] = r] /\ ~Holds(c)
    BY <1>3 DEF Ask, Holds
  <2>. HIDE DEF r
  <2>3. /\ tokens' = tokens /\ refilledAt' = refilledAt
        /\ UNCHANGED <<circuit, inFlight, totals, now>>
    BY <1>3 DEF Ask, bucket
  <2>4. /\ tokens' \in 0 .. Burst /\ refilledAt' \in 0 .. now
        /\ r.at <= now /\ r.phase \in {"idle", "asking"}
    BY <1>1, <2>1, <2>3
  <2>. QED
    BY <2>1, <2>2, <2>3, <2>4, OutsideStep
<1>4. CASE Denied(c)
  <2>1. call' = [call EXCEPT ![c] = Idle] /\ ~Holds(c)
    BY <1>4 DEF Denied, Holds
  <2>2. /\ tokens' = tokens /\ refilledAt' = refilledAt
        /\ UNCHANGED <<circuit, inFlight, totals, now>>
    BY <1>4 DEF Denied, bucket
  <2>3. /\ tokens' \in 0 .. Burst /\ refilledAt' \in 0 .. now
        /\ Idle.at <= now /\ Idle.phase \in {"idle", "asking"}
    BY <1>1, <2>2
  <2>. QED
    BY <1>1, <2>1, <2>2, <2>3, OutsideStep
<1>5. CASE RateDenied(c)
  <2>1. call' = [call EXCEPT ![c] = Idle] /\ ~Holds(c)
    BY <1>5 DEF RateDenied, Holds
  <2>2. tokens' \in 0 .. Burst /\ refilledAt' \in 0 .. now
    BY <1>1, <1>2, <1>5, RefilledFits DEF RateDenied
  <2>3. UNCHANGED <<circuit, inFlight, totals, now>>
    BY <1>5 DEF RateDenied
  <2>4. Idle.at <= now /\ Idle.phase \in {"idle", "asking"}
    BY <1>1
  <2>. QED
    BY <1>1, <2>1, <2>2, <2>3, <2>4, OutsideStep
<1>. QED
  BY <1>3, <1>4, <1>5

LEMMA WaitStep ==
  ASSUME IInv, NEW c \in Callers, NEW retry \in RetryAfters,
         Refused(c) \/ Negative(c) \/ Record(c, retry) \/ Finish(c) \/ Abandon(c)
  PROVE  IInv'
<1>1. call[c] \in Call /\ now \in Nat /\ call[c].at <= now
  BY DEF IInv, TypeOK, Past
<1>2. call[c].phase \in {"negative", "failing"} => ~call[c].neutral
  BY DEF IInv, Generations
<1>3. CASE Refused(c)
  <2>. DEFINE r == [call[c] EXCEPT !.neutral = FALSE]
  <2>1. /\ r \in Call /\ r.phase = "held" /\ r.at = call[c].at
        /\ r.probe = call[c].probe /\ r.gen = call[c].gen
    BY <1>1, <1>3 DEF Call, Refused
  <2>2. call' = [call EXCEPT ![c] = r] /\ Holds(c) /\ call[c].phase # "releasing"
    BY <1>3 DEF Refused, Holds
  <2>. HIDE DEF r
  <2>. QED
    BY <1>1, <1>3, <2>1, <2>2, InsideStep DEF Refused
<1>4. CASE Negative(c)
  <2>. DEFINE r == [call[c] EXCEPT !.phase = "negative", !.neutral = FALSE]
  <2>1. /\ r \in Call /\ r.phase = "negative" /\ r.at = call[c].at /\ ~r.neutral
        /\ r.probe = call[c].probe /\ r.gen = call[c].gen
    BY <1>1 DEF Call, Phases
  <2>2. call' = [call EXCEPT ![c] = r] /\ Holds(c) /\ call[c].phase # "releasing"
    BY <1>4 DEF Negative, Holds
  <2>. HIDE DEF r
  <2>. QED
    BY <1>1, <1>4, <2>1, <2>2, InsideStep DEF Negative
<1>5. CASE Record(c, retry)
  <2>. DEFINE r == [call[c] EXCEPT !.phase = "failing", !.at = now, !.retry = retry]
  <2>1. /\ r \in Call /\ r.phase = "failing" /\ r.at = now /\ r.neutral = call[c].neutral
        /\ r.probe = call[c].probe /\ r.gen = call[c].gen
    BY <1>1 DEF Call, Phases
  <2>2. call' = [call EXCEPT ![c] = r] /\ Holds(c) /\ call[c].phase = "negative"
    BY <1>5 DEF Record, Holds
  <2>. HIDE DEF r
  <2>3. UNCHANGED <<bucket, circuit, inFlight, totals, now>>
    BY <1>5 DEF Record
  <2>4. /\ r.phase \in {"held", "negative", "failing", "releasing"} /\ r.at <= now
        /\ r.phase \in {"negative", "failing"} => ~r.neutral
        /\ call[c].phase # "releasing"
    BY <1>1, <1>2, <1>5, <2>1, <2>2
  <2>. QED
    BY <2>1, <2>2, <2>3, <2>4, InsideStep
<1>6. CASE Finish(c)
  <2>. DEFINE r == [call[c] EXCEPT !.phase = "releasing", !.completed = TRUE]
  <2>1. /\ r \in Call /\ r.phase = "releasing" /\ r.at = call[c].at
        /\ r.probe = call[c].probe /\ r.gen = call[c].gen
    BY <1>1 DEF Call, Phases
  <2>2. call' = [call EXCEPT ![c] = r] /\ Holds(c) /\ call[c].phase # "releasing"
    BY <1>6 DEF Finish, Holds
  <2>. HIDE DEF r
  <2>. QED
    BY <1>1, <1>6, <2>1, <2>2, InsideStep DEF Finish
<1>7. CASE Abandon(c) /\ call[c].neutral
  <2>. DEFINE r == [call[c] EXCEPT !.phase = "releasing"]
  <2>1. /\ r \in Call /\ r.phase = "releasing" /\ r.at = call[c].at
        /\ r.probe = call[c].probe /\ r.gen = call[c].gen
    BY <1>1 DEF Call, Phases
  <2>2. call' = [call EXCEPT ![c] = r] /\ Holds(c) /\ call[c].phase # "releasing"
    BY <1>7 DEF Abandon, Holds
  <2>. HIDE DEF r
  <2>. QED
    BY <1>1, <1>7, <2>1, <2>2, InsideStep DEF Abandon
<1>8. CASE Abandon(c) /\ ~call[c].neutral
  <2>. DEFINE r == [call[c] EXCEPT !.phase = "failing", !.at = now]
  <2>1. /\ r \in Call /\ r.phase = "failing" /\ r.at = now /\ r.neutral = call[c].neutral
        /\ r.probe = call[c].probe /\ r.gen = call[c].gen
    BY <1>1 DEF Call, Phases
  <2>2. call' = [call EXCEPT ![c] = r] /\ Holds(c) /\ call[c].phase # "releasing"
    BY <1>8 DEF Abandon, Holds
  <2>. HIDE DEF r
  <2>3. UNCHANGED <<bucket, circuit, inFlight, totals, now>>
    BY <1>8 DEF Abandon
  <2>4. /\ r.phase \in {"held", "negative", "failing", "releasing"} /\ r.at <= now
        /\ r.phase \in {"negative", "failing"} => ~r.neutral
        /\ call[c].phase # "releasing"
    BY <1>1, <1>2, <1>8, <2>1, <2>2
  <2>. QED
    BY <2>1, <2>2, <2>3, <2>4, InsideStep
<1>. QED
  BY <1>3, <1>4, <1>5, <1>6, <1>7, <1>8

LEMMA TickStep ==
  ASSUME IInv, Tick
  PROVE  IInv'
<1>1. call' = call /\ now' = now + 1 /\ UNCHANGED <<bucket, circuit, inFlight, totals>>
  BY DEF Tick
<1>2. TypeOK'
  <2>1. now \in 0 .. MaxTime /\ now < MaxTime /\ MaxTime \in Nat /\ refilledAt \in 0 .. now
    BY PolicyAssumption DEF Tick, IInv, TypeOK
  <2>2. now' \in 0 .. MaxTime /\ refilledAt' \in 0 .. now'
    BY <1>1, <2>1 DEF bucket
  <2>3. UNCHANGED <<tokens, openUntil, halfOpen, consecutive, inFlight,
                    attempts, successes, failures, cancellations, call>>
    BY <1>1 DEF bucket, circuit, totals
  <2>. QED
    BY <2>2, <2>3 DEF IInv, TypeOK
<1>3. SameHolders
  BY <1>1 DEF SameHolders, Holds
<1>4. PermitsCounted' /\ OneProbe'
  BY <1>1, <1>3, HoldersKept DEF IInv, circuit
<1>5. Unsettled' \subseteq Unsettled
  BY <1>1 DEF Unsettled
<1>6. CountedOnce'
  BY <1>1, <1>5, CountKept DEF IInv
<1>7. StreakMeansOpen' /\ Generations'
  BY <1>1 DEF IInv, StreakMeansOpen, Generations, Holds, circuit, totals
<1>8. Past'
  BY <1>1 DEF IInv, Past, TypeOK, Call
<1>. QED
  BY <1>2, <1>4, <1>6, <1>7, <1>8 DEF IInv

LEMMA StutterStep ==
  ASSUME IInv, UNCHANGED vars
  PROVE  IInv'
<1>1. UNCHANGED <<tokens, refilledAt, openUntil, halfOpen, consecutive, inFlight,
                  attempts, successes, failures, cancellations, now, call>>
  BY DEF vars, bucket, circuit, totals
<1>2. Holders' = Holders /\ Unsettled' = Unsettled
  BY <1>1 DEF Holders, Holds, Unsettled
<1>3. TypeOK' /\ PermitsCounted' /\ CountedOnce'
  BY <1>1, <1>2 DEF IInv, TypeOK, PermitsCounted, CountedOnce
<1>4. OneProbe' /\ StreakMeansOpen' /\ Generations' /\ Past'
  BY <1>1 DEF IInv, OneProbe, StreakMeansOpen, Generations, Past, Holds
<1>. QED
  BY <1>3, <1>4 DEF IInv

LEMMA NextIInv == IInv /\ [Next]_vars => IInv'
<1>. SUFFICES ASSUME IInv, [Next]_vars PROVE IInv'
  OBVIOUS
<1>1. ASSUME NEW c \in Callers, Admission(c) PROVE IInv'
  BY <1>1, AdmissionStep, AdmitStep DEF Admission
<1>2. ASSUME NEW c \in Callers, Refused(c) \/ Attempt(c) PROVE IInv'
  BY <1>2, WaitStep, SucceedStep, FailStep, ReleaseStep, PolicyAssumption DEF Attempt
<1>3. CASE Tick
  BY <1>3, TickStep
<1>4. CASE UNCHANGED vars
  BY <1>4, StutterStep
<1>. QED
  BY <1>1, <1>2, <1>3, <1>4 DEF Next

\* The inductive invariant of every behaviour.
THEOREM AlwaysIInv == Spec => []IInv
<1>. QED
  BY InitIInv, NextIInv, PTL DEF Spec

\* Types, for any policy the configuration can give.
THEOREM AlwaysTypeOK == Spec => []TypeOK
<1>1. IInv => TypeOK
  BY DEF IInv
<1>. QED
  BY <1>1, AlwaysIInv, PTL

\* in_flight is the number of permits out and never passes the limit.
THEOREM AlwaysPermitsCounted == Spec => []PermitsCounted
<1>1. IInv => PermitsCounted
  BY DEF IInv
<1>. QED
  BY <1>1, AlwaysIInv, PTL

\* However many callers there are, at most one holds the half-open probe.
THEOREM AlwaysOneProbe == Spec => []OneProbe
<1>1. IInv => OneProbe
  BY DEF IInv
<1>. QED
  BY <1>1, AlwaysIInv, PTL

\* No attempt ends in two of the counters.
THEOREM AlwaysCountedOnce == Spec => []CountedOnce
<1>1. IInv => CountedOnce
  BY DEF IInv
<1>. QED
  BY <1>1, AlwaysIInv, PTL

ClosesRightly ==
  openUntil # Closed /\ openUntil' = Closed => \E c \in Callers : ClosesOn(c)

LEMMA StepClosesRightly ==
  ASSUME IInv, IInv', [Next]_vars, openUntil # Closed, openUntil' = Closed
  PROVE  \E c \in Callers : ClosesOn(c)
<1>1. ASSUME NEW c \in Callers, Succeed(c) PROVE ClosesOn(c)
  <2>1. Fresh(c) /\ Holds(c)
    BY <1>1 DEF Succeed, Holds
  <2>2. call[c].probe
    BY <2>1 DEF IInv, Generations, Fresh
  <2>. QED
    BY <2>1, <2>2 DEF ClosesOn, Fresh
<1>2. ASSUME NEW c \in Callers, Fail(c) PROVE FALSE
  <2>1. consecutive' = consecutive + 1 /\ consecutive \in Nat
    BY <1>2 DEF Fail, IInv, TypeOK
  <2>2. consecutive' = 0
    BY DEF IInv, StreakMeansOpen
  <2>. QED
    BY <2>1, <2>2
<1>3. CASE Tick \/ UNCHANGED vars
  BY <1>3 DEF Tick, vars, circuit
<1>4. ASSUME NEW c \in Callers, Admission(c) PROVE FALSE
  BY <1>4 DEF Admission, Ask, Denied, RateDenied, Admit, circuit
<1>5. ASSUME NEW c \in Callers,
             Refused(c) \/ Negative(c) \/ (\E retry \in RetryAfters : Record(c, retry))
               \/ Finish(c) \/ Abandon(c) \/ Release(c)
      PROVE  FALSE
  BY <1>5 DEF Refused, Negative, Record, Finish, Abandon, Release, circuit
<1>. QED
  BY <1>1, <1>2, <1>3, <1>4, <1>5 DEF Next, Attempt

\* The circuit closes on nothing but the half-open probe's own success, and on
\* that only if no attempt has failed since the probe was admitted.
THEOREM OnlyTheProbeCloses == Spec => OnlyProbeCloses
<1>1. IInv /\ IInv' /\ [Next]_vars => [ClosesRightly]_vars
  BY StepClosesRightly DEF ClosesRightly
<1>. QED
  BY <1>1, AlwaysIInv, PTL DEF Spec, OnlyProbeCloses, ClosesRightly

LEMMA StepKeepsCooldown ==
  ASSUME IInv, [Next]_vars, openUntil # Closed, openUntil' # Closed
  PROVE  openUntil' >= openUntil
<1>1. openUntil \in Nat
  BY DEF IInv, TypeOK
<1>2. ASSUME NEW c \in Callers, Fail(c) PROVE openUntil' >= openUntil
  <2>1. PICK delay \in Delays(consecutive + 1, call[c].retry) :
          openUntil' = OpenFor(call[c].at, delay)
    BY <1>2 DEF Fail
  <2>2. consecutive + 1 \in Nat \ {0} /\ call[c].retry \in RetryAfters /\ call[c].at \in Nat
    BY DEF IInv, TypeOK, Call
  <2>3. delay \in Nat
    BY <2>2, DelayIsNat
  <2>. QED
    BY <1>1, <2>1, <2>2, <2>3 DEF OpenFor, Greater
<1>3. CASE openUntil' = openUntil
  BY <1>1, <1>3
<1>4. ASSUME NEW c \in Callers, Succeed(c) PROVE openUntil' = openUntil
  BY <1>4 DEF Succeed
<1>5. ASSUME NEW c \in Callers, Admission(c) PROVE openUntil' = openUntil
  BY <1>5 DEF Admission, Ask, Denied, RateDenied, Admit, circuit
<1>6. ASSUME NEW c \in Callers,
             Refused(c) \/ Negative(c) \/ (\E retry \in RetryAfters : Record(c, retry))
               \/ Finish(c) \/ Abandon(c) \/ Release(c)
      PROVE  openUntil' = openUntil
  BY <1>6 DEF Refused, Negative, Record, Finish, Abandon, Release, circuit
<1>7. CASE Tick \/ UNCHANGED vars
  <2>1. openUntil' = openUntil
    BY <1>7 DEF Tick, vars, circuit
  <2>. QED
    BY <1>3, <2>1
<1>. QED
  BY <1>2, <1>3, <1>4, <1>5, <1>6, <1>7 DEF Next, Attempt

KeepsCooldown == openUntil # Closed /\ openUntil' # Closed => openUntil' >= openUntil

\* While the circuit stays open its cooldown is never cut short, so a long
\* Retry-After outlives every shorter backoff recorded after it.
THEOREM AlwaysCooldownHolds == Spec => CooldownHolds
<1>1. IInv /\ [Next]_vars => [KeepsCooldown]_vars
  BY StepKeepsCooldown DEF KeepsCooldown
<1>. QED
  BY <1>1, AlwaysIInv, PTL DEF Spec, CooldownHolds, KeepsCooldown
=============================================================================
