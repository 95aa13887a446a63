---------------------------- MODULE ProviderPool ----------------------------
(***************************************************************************)
(* One upstream provider of the indexer's chain client: admission, rate    *)
(* budget and circuit (indexer/src/lcd/provider_pool.rs) as the concurrent *)
(* callers of lcd/mod.rs and lcd/chain_identity.rs drive it.  Every action *)
(* is one critical section of the provider's mutex, or a step a caller     *)
(* takes between two of them: the clock is read before the mutex is taken, *)
(* and a permit is dropped in two sections.                                *)
(***************************************************************************)
EXTENDS Integers, FiniteSets

CONSTANTS
  Callers,      \* tasks that may hold a permit of this provider
  Concurrency,  \* ProviderPolicy: permits out at once
  Rate,         \* ProviderPolicy: upstream requests per tick
  Burst,        \* ProviderPolicy: tokens the bucket holds
  Base, Cap,    \* cooldown_duration / base_backoff and max_backoff_ms
  RetryAfters,  \* delays an upstream may ask for; 0 stands for none
  MaxTime       \* bound: last tick of the clock

\* ProviderPolicy::bounded clamps what the configuration gives.
ASSUME PolicyAssumption ==
  /\ IsFiniteSet(Callers)
  /\ Concurrency \in Nat \ {0} /\ Rate \in Nat \ {0} /\ Burst \in Nat \ {0, 1}
  /\ Base \in Nat /\ Cap \in Nat /\ RetryAfters \subseteq Nat /\ 0 \in RetryAfters
  /\ MaxTime \in Nat

VARIABLES
  tokens, refilledAt,                      \* the bucket
  openUntil, halfOpen,                     \* the circuit
  inFlight, consecutive,                   \* its counters
  attempts, successes, failures, cancellations,
  now,                                     \* the monotonic clock
  call                                     \* what each caller is doing

bucket == <<tokens, refilledAt>>
circuit == <<openUntil, halfOpen, consecutive>>
totals == <<attempts, successes, failures, cancellations>>
vars == <<bucket, circuit, inFlight, totals, now, call>>

Closed == -1                               \* open_until = None

Phases == {"idle", "asking", "held", "negative", "failing", "releasing"}
Call == [phase : Phases,
         at : Nat,                         \* the instant it read for the mutex
         retry : RetryAfters,              \* Retry-After it is about to record
         probe : BOOLEAN, completed : BOOLEAN, neutral : BOOLEAN,
         gen : Nat]                        \* failure_generation
Idle == [phase |-> "idle", at |-> 0, retry |-> 0, probe |-> FALSE,
         completed |-> FALSE, neutral |-> FALSE, gen |-> 0]

Holds(c) == call[c].phase \in {"held", "negative", "failing", "releasing"}
Holders == {c \in Callers : Holds(c)}

Init ==
  /\ tokens = Burst /\ refilledAt = 0
  /\ openUntil = Closed /\ halfOpen = FALSE /\ consecutive = 0
  /\ inFlight = 0
  /\ attempts = 0 /\ successes = 0 /\ failures = 0 /\ cancellations = 0
  /\ now = 0
  /\ call = [c \in Callers |-> Idle]

(***************************************************************************)
(* admit                                                                   *)
(***************************************************************************)
\* admit() evaluates Instant::now() before admit_at takes the mutex.
Ask(c) ==
  /\ call[c].phase = "idle"
  /\ call' = [call EXCEPT ![c] = [Idle EXCEPT !.phase = "asking", !.at = now]]
  /\ UNCHANGED <<bucket, circuit, inFlight, totals, now>>

\* Mutant: one permit too many.
AdmissibleOneMore(t) ==
  /\ ~halfOpen
  /\ openUntil = Closed \/ t >= openUntil
  /\ inFlight <= Concurrency

Admissible(t) ==
  /\ ~halfOpen
  /\ openUntil = Closed \/ t >= openUntil
  /\ inFlight < Concurrency

\* HalfOpenBusy, CircuitOpen or Concurrency: nothing is written.
Denied(c) ==
  /\ call[c].phase = "asking" /\ ~Admissible(call[c].at)
  /\ call' = [call EXCEPT ![c] = Idle]
  /\ UNCHANGED <<bucket, circuit, inFlight, totals, now>>

Lesser(a, b) == IF a < b THEN a ELSE b
Greater(a, b) == IF a < b THEN b ELSE a

\* saturating_duration_since: an instant before the last refill earns nothing.
Refilled(t) == Lesser(Burst, tokens + Greater(t - refilledAt, 0) * Rate)

RateDenied(c) ==
  /\ call[c].phase = "asking" /\ Admissible(call[c].at)
  /\ Refilled(call[c].at) < 2
  /\ tokens' = Refilled(call[c].at) /\ refilledAt' = call[c].at
  /\ call' = [call EXCEPT ![c] = Idle]
  /\ UNCHANGED <<circuit, inFlight, totals, now>>

\* Two tokens: one for the identity read, one for the data read.  The first
\* permit after a cooldown is the half-open probe; scheduled_observation,
\* called at once by scheduled clients, spares only permits that are not.
Admit(c, scheduled) ==
  LET t == call[c].at
      probe == openUntil # Closed IN
  /\ call[c].phase = "asking" /\ Admissible(t)
  /\ Refilled(t) >= 2
  /\ tokens' = Refilled(t) - 2 /\ refilledAt' = t
  /\ halfOpen' = probe
  /\ inFlight' = inFlight + 1 /\ attempts' = attempts + 1
  /\ call' = [call EXCEPT ![c] =
       [Idle EXCEPT !.phase = "held", !.probe = probe,
                    !.neutral = scheduled /\ ~probe, !.gen = failures]]
  /\ UNCHANGED <<openUntil, consecutive, successes, failures, cancellations, now>>

(***************************************************************************)
(* The attempt                                                             *)
(***************************************************************************)
\* Headers of a refusal: its body still decides, but a cancellation no longer
\* leaves the provider's health alone (quarantine_if_cancelled).
Refused(c) ==
  /\ call[c].phase = "held" /\ call[c].neutral
  /\ call' = [call EXCEPT ![c].neutral = FALSE]
  /\ UNCHANGED <<bucket, circuit, inFlight, totals, now>>

\* A failure is known (transport, status, identity, lag, own deadline) and the
\* attempt waits for the endpoint metadata to record it.
Negative(c) ==
  /\ call[c].phase = "held"
  /\ call' = [call EXCEPT ![c].phase = "negative", ![c].neutral = FALSE]
  /\ UNCHANGED <<bucket, circuit, inFlight, totals, now>>

\* failed() reads the clock, then takes the mutex.
Record(c, retry) ==
  /\ call[c].phase = "negative"
  /\ call' = [call EXCEPT ![c].phase = "failing", ![c].at = now, ![c].retry = retry]
  /\ UNCHANGED <<bucket, circuit, inFlight, totals, now>>

\* 1u32 << min(n - 1, 12) times the base.
Shifted == <<1, 2, 4, 8, 16, 32, 64, 128, 256, 512, 1024, 2048, 4096>>
Backoff(n) == Lesser(Cap, Base * Shifted[Lesser(n, 13)])
\* Positive jitter of up to a quarter, Retry-After if longer, a hard cap.
Delays(n, retry) ==
  {Lesser(Cap, Greater(Backoff(n) + j, retry)) : j \in 0 .. Backoff(n) \div 4}

OpenForLatest(t, delay) == t + delay              \* mutant: a shorter one wins
OpenFor(t, delay) == Greater(openUntil, t + delay)

\* Mutant: mark_failed without completed(), the permit stays armed.
FailStaysArmed(c) ==
  /\ call[c].phase = "failing"
  /\ failures' = failures + 1 /\ consecutive' = consecutive + 1
  /\ \E delay \in Delays(consecutive + 1, call[c].retry) :
       openUntil' = OpenFor(call[c].at, delay)
  /\ call' = [call EXCEPT ![c].phase = "negative", ![c].at = 0, ![c].retry = 0]
  /\ UNCHANGED <<bucket, halfOpen, inFlight, attempts, successes, cancellations, now>>

Fail(c) ==
  /\ call[c].phase = "failing"
  /\ failures' = failures + 1 /\ consecutive' = consecutive + 1
  /\ \E delay \in Delays(consecutive + 1, call[c].retry) :
       openUntil' = OpenFor(call[c].at, delay)
  /\ call' = [call EXCEPT ![c].phase = "releasing", ![c].at = 0, ![c].retry = 0]
  /\ UNCHANGED <<bucket, halfOpen, inFlight, attempts, successes, cancellations, now>>

\* A response from before a failure does not close the circuit it opened.
FreshAlways(c) == TRUE                            \* mutant: no generation
Fresh(c) == call[c].gen = failures

Succeed(c) ==
  /\ call[c].phase = "held"
  /\ successes' = successes + 1
  /\ IF Fresh(c) THEN consecutive' = 0 /\ openUntil' = Closed
                 ELSE UNCHANGED <<consecutive, openUntil>>
  /\ call' = [call EXCEPT ![c].phase = "releasing", ![c].completed = TRUE]
  /\ UNCHANGED <<bucket, halfOpen, inFlight, attempts, failures, cancellations, now>>

\* An answer that proves neither health nor failure (HttpRejected).
Finish(c) ==
  /\ call[c].phase = "held"
  /\ call' = [call EXCEPT ![c].phase = "releasing", ![c].completed = TRUE]
  /\ UNCHANGED <<bucket, circuit, inFlight, totals, now>>

(***************************************************************************)
(* Drop: the caller's deadline or its cancellation drops the permit at any *)
(* await.  Unless that is neutral it counts as a failure, in a critical    *)
(* section of its own before the one that gives the permit back.           *)
(***************************************************************************)
Abandon(c) ==
  /\ call[c].phase \in {"held", "negative"}
  /\ call' = [call EXCEPT ![c] =
       IF @.neutral THEN [@ EXCEPT !.phase = "releasing"]
                    ELSE [@ EXCEPT !.phase = "failing", !.at = now]]
  /\ UNCHANGED <<bucket, circuit, inFlight, totals, now>>

StillHalfOpenNever(c) == FALSE                    \* mutant: any drop clears it
StillHalfOpenAlways(c) == halfOpen                \* mutant: no drop clears it
StillHalfOpen(c) == halfOpen /\ ~call[c].probe

Release(c) ==
  /\ call[c].phase = "releasing"
  /\ cancellations' = IF call[c].neutral /\ ~call[c].completed
                      THEN cancellations + 1 ELSE cancellations
  /\ inFlight' = inFlight - 1
  /\ halfOpen' = StillHalfOpen(c)
  /\ call' = [call EXCEPT ![c] = Idle]
  /\ UNCHANGED <<bucket, openUntil, consecutive, attempts, successes, failures, now>>

Tick ==
  /\ now < MaxTime
  /\ now' = now + 1
  /\ UNCHANGED <<bucket, circuit, inFlight, totals, call>>

\* What a permit's holder does sooner or later.
Attempt(c) ==
  \/ Negative(c) \/ (\E retry \in RetryAfters : Record(c, retry))
  \/ Succeed(c) \/ Finish(c) \/ Abandon(c) \/ Fail(c) \/ Release(c)

Admission(c) ==
  Ask(c) \/ Denied(c) \/ RateDenied(c) \/ (\E scheduled \in BOOLEAN : Admit(c, scheduled))

Next == (\E c \in Callers : Admission(c) \/ Refused(c) \/ Attempt(c)) \/ Tick

Spec == Init /\ [][Next]_vars /\ \A c \in Callers : WF_vars(Attempt(c))

-----------------------------------------------------------------------------
TypeOK ==
  /\ tokens \in 0 .. Burst /\ refilledAt \in 0 .. now
  /\ openUntil \in Nat \cup {Closed} /\ halfOpen \in BOOLEAN
  /\ consecutive \in Nat /\ inFlight \in Nat
  /\ attempts \in Nat /\ successes \in Nat /\ failures \in Nat /\ cancellations \in Nat
  /\ now \in 0 .. MaxTime
  /\ call \in [Callers -> Call]

\* Whatever order permits are granted, cancelled and dropped in, the counter
\* that admission looks at is the number of permits out, and within the limit.
PermitsCounted == inFlight = Cardinality(Holders) /\ inFlight <= Concurrency

\* The half-open flag stands for one permit that is out: a dropped permit of an
\* earlier admission never clears it, and no second probe joins the first.
OneProbe ==
  /\ halfOpen <=> \E c \in Callers : Holds(c) /\ call[c].probe
  /\ \A c, d \in Callers : Holds(c) /\ call[c].probe /\ Holds(d) /\ call[d].probe => c = d

\* The circuit is closed exactly while no failure followed the last recovery,
\* so the backoff starts over if and only if the provider recovered.
StreakMeansOpen == openUntil = Closed <=> consecutive = 0

\* An attempt ends in at most one of the client's counters: a deadline that
\* hits while its failure waits to be recorded is not a second failure.
Unsettled == {c \in Callers :
  \/ call[c].phase \in {"held", "negative", "failing"}
  \/ call[c].phase = "releasing" /\ call[c].neutral /\ ~call[c].completed}
CountedOnce == successes + failures + cancellations + Cardinality(Unsettled) <= attempts

\* An open circuit closes only by the success of the one half-open probe, and
\* only if no attempt failed since that probe was admitted.
ClosesOn(c) == Holds(c) /\ call[c].probe /\ call[c].gen = failures
OnlyProbeCloses ==
  [][openUntil # Closed /\ openUntil' = Closed => \E c \in Callers : ClosesOn(c)]_vars

\* No other attempt's failure shortens a cooldown, a Retry-After among them.
CooldownHolds ==
  [][openUntil # Closed /\ openUntil' # Closed => openUntil' >= openUntil]_vars

\* A probe that hangs, is cancelled or waits for the metadata lock does not
\* shut the provider out for good.
ProbeEnds == halfOpen ~> ~halfOpen

\* Requests admitted and still admissible stay within the bucket: at most Burst
\* at once and Rate per tick, for concurrent callers too.
WithinRate == 2 * attempts + tokens <= Burst + Rate * now
=============================================================================
