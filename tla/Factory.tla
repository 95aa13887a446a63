------------------------------- MODULE Factory -------------------------------
(***************************************************************************)
(* The factory (contracts/factory): the list of pairs, the defaults a new  *)
(* pair starts with, and the messages by which governance changes settings *)
(* of one pair, of all of them, or of a page at a time.  A message and all *)
(* it causes (instantiation, reply, messages to pairs) is one transaction. *)
(***************************************************************************)
EXTENDS Integers, Sequences

CONSTANTS
  Keys,         \* unordered pairs of listable tokens
  Offered,      \* Offered[k]: values of setting k
  None,         \* no discount registry
  Config,       \* the defaults, and
  Listed,       \* the pairs there are at first
  AllMax,       \* most pairs one message may reach (calc_limit of None)
  PageLimits,   \* limits of a page
  MaxBlock      \* bound on blocks

Settings == {"registry", "treasury", "fee"}
Paged == {"registry", "treasury"}   \* settings that can be rolled out

ASSUME FactoryAssumption ==
  /\ Settings \subseteq DOMAIN Offered
  /\ Offered["fee"] \subseteq Nat /\ None \in Offered["registry"]
  /\ Config \in [Settings -> UNION {Offered[k] : k \in DOMAIN Offered}]
  /\ \A k \in Settings : Config[k] \in Offered[k]
  /\ Listed \in Seq(Keys) /\ \A i, j \in DOMAIN Listed : i # j => Listed[i] # Listed[j]
  /\ PageLimits \subseteq Nat \ {0} /\ AllMax \in Nat /\ MaxBlock \in Nat

VARIABLES
  now,       \* block
  default,   \* CONFIG: what a new pair inherits
  pairs,     \* PAIR_INDEX, each pair with its own settings
  created,   \* PAIR_CREATION_BLOCK
  rollout    \* how far governance has got with the pages of a setting

NoRollout == [setting |-> "none", value |-> None, scanned |-> 0, more |-> FALSE]

InitFactory ==
  /\ now = 0 /\ created = -1 /\ rollout = NoRollout
  /\ default = Config
  /\ pairs = [i \in DOMAIN Listed |-> [key |-> Listed[i], has |-> Config]]

\* At most one creation per block; the reply lists the pair.
CreatePair(key) ==
  /\ \A i \in DOMAIN pairs : pairs[i].key # key
  /\ created # now
  /\ pairs' = Append(pairs, [key |-> key, has |-> default])
  /\ created' = now
  /\ UNCHANGED <<now, default, rollout>>

SetOn(S, k, v) ==
  [i \in DOMAIN pairs |->
     IF i \in S THEN [pairs[i] EXCEPT !.has = [pairs[i].has EXCEPT ![k] = v]] ELSE pairs[i]]

\* Mutant: the page leaves the default alone.
PersistedNot(k, v) == default

\* persist_factory_discount_registry; a treasury's default is left to UpdateConfig.
Persisted(k, v) == IF k = "registry" THEN [default EXCEPT ![k] = v] ELSE default

\* Governance that sets something else starts the setting's rollout anew.
Overruled(k) == IF rollout.setting = k THEN NoRollout ELSE rollout

SetOne(k, i, v) ==
  /\ pairs' = SetOn({i}, k, v)
  /\ rollout' = Overruled(k)
  /\ UNCHANGED <<now, default, created>>

SetAll(k, v) ==
  /\ Len(pairs) <= AllMax
  /\ pairs' = SetOn(DOMAIN pairs, k, v)
  /\ default' = Persisted(k, v)
  /\ rollout' = [setting |-> k, value |-> v, scanned |-> Len(pairs), more |-> FALSE]
  /\ UNCHANGED <<now, created>>

EndOfPage(scanned, n) ==
  IF scanned >= Len(pairs) THEN scanned
  ELSE IF scanned + n <= Len(pairs) THEN scanned + n ELSE Len(pairs)

SetBatch(k, v, scanned, n) ==
  LET end == EndOfPage(scanned, n) IN
  /\ pairs' = SetOn(scanned + 1 .. end, k, v)
  /\ default' = Persisted(k, v)
  /\ rollout' = [setting |-> k, value |-> v, scanned |-> end, more |-> end < Len(pairs)]
  /\ UNCHANGED <<now, created>>

\* The first page, and the next from next_start_after while has_more.
FirstPage(k, v, n) == SetBatch(k, v, 0, n)
NextPage(n) ==
  rollout.more /\ SetBatch(rollout.setting, rollout.value, rollout.scanned, n)

UpdateConfig(k, v) ==
  /\ v # None
  /\ default' = [default EXCEPT ![k] = v]
  /\ rollout' = IF k = "registry" THEN Overruled(k) ELSE rollout
  /\ UNCHANGED <<now, pairs, created>>

NextBlock ==
  /\ now < MaxBlock /\ now' = now + 1
  /\ UNCHANGED <<default, pairs, created, rollout>>

GovernFactory ==
  \/ \E k \in Settings : \E v \in Offered[k] :
       UpdateConfig(k, v) \/ \E i \in DOMAIN pairs : SetOne(k, i, v)
  \/ \E k \in Paged : \E v \in Offered[k] :
       SetAll(k, v) \/ \E n \in PageLimits : FirstPage(k, v, n)
  \/ \E n \in PageLimits : NextPage(n)

-----------------------------------------------------------------------------
Values == UNION {Offered[k] : k \in DOMAIN Offered}
Configured(d) == d \in [Settings -> Values] /\ \A k \in Settings : d[k] \in Offered[k]

FactoryTypes ==
  /\ now \in Nat /\ created \in Int
  /\ Configured(default)
  /\ pairs \in Seq([key : Keys, has : [Settings -> Values]])
  /\ \A i \in DOMAIN pairs : Configured(pairs[i].has)
  /\ rollout = NoRollout \/
       /\ rollout.setting \in Paged /\ rollout.value \in Offered[rollout.setting]
       /\ rollout.scanned \in 0 .. Len(pairs) /\ rollout.more \in BOOLEAN
       /\ DOMAIN rollout = DOMAIN NoRollout

\* Every page behind the cursor holds, whatever was created meanwhile; and once
\* there are no more, a new registry is what every pair asks, pairs created
\* during and after the rollout included.
RolloutReaches ==
  rollout.setting # "none" =>
    \A i \in 1 .. (IF rollout.setting = "registry" /\ ~rollout.more
                   THEN Len(pairs) ELSE rollout.scanned) :
      pairs[i].has[rollout.setting] = rollout.value
=============================================================================
