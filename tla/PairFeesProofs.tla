--------------------------- MODULE PairFeesProofs ---------------------------
(***************************************************************************)
(* Proofs about PairFees and FeeHistory.  The invariant is in two parts    *)
(* that no step mixes: the registry's (epochs tell registrations apart)    *)
(* and the factory's (the default and the pages written agree with the     *)
(* rollout); a third, about the answers kept, is about the cache.          *)
(***************************************************************************)
EXTENDS FeeHistory, TLAPS

RegistryInv == RegistryTypes /\ EpochsUnique

\* While a new registry is rolled out, new pairs are created with it.
DefaultFollows ==
  rollout.setting = "registry" => default["registry"] = rollout.value

FactoryInv == FactoryTypes /\ RolloutReaches /\ DefaultFollows

IInv == RegistryInv /\ FactoryInv /\ acts \in Nat

-----------------------------------------------------------------------------
(* The registry *)

LEMMA EnrollKeeps ==
  ASSUME RegistryInv, NEW w \in Wallets, NEW i \in TierIds, Enroll(w, i)
  PROVE  RegistryInv'
<1>1. /\ registration' = [v \in DOMAIN registration \cup {w} |->
           IF v = w THEN [tier |-> i, epoch |-> epochs + 1] ELSE registration[v]]
      /\ epochs' = epochs + 1 /\ UNCHANGED <<tiers, trusted, balance>>
      /\ epochs \in Nat /\ DOMAIN registration \subseteq Wallets
      /\ \A v \in DOMAIN registration : registration[v] \in [tier : TierIds, epoch : 1 .. epochs]
  BY DEF Enroll, With, RegistryInv, RegistryTypes
<1>2. \A v \in DOMAIN registration' :
        registration'[v] \in [tier : TierIds, epoch : 1 .. epochs']
  BY <1>1
<1>3. RegistryTypes'
  BY <1>1, <1>2 DEF RegistryInv, RegistryTypes
<1>4. EpochsUnique'
  <2>1. \A v \in DOMAIN registration : registration[v].epoch # epochs + 1
    BY <1>1
  <2>2. \A u, v \in DOMAIN registration : registration[u].epoch = registration[v].epoch => u = v
    BY DEF RegistryInv, EpochsUnique
  <2>3. QED
    BY <1>1, <2>1, <2>2 DEF EpochsUnique
<1>5. QED
  BY <1>3, <1>4 DEF RegistryInv

\* Registrations only go, CL8Y may move.
LEMMA RemoveKeeps ==
  ASSUME RegistryInv, NEW w, UNCHANGED <<tiers, epochs, trusted>>,
         balance' \in [Wallets -> Nat],
         registration' = registration \/ registration' = Without(registration, w)
  PROVE  RegistryInv'
<1>1. /\ DOMAIN registration' \subseteq DOMAIN registration
      /\ \A v \in DOMAIN registration' : registration'[v] = registration[v]
  BY DEF Without
<1>2. RegistryTypes'
  BY <1>1 DEF RegistryInv, RegistryTypes
<1>3. EpochsUnique'
  BY <1>1 DEF RegistryInv, EpochsUnique
<1>4. QED
  BY <1>2, <1>3 DEF RegistryInv

LEMMA TiersKeep ==
  ASSUME RegistryInv, UNCHANGED <<registration, epochs, balance>>,
         DOMAIN tiers' \subseteq TierIds, \A i \in DOMAIN tiers' : tiers'[i] \in Term,
         trusted' \subseteq Wallets
  PROVE  RegistryInv'
BY DEF RegistryInv, RegistryTypes, EpochsUnique

LEMMA GovernRegistryKeeps ==
  ASSUME RegistryInv, GovernRegistry
  PROVE  RegistryInv'
<1>1. ASSUME NEW i \in TierIds, RemoveTier(i)
      PROVE  RegistryInv'
  <2>1. /\ DOMAIN tiers' \subseteq TierIds /\ \A j \in DOMAIN tiers' : tiers'[j] \in Term
        /\ trusted' \subseteq Wallets
    BY <1>1 DEF RemoveTier, Without, RegistryInv, RegistryTypes
  <2>2. QED
    BY <1>1, <2>1, TiersKeep DEF RemoveTier
<1>2. ASSUME NEW i \in TierIds, NEW t \in Terms, AddTier(i, t) \/ UpdateTier(i, t)
      PROVE  RegistryInv'
  <2>1. /\ DOMAIN tiers' \subseteq TierIds /\ \A j \in DOMAIN tiers' : tiers'[j] \in Term
        /\ trusted' \subseteq Wallets
    BY <1>2, TermAssumption DEF AddTier, UpdateTier, With, RegistryInv, RegistryTypes
  <2>2. QED
    BY <1>2, <2>1, TiersKeep DEF AddTier, UpdateTier
<1>3. ASSUME NEW w \in Wallets, Expel(w)
      PROVE  RegistryInv'
  BY <1>3, RemoveKeeps DEF Expel, Remove, RegistryInv, RegistryTypes
<1>4. ASSUME NEW w \in Wallets, SetTrusted(w)
      PROVE  RegistryInv'
  <2>1. /\ DOMAIN tiers' \subseteq TierIds /\ \A j \in DOMAIN tiers' : tiers'[j] \in Term
        /\ trusted' \subseteq Wallets
    BY <1>4 DEF SetTrusted, RegistryInv, RegistryTypes
  <2>2. QED
    BY <1>4, <2>1, TiersKeep DEF SetTrusted
<1>5. ASSUME NEW w \in Wallets, NEW i \in TierIds, RegisterWallet(w, i)
      PROVE  RegistryInv'
  BY <1>5, EnrollKeeps DEF RegisterWallet
<1>6. QED
  BY <1>1, <1>2, <1>3, <1>4, <1>5 DEF GovernRegistry

LEMMA JoinKeeps ==
  ASSUME RegistryInv, Join
  PROVE  RegistryInv'
<1>1. PICK w \in Wallets :
        \/ Deregister(w) \/ DeregisterWallet(w)
        \/ \E i \in TierIds : Register(w, i)
        \/ \E b \in 0 .. MaxBalance : MoveCl8y(w, b)
  BY DEF Join
<1>2. CASE Deregister(w) \/ DeregisterWallet(w)
  BY <1>2, RemoveKeeps DEF Deregister, DeregisterWallet, Remove, RegistryInv, RegistryTypes
<1>3. ASSUME NEW i \in TierIds, Register(w, i)
      PROVE  RegistryInv'
  BY <1>3, EnrollKeeps DEF Register
<1>4. ASSUME NEW b \in 0 .. MaxBalance, MoveCl8y(w, b)
      PROVE  RegistryInv'
  <2>1. balance' \in [Wallets -> Nat] /\ UNCHANGED <<tiers, epochs, trusted, registration>>
    BY <1>4, TermAssumption DEF MoveCl8y, registry, RegistryInv, RegistryTypes
  <2>2. QED
    BY <2>1, RemoveKeeps
<1>5. QED
  BY <1>1, <1>2, <1>3, <1>4

LEMMA TradeKeeps ==
  ASSUME RegistryInv, Trade
  PROVE  RegistryInv'
<1>1. ASSUME NEW i, NEW w, NEW s, NEW to \in Wallets, NEW gain \in Gains(i), Swap(i, w, s, to, gain)
      PROVE  RegistryInv'
  <2>1. gain \in Nat
    BY <1>1 DEF Gains
  <2>2. balance' \in [Wallets -> Nat]
    BY <1>1, <2>1 DEF Swap, After, RegistryInv, RegistryTypes
  <2>3. registration' = registration \/ registration' = Without(registration, w)
    BY <1>1 DEF Swap, DeregisterAfter
  <2>4. QED
    BY <1>1, <2>2, <2>3, RemoveKeeps DEF Swap, Elsewhere
<1>2. ASSUME NEW i, NEW w, PlaceLimitOrders(i, w)
      PROVE  RegistryInv'
  <2>1. registration' = registration \/ registration' = Without(registration, w)
    BY <1>2 DEF PlaceLimitOrders, DeregisterAfter
  <2>2. QED
    BY <1>2, <2>1, RemoveKeeps DEF PlaceLimitOrders, Elsewhere, RegistryInv, RegistryTypes
<1>3. QED
  BY <1>1, <1>2 DEF Trade

-----------------------------------------------------------------------------
(* The factory *)

PairRecord == [key : Keys, has : [Settings -> Values]]

\* Writing one setting of some of the pairs.
LEMMA SetOnTyped ==
  ASSUME FactoryTypes, NEW S, NEW k \in Settings, NEW v \in Offered[k]
  PROVE  /\ SetOn(S, k, v) \in Seq(PairRecord) /\ Len(SetOn(S, k, v)) = Len(pairs)
         /\ DOMAIN SetOn(S, k, v) = DOMAIN pairs
         /\ \A i \in DOMAIN pairs :
              /\ Configured(SetOn(S, k, v)[i].has)
              /\ SetOn(S, k, v)[i].has[k] = IF i \in S THEN v ELSE pairs[i].has[k]
              /\ \A l \in Settings \ {k} : SetOn(S, k, v)[i].has[l] = pairs[i].has[l]
<1> DEFINE new == SetOn(S, k, v)
<1>1. /\ pairs \in Seq(PairRecord) /\ \A i \in DOMAIN pairs : Configured(pairs[i].has)
      /\ v \in Values
  BY FactoryAssumption DEF FactoryTypes, PairRecord, Values
<1>2. DOMAIN pairs = 1 .. Len(pairs) /\ Len(pairs) \in Nat
  BY <1>1
<1>3. /\ DOMAIN new = DOMAIN pairs
      /\ \A i \in DOMAIN pairs : new[i] =
           IF i \in S THEN [pairs[i] EXCEPT !.has = [pairs[i].has EXCEPT ![k] = v]] ELSE pairs[i]
  BY DEF SetOn
<1>4. ASSUME NEW i \in DOMAIN pairs
      PROVE  /\ new[i] \in PairRecord /\ Configured(new[i].has)
             /\ new[i].has[k] = IF i \in S THEN v ELSE pairs[i].has[k]
             /\ \A l \in Settings \ {k} : new[i].has[l] = pairs[i].has[l]
  <2>1. pairs[i] \in PairRecord /\ Configured(pairs[i].has)
    BY <1>1, <1>2
  <2>2. PICK h : h = [pairs[i].has EXCEPT ![k] = v]
    OBVIOUS
  <2>3. /\ h \in [Settings -> Values] /\ h[k] = v
        /\ \A l \in Settings \ {k} : h[l] = pairs[i].has[l]
    BY <2>1, <2>2, <1>1 DEF PairRecord
  <2>4. Configured(h)
    BY <2>1, <2>3 DEF Configured
  <2>5. CASE i \in S
    <3>1. new[i] = [pairs[i] EXCEPT !.has = h]
      BY <2>5, <1>3, <2>2
    <3>2. new[i] \in PairRecord /\ new[i].has = h
      BY <3>1, <2>1, <2>3 DEF PairRecord
    <3>3. QED
      BY <3>2, <2>3, <2>4, <2>5
  <2>6. CASE i \notin S
    BY <2>6, <1>3, <2>1
  <2>7. QED
    BY <2>5, <2>6
<1>5. new \in [1 .. Len(pairs) -> PairRecord]
  <2>1. new = [i \in 1 .. Len(pairs) |-> new[i]]
    BY <1>2 DEF SetOn
  <2>2. QED
    BY <1>2, <1>4, <2>1
<1>6. new \in Seq(PairRecord) /\ Len(new) = Len(pairs)
  BY <1>2, <1>5
<1>7. QED
  BY <1>3, <1>4, <1>6

LEMMA DefaultSet ==
  ASSUME FactoryTypes, NEW k \in Settings, NEW v \in Offered[k]
  PROVE  /\ Configured([default EXCEPT ![k] = v])
         /\ [default EXCEPT ![k] = v][k] = v
         /\ \A l \in Settings \ {k} : [default EXCEPT ![k] = v][l] = default[l]
BY FactoryAssumption DEF FactoryTypes, Configured, Values

LEMMA RolloutFields ==
  ASSUME FactoryInv
  PROVE  /\ Len(pairs) \in Nat /\ DOMAIN pairs = 1 .. Len(pairs)
         /\ rollout.setting # "none" =>
              /\ rollout.setting \in Paged /\ rollout.value \in Offered[rollout.setting]
              /\ rollout.scanned \in 0 .. Len(pairs) /\ rollout.more \in BOOLEAN
BY DEF FactoryInv, FactoryTypes, NoRollout

LEMMA CreatePairKeeps ==
  ASSUME FactoryInv, NEW key \in Keys, CreatePair(key)
  PROVE  FactoryInv'
<1>1. /\ pairs \in Seq(PairRecord) /\ \A i \in DOMAIN pairs : Configured(pairs[i].has)
      /\ Configured(default) /\ now \in Nat
  BY DEF FactoryInv, FactoryTypes, PairRecord, Values
<1>2. default \in [Settings -> Values]
  BY <1>1 DEF Configured
<1>3. PICK p : p = [key |-> key, has |-> default]
  OBVIOUS
<1>4. p \in PairRecord /\ p.has = default
  BY <1>2, <1>3 DEF PairRecord
<1>5. pairs' = Append(pairs, p) /\ created' = now /\ UNCHANGED <<now, default, rollout>>
  BY <1>3 DEF CreatePair
<1>6. /\ pairs' \in Seq(PairRecord) /\ Len(pairs') = Len(pairs) + 1
      /\ DOMAIN pairs' = 1 .. Len(pairs) + 1 /\ Len(pairs) \in Nat
      /\ \A i \in 1 .. Len(pairs) : pairs'[i] = pairs[i]
      /\ pairs'[Len(pairs) + 1] = p
  BY <1>1, <1>4, <1>5
<1>7. FactoryTypes'
  <2>1. \A i \in DOMAIN pairs' : Configured(pairs'[i].has)
    BY <1>1, <1>4, <1>6
  <2>2. Configured(default)' /\ (now \in Nat /\ created \in Int)'
    BY <1>1, <1>5 DEF Configured
  <2>3. (rollout = NoRollout \/
          /\ rollout.setting \in Paged /\ rollout.value \in Offered[rollout.setting]
          /\ rollout.scanned \in 0 .. Len(pairs) /\ rollout.more \in BOOLEAN
          /\ DOMAIN rollout = DOMAIN NoRollout)'
    BY <1>5, <1>6 DEF FactoryInv, FactoryTypes
  <2>4. QED
    BY <1>6, <2>1, <2>2, <2>3 DEF FactoryTypes, PairRecord, Values, Configured
<1>8. RolloutReaches'
  <2>1. SUFFICES ASSUME rollout.setting # "none",
                        NEW i \in 1 .. (IF rollout.setting = "registry" /\ ~rollout.more
                                        THEN Len(pairs') ELSE rollout.scanned)
                 PROVE  pairs'[i].has[rollout.setting] = rollout.value
    BY <1>5 DEF RolloutReaches
  <2>2. rollout.scanned \in 0 .. Len(pairs)
    BY <2>1, RolloutFields
  <2>3. CASE i \in 1 .. Len(pairs)
    BY <1>6, <2>1, <2>3 DEF FactoryInv, RolloutReaches
  <2>4. CASE i \notin 1 .. Len(pairs)
    <3>1. i = Len(pairs) + 1 /\ rollout.setting = "registry"
      BY <1>6, <2>1, <2>2, <2>4
    <3>2. QED
      BY <1>4, <1>6, <3>1 DEF FactoryInv, DefaultFollows
  <2>5. QED
    BY <2>3, <2>4
<1>9. DefaultFollows'
  BY <1>5 DEF FactoryInv, DefaultFollows
<1>10. QED
  BY <1>7, <1>8, <1>9 DEF FactoryInv

\* What governance's messages do to the rollout: forget it, leave it alone if it
\* is of another setting, or have written n pairs.
Advances(S, k, v) ==
  \/ rollout' = NoRollout
  \/ rollout' = rollout /\ rollout.setting # k /\ default' = default
  \/ /\ k \in Paged /\ (k = "registry" => default'[k] = v)
     /\ \E n \in 0 .. Len(pairs) :
          /\ rollout' = [setting |-> k, value |-> v, scanned |-> n, more |-> n < Len(pairs)]
          /\ \A i \in 1 .. n : i \in S \/ pairs[i].has[k] = v

LEMMA WriteKeeps ==
  ASSUME FactoryInv, NEW S, NEW k \in Settings, NEW v \in Offered[k],
         pairs' = SetOn(S, k, v), UNCHANGED <<now, created>>,
         Configured(default)', Advances(S, k, v)
  PROVE  FactoryInv'
<1>1. FactoryTypes /\ RolloutReaches /\ DefaultFollows
  BY DEF FactoryInv
<1>2. /\ pairs' \in Seq(PairRecord) /\ Len(pairs') = Len(pairs) /\ DOMAIN pairs' = DOMAIN pairs
      /\ \A i \in DOMAIN pairs :
           /\ Configured(pairs'[i].has)
           /\ pairs'[i].has[k] = IF i \in S THEN v ELSE pairs[i].has[k]
           /\ \A l \in Settings \ {k} : pairs'[i].has[l] = pairs[i].has[l]
  BY <1>1, SetOnTyped
<1>3. /\ Len(pairs) \in Nat /\ DOMAIN pairs = 1 .. Len(pairs)
      /\ rollout.setting # "none" =>
           /\ rollout.setting \in Paged /\ rollout.value \in Offered[rollout.setting]
           /\ rollout.scanned \in 0 .. Len(pairs) /\ rollout.more \in BOOLEAN
  BY RolloutFields
<1>4. FactoryTypes'
  <2>1. (\A i \in DOMAIN pairs : Configured(pairs[i].has))'
    BY <1>2 DEF Configured
  <2>2. (rollout = NoRollout \/
          /\ rollout.setting \in Paged /\ rollout.value \in Offered[rollout.setting]
          /\ rollout.scanned \in 0 .. Len(pairs) /\ rollout.more \in BOOLEAN
          /\ DOMAIN rollout = DOMAIN NoRollout)'
    <3>1. CASE rollout' = NoRollout
      BY <3>1 DEF NoRollout
    <3>2. CASE rollout' = rollout
      BY <3>2, <1>1, <1>2 DEF FactoryTypes
    <3>3. ASSUME k \in Paged, NEW n \in 0 .. Len(pairs),
                 rollout' = [setting |-> k, value |-> v, scanned |-> n, more |-> n < Len(pairs)]
          PROVE  /\ rollout'.setting \in Paged /\ rollout'.value \in Offered[rollout'.setting]
                 /\ rollout'.scanned \in 0 .. Len(pairs) /\ rollout'.more \in BOOLEAN
                 /\ DOMAIN rollout' = DOMAIN NoRollout
      BY <3>3 DEF NoRollout
    <3>4. QED
      BY <3>1, <3>2, <3>3, <1>2 DEF Advances
  <2>3. QED
    BY <1>1, <1>2, <2>1, <2>2 DEF FactoryTypes, PairRecord, Values
<1>5. RolloutReaches' /\ DefaultFollows'
  <2>1. CASE rollout' = NoRollout
    BY <2>1 DEF NoRollout, RolloutReaches, DefaultFollows
  <2>2. CASE rollout' = rollout /\ rollout.setting # k /\ default' = default
    <3>1. DefaultFollows'
      BY <1>1, <2>2 DEF DefaultFollows
    <3>2. ASSUME rollout.setting # "none",
                 NEW i \in 1 .. (IF rollout.setting = "registry" /\ ~rollout.more
                                 THEN Len(pairs) ELSE rollout.scanned)
          PROVE  pairs'[i].has[rollout.setting] = rollout.value
      <4>1. i \in DOMAIN pairs /\ rollout.setting \in Settings \ {k}
        BY <1>3, <2>2, <3>2 DEF Paged, Settings
      <4>2. pairs[i].has[rollout.setting] = rollout.value
        BY <1>1, <3>2 DEF RolloutReaches
      <4>3. QED
        BY <1>2, <4>1, <4>2
    <3>3. QED
      BY <1>2, <2>2, <3>1, <3>2 DEF RolloutReaches
  <2>3. ASSUME k \in Paged, k = "registry" => default'[k] = v, NEW n \in 0 .. Len(pairs),
               rollout' = [setting |-> k, value |-> v, scanned |-> n, more |-> n < Len(pairs)],
               \A i \in 1 .. n : i \in S \/ pairs[i].has[k] = v
        PROVE  RolloutReaches' /\ DefaultFollows'
    <3>1. /\ rollout'.setting = k /\ rollout'.value = v
          /\ rollout'.scanned = n /\ rollout'.more = (n < Len(pairs))
      BY <2>3
    <3>2. DefaultFollows'
      BY <2>3, <3>1 DEF DefaultFollows
    <3>3. \A i \in 1 .. n : pairs'[i].has[k] = v
      BY <1>2, <1>3, <2>3
    <3>4. ~rollout'.more => n = Len(pairs)
      <4>1. \A a \in Nat : \A b \in 0 .. a : ~(b < a) => b = a
        OBVIOUS
      <4>2. QED
        BY <1>3, <3>1, <4>1
    <3>5. RolloutReaches'
      BY <1>2, <3>1, <3>3, <3>4 DEF RolloutReaches
    <3>6. QED
      BY <3>2, <3>5
  <2>4. QED
    BY <2>1, <2>2, <2>3 DEF Advances
<1>6. QED
  BY <1>4, <1>5 DEF FactoryInv

LEMMA GovernFactoryKeeps ==
  ASSUME FactoryInv, GovernFactory
  PROVE  FactoryInv'
<1>1. /\ Len(pairs) \in Nat /\ DOMAIN pairs = 1 .. Len(pairs)
      /\ rollout.setting # "none" =>
           /\ rollout.setting \in Paged /\ rollout.value \in Offered[rollout.setting]
           /\ rollout.scanned \in 0 .. Len(pairs) /\ rollout.more \in BOOLEAN
  BY RolloutFields
<1>2. FactoryTypes /\ RolloutReaches /\ DefaultFollows /\ Configured(default)
  BY DEF FactoryInv, FactoryTypes
<1>3. Paged \subseteq Settings
  BY DEF Paged, Settings
<1>4. ASSUME NEW k \in Settings, NEW v \in Offered[k]
      PROVE  /\ Configured(Persisted(k, v))
             /\ k = "registry" => Persisted(k, v)[k] = v
  BY <1>2, <1>4, DefaultSet DEF Persisted
<1>5. ASSUME NEW k \in Settings, NEW v \in Offered[k], UpdateConfig(k, v)
      PROVE  FactoryInv'
  <2>1. Configured(default)'
    BY <1>2, <1>5, DefaultSet DEF UpdateConfig, Configured
  <2>2. FactoryTypes'
    <3>1. (rollout = NoRollout \/
            /\ rollout.setting \in Paged /\ rollout.value \in Offered[rollout.setting]
            /\ rollout.scanned \in 0 .. Len(pairs) /\ rollout.more \in BOOLEAN
            /\ DOMAIN rollout = DOMAIN NoRollout)'
      BY <1>2, <1>5 DEF UpdateConfig, Overruled, FactoryTypes
    <3>2. QED
      BY <1>2, <1>5, <2>1, <3>1 DEF UpdateConfig, FactoryTypes, Configured
  <2>3. CASE rollout' = NoRollout
    BY <2>2, <2>3 DEF NoRollout, RolloutReaches, DefaultFollows, FactoryInv
  <2>4. CASE rollout' = rollout /\ (k = "registry" => rollout.setting # k)
    <3>1. default'["registry"] = default["registry"] \/ k = "registry"
      BY <1>2, <1>5, DefaultSet DEF UpdateConfig, Settings
    <3>2. DefaultFollows'
      BY <1>2, <2>4, <3>1 DEF DefaultFollows
    <3>3. RolloutReaches'
      BY <1>2, <1>5, <2>4 DEF UpdateConfig, RolloutReaches
    <3>4. QED
      BY <2>2, <3>2, <3>3 DEF FactoryInv
  <2>5. QED
    BY <1>5, <2>3, <2>4 DEF UpdateConfig, Overruled
<1>6. ASSUME NEW k \in Settings, NEW v \in Offered[k], NEW i \in DOMAIN pairs, SetOne(k, i, v)
      PROVE  FactoryInv'
  <2>1. Advances({i}, k, v) /\ Configured(default)'
    BY <1>2, <1>6 DEF SetOne, Overruled, Advances, Configured
  <2>2. QED
    BY <1>6, <2>1, WriteKeeps DEF SetOne
<1>7. ASSUME NEW k \in Paged, NEW v \in Offered[k], SetAll(k, v)
      PROVE  FactoryInv'
  <2>1. PICK n : n = Len(pairs)
    OBVIOUS
  <2>2. Advances(DOMAIN pairs, k, v)
    <3>1. \A a \in Nat : (a < a) = FALSE
      OBVIOUS
    <3>2. (n < Len(pairs)) = FALSE /\ n \in 0 .. Len(pairs) /\ 1 .. n = DOMAIN pairs
      BY <1>1, <2>1, <3>1
    <3>3. rollout' = [setting |-> k, value |-> v, scanned |-> n, more |-> n < Len(pairs)]
      BY <1>7, <2>1, <3>2 DEF SetAll
    <3>4. default' = Persisted(k, v)
      BY <1>7 DEF SetAll
    <3>5. QED
      BY <1>3, <1>4, <3>2, <3>3, <3>4 DEF Advances
  <2>3. Configured(default)'
    BY <1>3, <1>4, <1>7 DEF SetAll, Configured
  <2>4. QED
    BY <1>3, <1>7, <2>2, <2>3, WriteKeeps DEF SetAll
<1>8. ASSUME NEW k \in Paged, NEW v \in Offered[k], NEW scanned \in 0 .. Len(pairs), NEW n \in Nat \ {0},
             \A i \in 1 .. scanned : pairs[i].has[k] = v, SetBatch(k, v, scanned, n)
      PROVE  FactoryInv'
  <2>1. PICK end : end = EndOfPage(scanned, n)
    OBVIOUS
  <2>2. end \in 0 .. Len(pairs) /\ scanned <= end
    BY <1>1, <2>1 DEF EndOfPage
  <2>3. \A i \in 1 .. end : i \in scanned + 1 .. end \/ i \in 1 .. scanned
    BY <2>2
  <2>4. Advances(scanned + 1 .. end, k, v)
    BY <1>3, <1>4, <1>8, <2>1, <2>2, <2>3 DEF SetBatch, Advances
  <2>5. Configured(default)'
    BY <1>3, <1>4, <1>8 DEF SetBatch, Configured
  <2>6. QED
    BY <1>3, <1>8, <2>1, <2>4, <2>5, WriteKeeps DEF SetBatch
<1>9. ASSUME NEW k \in Paged, NEW v \in Offered[k], NEW n \in PageLimits, FirstPage(k, v, n)
      PROVE  FactoryInv'
  BY <1>1, <1>8, <1>9, FactoryAssumption DEF FirstPage
<1>10. ASSUME NEW n \in PageLimits, NextPage(n)
       PROVE  FactoryInv'
  <2>1. rollout.setting # "none"
    BY <1>2, <1>10 DEF NextPage, FactoryTypes, NoRollout, Paged
  <2>2. \A i \in 1 .. rollout.scanned : pairs[i].has[rollout.setting] = rollout.value
    BY <1>2, <1>10, <2>1 DEF NextPage, RolloutReaches
  <2>3. QED
    BY <1>1, <1>8, <1>10, <2>1, <2>2, FactoryAssumption DEF NextPage
<1>11. QED
  BY <1>5, <1>6, <1>7, <1>9, <1>10 DEF GovernFactory

LEMMA FactoryStill ==
  ASSUME FactoryInv, UNCHANGED factory \/ NextBlock
  PROVE  FactoryInv'
<1>1. now' \in Nat /\ UNCHANGED <<default, pairs, created, rollout>>
  BY DEF factory, NextBlock, FactoryInv, FactoryTypes
<1>2. FactoryTypes'
  BY <1>1 DEF FactoryInv, FactoryTypes, Configured
<1>3. QED
  BY <1>1, <1>2 DEF FactoryInv, RolloutReaches, DefaultFollows

-----------------------------------------------------------------------------
(* Every step *)

LEMMA InitHolds ==
  ASSUME Init
  PROVE  IInv
<1>1. RegistryInv
  <2>1. PICK s \in Starts :
          /\ registration = s.registration /\ epochs = s.epochs
          /\ trusted = s.trusted /\ balance = s.balance
    BY DEF Init, InitRegistry
  <2>2. tiers = Ladder
    BY DEF Init, InitRegistry
  <2>3. QED
    BY <2>1, <2>2, TermAssumption, StartsAssumption DEF RegistryInv, RegistryTypes, EpochsUnique
<1>2. FactoryInv
  <2>1. /\ now = 0 /\ created = -1 /\ rollout = NoRollout /\ default = Config
        /\ pairs = [i \in DOMAIN Listed |-> [key |-> Listed[i], has |-> Config]]
    BY DEF Init, InitFactory
  <2>2. Configured(Config)
    BY FactoryAssumption DEF Configured, Values
  <2>3. /\ Len(Listed) \in Nat /\ DOMAIN Listed = 1 .. Len(Listed)
        /\ \A i \in DOMAIN Listed : Listed[i] \in Keys
    BY FactoryAssumption
  <2>4. \A i \in DOMAIN Listed : [key |-> Listed[i], has |-> Config] \in PairRecord
    BY <2>2, <2>3 DEF PairRecord, Configured
  <2>5. pairs \in [1 .. Len(Listed) -> PairRecord]
    BY <2>1, <2>3, <2>4
  <2>6. pairs \in Seq(PairRecord) /\ \A i \in DOMAIN pairs : Configured(pairs[i].has)
    BY <2>1, <2>2, <2>3, <2>5
  <2>7. FactoryTypes
    BY <2>1, <2>2, <2>6 DEF FactoryTypes, PairRecord
  <2>8. QED
    BY <2>1, <2>7 DEF FactoryInv, RolloutReaches, DefaultFollows, NoRollout
<1>3. QED
  BY <1>1, <1>2 DEF IInv, Init

LEMMA StepKeeps ==
  ASSUME IInv, [Next]_feeVars
  PROVE  IInv'
<1>1. RegistryInv /\ FactoryInv /\ balance \in [Wallets -> Nat]
  BY DEF IInv, RegistryInv, RegistryTypes
<1>2. ASSUME UNCHANGED <<registry, balance>>
      PROVE  RegistryInv'
  <2>1. UNCHANGED <<tiers, epochs, trusted, registration, balance>>
    BY <1>2 DEF registry
  <2>2. QED
    BY <1>1, <2>1, RemoveKeeps
<1>3. acts' \in Nat
  BY DEF IInv, Next, Act, List, Tick, Trade, Swap, PlaceLimitOrders, Elsewhere, feeVars
<1>4. CASE Govern
  BY <1>1, <1>2, <1>3, <1>4, GovernRegistryKeeps, GovernFactoryKeeps, FactoryStill DEF Govern, IInv
<1>5. CASE Join
  <2>1. UNCHANGED factory
    BY <1>5 DEF Join
  <2>2. QED
    BY <1>1, <1>3, <1>5, <2>1, JoinKeeps, FactoryStill DEF IInv
<1>6. CASE List
  BY <1>1, <1>2, <1>3, <1>6, CreatePairKeeps DEF List, IInv
<1>7. CASE Tick
  BY <1>1, <1>2, <1>3, <1>7, FactoryStill DEF Tick, IInv
<1>8. CASE Trade
  <2>1. UNCHANGED factory
    BY <1>8 DEF Trade, Swap, PlaceLimitOrders, Elsewhere
  <2>2. QED
    BY <1>1, <1>3, <1>8, <2>1, TradeKeeps, FactoryStill DEF IInv
<1>9. CASE UNCHANGED feeVars
  BY <1>1, <1>2, <1>3, <1>9, FactoryStill DEF feeVars, IInv
<1>10. QED
  BY <1>4, <1>5, <1>6, <1>7, <1>8, <1>9 DEF Next, Act

\* In every reachable state the registry and the factory hold what their types
\* say, epochs tell registrations apart, and defaults follow rollouts.
THEOREM Invariant == Spec => []IInv
<1>1. Init => IInv
  BY InitHolds
<1>2. IInv /\ [Next]_feeVars => IInv'
  BY StepKeeps
<1>3. QED
  BY <1>1, <1>2, PTL DEF Spec

\* A registry rolled out, in one message or page by page, is asked by every pair,
\* whatever pairs are created in between and afterwards (factory
\* execute_set_discount_registry_all and _batch, execute_create_pair).
THEOREM RegistriesReachEveryPair == Spec => []RolloutReaches
<1>1. IInv => RolloutReaches
  BY DEF IInv, FactoryInv
<1>2. QED
  BY <1>1, Invariant, PTL

\* The message that throws a lapsed registration out never fails a trade that
\* pays no CL8Y: it names the trader, and the epoch answered is either of that
\* trader's own registration or of nobody else's (pair execute_swap,
\* fee-discount execute_deregister_wallet).
THEOREM TradesAreNotRefused == Spec => []SwapUnharmed
<1>1. ASSUME IInv
      PROVE  SwapUnharmed
  <2>1. /\ \A u, v \in DOMAIN registration : registration[u].epoch = registration[v].epoch => u = v
        /\ \A v \in DOMAIN registration : registration[v].epoch \in Nat \ {0}
    BY <1>1 DEF IInv, RegistryInv, EpochsUnique, RegistryTypes
  <2>2. SUFFICES ASSUME NEW r \in Asked, Lookup(r[1], r[2], r[3]).lapsed
                 PROVE  Outcome(r[1], r[2], r[3], balance[r[2]]) # "error"
    BY DEF SwapUnharmed
  <2>3. PICK e : e = EffectiveTrader(r[2], r[3])
    OBVIOUS
  <2>4. Registered(e) /\ Lapsed(e) /\ Lookup(r[1], r[2], r[3]).epoch = registration[e].epoch
    BY <2>2, <2>3 DEF Lookup, Live, Plain, Answer
  <2>5. QED
    BY <2>1, <2>4 DEF Outcome, DeregisterOutcome, Registered, Lapsed, Short, Locked
<1>2. QED
  BY <1>1, Invariant, PTL

\* Who goes when a trade's message is carried out: the trader named, lapsed then
\* and short of what the tier asks still.
LEMMA OnlyTheShortGo ==
  ASSUME IInv, NEW i, NEW w, NEW s, NEW held, DeregisterAfter(i, w, s, held)
  PROVE  /\ \A v \in DOMAIN registration' : registration'[v] = registration[v]
         /\ \A v \in DOMAIN registration \ DOMAIN registration' :
              v = w /\ Lapsed(w) /\ Short(w, held)
<1>1. /\ \A u, v \in DOMAIN registration : registration[u].epoch = registration[v].epoch => u = v
      /\ \A v \in DOMAIN registration : registration[v].epoch \in Nat \ {0}
  BY DEF IInv, RegistryInv, EpochsUnique, RegistryTypes
<1>2. CASE registration' = registration
  BY <1>2
<1>3. CASE registration' # registration
  <2>1. /\ Lookup(i, w, s).lapsed /\ Outcome(i, w, s, held) = "removed"
        /\ registration' = Without(registration, w)
    BY <1>3 DEF DeregisterAfter
  <2>2. PICK e : e = EffectiveTrader(w, s)
    OBVIOUS
  <2>3. Registered(e) /\ Lapsed(e) /\ Lookup(i, w, s).epoch = registration[e].epoch
    BY <2>1, <2>2 DEF Lookup, Live, Plain, Answer
  <2>4. w = e /\ Short(w, held)
    BY <1>1, <2>1, <2>3 DEF Outcome, DeregisterOutcome, Registered, Lapsed, Short, Locked
  <2>5. QED
    BY <2>1, <2>3, <2>4 DEF Without
<1>4. QED
  BY <1>2, <1>3

\* Trades throw out only who holds too little after the trade, and leave every
\* other registration as it is (pair execute_swap and placements, fee-discount
\* execute_deregister_wallet).
THEOREM TradesEvictOnlyLapsed == Spec => OnlyLapsedEvicted
<1> DEFINE A == acts' = acts =>
       /\ \A w \in DOMAIN registration' : registration'[w] = registration[w]
       /\ \A w \in DOMAIN registration \ DOMAIN registration' :
            Lapsed(w) /\ Short(w, balance'[w])
<1>1. ASSUME IInv, [Next]_feeVars
      PROVE  A
  <2>1. ASSUME NEW i, NEW w, NEW s, NEW to \in Wallets, NEW gain \in Gains(i),
               Swap(i, w, s, to, gain)
        PROVE  A
    BY <1>1, <2>1, OnlyTheShortGo DEF Swap
  <2>2. ASSUME NEW i, NEW w, PlaceLimitOrders(i, w)
        PROVE  A
    BY <1>1, <2>2, OnlyTheShortGo DEF PlaceLimitOrders
  <2>3. CASE Trade
    BY <2>1, <2>2, <2>3 DEF Trade
  <2>4. CASE Act
    BY <1>1, <2>4 DEF Act, IInv
  <2>5. CASE List \/ Tick \/ UNCHANGED feeVars
    BY <2>5 DEF List, Tick, feeVars, registry
  <2>6. QED
    BY <1>1, <2>3, <2>4, <2>5 DEF Next
<1>2. QED
  BY <1>1, Invariant, PTL DEF Spec, OnlyLapsedEvicted

-----------------------------------------------------------------------------
(* What is charged was due *)

\* Every answer kept and still fresh was the registry's when it was kept.
Kept(c, e) ==
  \E x \in told : x.of = c /\ x.at = e.at /\ x.fee = e.fee /\ x.limit = e.limit

ToldInv ==
  /\ \A c \in DOMAIN cache : cache[c].at \in Nat
  /\ \A c \in DOMAIN cache : IsFresh(cache[c]) => Kept(c, cache[c])
  /\ AllDue \subseteq told

\* A lookup adds at most the answer due now, and takes at most one away.
LEMMA CacheAfter ==
  ASSUME NEW r \in Asked, NEW c \in DOMAIN Cached(r[1], r[2], r[3])
  PROVE  LET new == Cached(r[1], r[2], r[3]) IN
         \/ c \in DOMAIN cache /\ new[c] = cache[c]
         \/ c = <<r[1], r[2], r[3]>> /\ new[c].at = now /\ new[c].fee = Due(r).fee
              /\ new[c].limit = Due(r).limit
BY DEF Cached, With, Without, Due

LEMMA AskedTriple ==
  ASSUME NEW r \in Asked
  PROVE  r = <<r[1], r[2], r[3]>>
BY FeesAssumption DEF Asked

LEMMA ToldStep ==
  ASSUME IInv, ToldInv, [HNext]_<<feeVars, told>>
  PROVE  ToldInv'
<1>1. now \in Nat /\ TTL \in Nat \ {0}
  BY FeesAssumption DEF IInv, FactoryInv, FactoryTypes
<1>2. CASE UNCHANGED <<feeVars, told>>
  <2>1. UNCHANGED <<registry, balance, factory, cache, told>>
    BY <1>2 DEF feeVars
  <2>2. AllDue' = AllDue
    BY <2>1 DEF AllDue, Due, Live, Plain, Answer, Asks, Fee, Asked, registry, factory, EffectiveTrader, Registered, Lapsed, Short
  <2>3. QED
    BY <2>1, <2>2 DEF ToldInv, Kept, IsFresh, factory
<1>3. CASE HNext
  <2>1. Next /\ told' = {x \in told : now' - x.at < TTL} \cup AllDue'
    BY <1>3 DEF HNext, Remember
  <2>2. now' \in Nat /\ now <= now'
    <3>1. CASE Tick
      BY <1>1, <3>1 DEF Tick, NextBlock
    <3>2. CASE Act \/ List
      <4>1. GovernFactory => now' = now
        BY DEF GovernFactory, UpdateConfig, SetOne, SetAll, FirstPage, NextPage, SetBatch
      <4>2. now' = now
        BY <3>2, <4>1 DEF Act, Govern, Join, List, CreatePair, factory
      <4>3. QED
        BY <1>1, <4>2
    <3>3. CASE Trade
      <4>1. now' = now
        BY <3>3 DEF Trade, Swap, PlaceLimitOrders, Elsewhere, factory
      <4>2. QED
        BY <1>1, <4>1
    <3>4. QED
      BY <2>1, <3>1, <3>2, <3>3 DEF Next
  <2>3. ASSUME NEW c \in DOMAIN cache, NEW e, e = cache[c], now' - e.at < TTL
        PROVE  \E x \in told' : x.of = c /\ x.at = e.at /\ x.fee = e.fee /\ x.limit = e.limit
    <3>1. e.at \in Nat
      BY <2>3 DEF ToldInv
    <3>2. IsFresh(e)
      BY <1>1, <2>2, <2>3, <3>1 DEF IsFresh
    <3>3. PICK x \in told : x.of = c /\ x.at = e.at /\ x.fee = e.fee /\ x.limit = e.limit
      BY <2>3, <3>2 DEF ToldInv, Kept
    <3>4. x \in told'
      BY <2>1, <2>3, <3>3
    <3>5. QED
      BY <3>3, <3>4
  <2>4. cache' = cache \/ \E r \in Asked : cache' = Cached(r[1], r[2], r[3]) /\ now' = now
    <3>1. CASE Trade
      <4>1. PICK r \in Asked :
              \/ \E to \in Wallets : \E gain \in Gains(r[1]) : Swap(r[1], r[2], r[3], to, gain)
              \/ r[2] = r[3] /\ PlaceLimitOrders(r[1], r[2])
        BY <3>1 DEF Trade
      <4>2. QED
        BY <4>1 DEF Swap, PlaceLimitOrders, Elsewhere, factory
    <3>2. CASE Act \/ List \/ Tick
      BY <3>2 DEF Act, Govern, Join, List, Tick
    <3>3. QED
      BY <2>1, <3>1, <3>2 DEF Next
  <2>5. ASSUME NEW c \in DOMAIN cache'
        PROVE  cache'[c].at \in Nat /\ (IsFresh(cache[c]) => Kept(c, cache[c]))'
    <3>1. CASE c \in DOMAIN cache /\ cache'[c] = cache[c]
      BY <2>3, <3>1 DEF ToldInv, Kept, IsFresh
    <3>2. CASE ~(c \in DOMAIN cache /\ cache'[c] = cache[c])
      <4>1. PICK r \in Asked : cache' = Cached(r[1], r[2], r[3]) /\ now' = now
        BY <2>4, <3>2
      <4>2. /\ c = <<r[1], r[2], r[3]>> /\ cache'[c].at = now
            /\ cache'[c].fee = Due(r).fee /\ cache'[c].limit = Due(r).limit
        BY <3>2, <4>1, CacheAfter
      <4>3. Due(r) \in told /\ Due(r).at = now /\ Due(r).of = c
        BY <4>2, AskedTriple DEF ToldInv, AllDue, Due
      <4>4. Due(r) \in told'
        BY <1>1, <2>1, <4>1, <4>3
      <4>5. QED
        BY <1>1, <4>2, <4>3, <4>4 DEF Kept
    <3>3. QED
      BY <3>1, <3>2
  <2>6. QED
    BY <2>1, <2>5 DEF ToldInv
<1>4. QED
  BY <1>2, <1>3

\* The fee and the limit discount of a trade were together what the registry
\* would have answered for this trader through this sender at some moment of the
\* last TTL seconds, whatever changed since (pair discount_cache.rs).
THEOREM ChargesWereDue == HSpec => []ChargeWasDue
<1>1. HSpec => Spec
  <2>1. HInit => Init
    BY DEF HInit
  <2>2. [HNext]_<<feeVars, told>> => [Next]_feeVars
    BY DEF HNext
  <2>3. QED
    BY <2>1, <2>2, PTL DEF HSpec, Spec
<1>2. HInit => ToldInv
  BY DEF HInit, Init, ToldInv
<1>3. IInv /\ ToldInv /\ [HNext]_<<feeVars, told>> => ToldInv'
  BY ToldStep
<1>4. IInv /\ ToldInv => ChargeWasDue
  <2>1. SUFFICES ASSUME ToldInv, NEW r \in Asked
                 PROVE  \E x \in told : /\ x.of = r /\ x.fee = Lookup(r[1], r[2], r[3]).fee
                                        /\ x.limit = Lookup(r[1], r[2], r[3]).limit
    BY DEF ChargeWasDue
  <2>2. r = <<r[1], r[2], r[3]>>
    BY AskedTriple
  <2>3. CASE Asks(r[1]) # None /\ Hit(r)
    <3>1. Kept(r, cache[r])
      BY <2>1, <2>3 DEF Hit, ToldInv
    <3>2. Lookup(r[1], r[2], r[3]).fee = cache[r].fee /\ Lookup(r[1], r[2], r[3]).limit = cache[r].limit
      BY <2>2, <2>3 DEF Lookup
    <3>3. QED
      BY <3>1, <3>2 DEF Kept
  <2>4. CASE ~(Asks(r[1]) # None /\ Hit(r))
    <3>1. Lookup(r[1], r[2], r[3]) = Live(r[1], r[2], r[3])
      BY <2>2, <2>4 DEF Lookup
    <3>2. Due(r) \in told
      BY <2>1 DEF ToldInv, AllDue
    <3>3. QED
      BY <3>1, <3>2 DEF Due
  <2>5. QED
    BY <2>3, <2>4
<1>5. QED
  BY <1>1, <1>2, <1>3, <1>4, Invariant, PTL DEF HSpec
=============================================================================
