----------------------------- MODULE FeeDiscount -----------------------------
(***************************************************************************)
(* The fee discount registry (contracts/fee-discount): tiers, which wallet *)
(* is registered for which, epochs that tell a registration from the one   *)
(* before it, trusted routers.  Wallets earn their tier by holding CL8Y,   *)
(* which they move as they like.                                           *)
(***************************************************************************)
EXTENDS Integers

CONSTANTS
  Wallets,      \* addresses that trade, routers and other contracts included
  Contracts,    \* those that are contracts
  TierIds,
  Terms,        \* terms governance may give a tier
  Ladder,       \* the tiers there are at first
  Starts,       \* registrations, epochs, trusted and balance there may be at first
  MaxBalance,   \* bound on CL8Y held
  MaxEpoch      \* bound on registrations ever made

Term == [min : Nat,      \* min_cl8y_balance
         swap : Nat,     \* discount_bps
         limit : Nat,    \* limit_discount_bps, resolved
         gov : BOOLEAN]  \* governance_only

ASSUME TermAssumption ==
  /\ Terms \subseteq Term /\ MaxBalance \in Nat /\ MaxEpoch \in Nat
  /\ DOMAIN Ladder \subseteq TierIds /\ \A i \in DOMAIN Ladder : Ladder[i] \in Term

ASSUME StartsAssumption ==
  \A s \in Starts :
    /\ s.epochs \in Nat /\ s.trusted \subseteq Wallets /\ s.balance \in [Wallets -> Nat]
    /\ DOMAIN s.registration \subseteq Wallets
    /\ \A v, w \in DOMAIN s.registration :
          /\ s.registration[v] \in [tier : TierIds, epoch : 1 .. s.epochs]
          /\ s.registration[v].epoch = s.registration[w].epoch => v = w

VARIABLES
  tiers,         \* TIERS, defined on the tiers that exist
  registration,  \* REGISTRATIONS and REGISTRATION_EPOCHS, on registered wallets
  epochs,        \* EPOCH_COUNTER
  trusted,       \* TRUSTED_ROUTERS
  balance        \* CL8Y held

registry == <<tiers, registration, epochs, trusted>>

With(f, x, v) == [y \in DOMAIN f \cup {x} |-> IF y = x THEN v ELSE f[y]]
Without(f, x) == [y \in DOMAIN f \ {x} |-> f[y]]

InitRegistry ==
  /\ tiers = Ladder
  /\ \E s \in Starts :
       /\ registration = s.registration /\ epochs = s.epochs
       /\ trusted = s.trusted /\ balance = s.balance

Registered(w) == w \in DOMAIN registration
Holds(held, t) == t.min = 0 \/ held >= t.min

\* In a tier only governance may move it out of.
Locked(w) ==
  Registered(w) /\ registration[w].tier \in DOMAIN tiers /\ tiers[registration[w].tier].gov

\* The tier is gone, or what is held is less than it asks for.
Short(w, held) ==
  registration[w].tier \in DOMAIN tiers =>
    LET t == tiers[registration[w].tier] IN ~t.gov /\ ~Holds(held, t)

Lapsed(w) == Registered(w) /\ Short(w, balance[w])

-----------------------------------------------------------------------------
(* query_discount *)

\* A trader is taken at its sender's word only if that is a trusted router.
EffectiveTrader(w, s) == IF w = s \/ s \in trusted THEN w ELSE s

Answer(w, s) ==
  LET e == EffectiveTrader(w, s) IN
  CASE ~Registered(e) -> [swap |-> 0, limit |-> 0, lapsed |-> FALSE, epoch |-> 0]
    [] Registered(e) /\ Lapsed(e) ->
         [swap |-> 0, limit |-> 0, lapsed |-> TRUE, epoch |-> registration[e].epoch]
    [] OTHER ->
         [swap |-> tiers[registration[e].tier].swap,
          limit |-> tiers[registration[e].tier].limit,
          lapsed |-> FALSE, epoch |-> 0]

-----------------------------------------------------------------------------
(* Messages of governance *)

AddTier(i, t) ==
  /\ i \notin DOMAIN tiers
  /\ tiers' = With(tiers, i, t)
  /\ UNCHANGED <<registration, epochs, trusted, balance>>

UpdateTier(i, t) ==
  /\ i \in DOMAIN tiers
  /\ tiers' = With(tiers, i, t)
  /\ UNCHANGED <<registration, epochs, trusted, balance>>

RemoveTier(i) ==
  /\ i \in DOMAIN tiers
  /\ tiers' = Without(tiers, i)
  /\ UNCHANGED <<registration, epochs, trusted, balance>>

Enroll(w, i) ==
  /\ epochs < MaxEpoch
  /\ registration' = With(registration, w, [tier |-> i, epoch |-> epochs + 1])
  /\ epochs' = epochs + 1
  /\ UNCHANGED <<tiers, trusted, balance>>

Remove(w) ==
  /\ registration' = Without(registration, w)
  /\ UNCHANGED <<tiers, epochs, trusted, balance>>

RegisterWallet(w, i) == i \in DOMAIN tiers /\ Enroll(w, i)

\* DeregisterWallet sent by governance
Expel(w) == Registered(w) /\ Remove(w)

SetTrusted(s) ==
  /\ trusted' \in {trusted \cup {s}, trusted \ {s}}
  /\ UNCHANGED <<tiers, registration, epochs, balance>>

-----------------------------------------------------------------------------
(* Messages of anybody *)

Register(w, i) ==
  /\ w \notin Contracts
  /\ i \in DOMAIN tiers /\ ~tiers[i].gov
  /\ ~Locked(w)
  /\ Holds(balance[w], tiers[i])
  /\ Enroll(w, i)

Deregister(w) == Registered(w) /\ ~Locked(w) /\ Remove(w)

\* Mutant: whoever holds too little may be thrown out, in any epoch.
DeregisterAnyEpoch(w, epoch, held) ==
  CASE ~Registered(w) \/ Locked(w) -> "error"
    [] OTHER -> IF /\ registration[w].tier \in DOMAIN tiers
                   /\ Holds(held, tiers[registration[w].tier])
                THEN "error" ELSE "removed"

\* Mutant: the balance is not looked at again.
DeregisterUnchecked(w, epoch, held) ==
  CASE epoch # 0 /\ (~Registered(w) \/ registration[w].epoch # epoch) -> "skipped"
    [] (epoch = 0 \/ (Registered(w) /\ registration[w].epoch = epoch))
         /\ (~Registered(w) \/ Locked(w)) -> "error"
    [] OTHER -> "removed"

\* What DeregisterWallet does for a sender that is not governance.  Epoch 0 is
\* none given; a registration renewed since the epoch given is left alone.
DeregisterOutcome(w, epoch, held) ==
  CASE epoch # 0 /\ (~Registered(w) \/ registration[w].epoch # epoch) -> "skipped"
    [] (epoch = 0 \/ (Registered(w) /\ registration[w].epoch = epoch))
         /\ (~Registered(w) \/ Locked(w)
              \/ (/\ registration[w].tier \in DOMAIN tiers
                  /\ Holds(held, tiers[registration[w].tier]))) -> "error"
    [] OTHER -> "removed"

DeregisterWallet(w) == DeregisterOutcome(w, 0, balance[w]) = "removed" /\ Remove(w)

\* cw20 transfers of CL8Y
MoveCl8y(w, held) ==
  /\ balance' = [balance EXCEPT ![w] = held]
  /\ UNCHANGED registry

-----------------------------------------------------------------------------
RegistryTypes ==
  /\ DOMAIN tiers \subseteq TierIds /\ \A i \in DOMAIN tiers : tiers[i] \in Term
  /\ DOMAIN registration \subseteq Wallets
  /\ \A w \in DOMAIN registration : registration[w] \in [tier : TierIds, epoch : 1 .. epochs]
  /\ epochs \in Nat /\ trusted \subseteq Wallets
  /\ balance \in [Wallets -> Nat]

\* An epoch names one registration of one wallet.
EpochsUnique ==
  \A v, w \in DOMAIN registration :
    registration[v].epoch = registration[w].epoch => v = w
=============================================================================
