----------------------------- MODULE FeeHistory -----------------------------
(***************************************************************************)
(* PairFees with what the registry would have said in the last seconds.    *)
(***************************************************************************)
EXTENDS PairFees

VARIABLE told   \* fee and limit discount due for each request, and when

Due(r) ==
  [of |-> r, at |-> now,
   fee |-> Live(r[1], r[2], r[3]).fee, limit |-> Live(r[1], r[2], r[3]).limit]
AllDue == {Due(r) : r \in Asked}

HInit == Init /\ told = AllDue
Remember == told' = {x \in told : now' - x.at < TTL} \cup AllDue'
HNext == Next /\ Remember
HSpec == HInit /\ [][HNext]_<<feeVars, told>>

\* Whatever a cached answer outlives (a registration, a balance, a tier, the
\* trust in a router, a change of the fee or of the registry asked), the fee and
\* the limit discount charged were together those due to this trader through this
\* sender at some moment of the last TTL seconds.
ChargeWasDue ==
  \A r \in Asked :
    LET l == Lookup(r[1], r[2], r[3]) IN
    \E x \in told : x.of = r /\ x.fee = l.fee /\ x.limit = l.limit
=============================================================================
