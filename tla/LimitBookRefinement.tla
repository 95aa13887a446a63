------------------------ MODULE LimitBookRefinement ------------------------
(***************************************************************************)
(* The linked lists, claims and batched escrow of LimitBook implement the  *)
(* order of service and the vault of PriceTimeBook.                        *)
(***************************************************************************)
EXTENDS LimitBook

\* The book as it stands for others: an order whose price update runs is still
\* at its old place, because the update may yet be reverted.
Settled == IF tx.op = "reprice"
           THEN LinkIn(orders, tx.id, tx.old, tx.old.prev, tx.old.next)
           ELSE orders

\* i is served before j if the links lead from i to j: if j is in every set that
\* has the order after i and with each order the next one.
Served(os) ==
  LET ends == {S \in SUBSET DOMAIN os : \A k \in S : os[k].next \in S \cup {0}}
      behind(i) == {j \in DOMAIN os : \A S \in ends : os[i].next \in S \cup {0} => j \in S}
  IN  UNION {{i} \X behind(i) : i \in DOMAIN os}

OnBook(o) == [owner |-> o.owner, side |-> o.side, price |-> o.price,
              amount |-> o.remaining, expires |-> o.expires, parked |-> FALSE]
InClaims(c) == [owner |-> c.owner, side |-> c.side, price |-> 0,
                amount |-> c.remaining, expires |-> 0, parked |-> TRUE]

Standing == [i \in DOMAIN orders \cup DOMAIN claims |->
               IF i \in DOMAIN orders THEN OnBook(orders[i]) ELSE InClaims(claims[i])]

Vault == [s \in Sides |-> escrow[s] + Unbooked(s)]

Promised == INSTANCE PriceTimeBook WITH
  ahead <- Served(Settled), rows <- Standing, vault <- Vault,
  clock <- now, banned <- blacklisted, closed <- ~Writable

\* Every reachable book serves by price and time, every step of every message is
\* one of the promised operations or changes nothing a user can see: priority
\* at a price is by arrival whatever hints are given (L14, L23), each order is
\* filled, parked, moved or paid out only as its state and the gates allow.
KeepsPromises == Promised!Spec
=============================================================================
