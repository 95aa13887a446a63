--------------------------- MODULE PriceTimeBook ---------------------------
(***************************************************************************)
(* What the limit order book promises its users, without lists, hints,     *)
(* walks or batches: who is served before whom, by price and, at a price,  *)
(* by arrival; a vault that holds exactly what the orders are owed; and    *)
(* the rules for who may touch an order, and when.                         *)
(***************************************************************************)
EXTENDS Integers, FiniteSets, Functions

CONSTANTS Owners, PairKey

VARIABLES
  ahead,   \* pairs <<i, j>>: i and j rest on the same side, i is served first
  rows,    \* id -> the order, resting or parked
  vault,   \* per side, the tokens held for the orders
  clock, banned, closed

vars == <<ahead, rows, vault, clock, banned, closed>>
rules == <<clock, banned, closed>>

Sides == {"bid", "ask"}
Worse(s, p, q) == IF s = "bid" THEN p < q ELSE p > q

Resting(id) == id \in DOMAIN rows /\ ~rows[id].parked
AllOf(s) == {i \in DOMAIN rows : rows[i].side = s}

\* Each side is served in one order, best price first, and the vault is full.
Sound ==
  /\ \A e \in ahead : Resting(e[1]) /\ Resting(e[2]) /\ rows[e[1]].side = rows[e[2]].side
  /\ \A s \in Sides : LET here == {i \in AllOf(s) : Resting(i)} IN
       /\ \A i, j \in here : <<i, j>> \in ahead <=> i # j /\ <<j, i>> \notin ahead
       /\ \A i, j, k \in here : <<i, j>> \in ahead /\ <<j, k>> \in ahead => <<i, k>> \in ahead
       /\ \A i, j \in here : <<i, j>> \in ahead => ~Worse(s, rows[i].price, rows[j].price)
  /\ \A s \in Sides :
       vault[s] = SumFunctionOnSet([i \in DOMAIN rows |-> rows[i].amount], AllOf(s))

\* Empty, or as an earlier version of the contract left it.
Init == Sound /\ clock = 0 /\ banned = {} /\ closed = FALSE

Expired(r) == r.expires # 0 /\ clock >= r.expires
May(who) == ~closed /\ {who, PairKey} \cap banned = {}

\* Behind every order of side s whose price is not worse than p, before the others.
Arrive(id, s, p) ==
  LET others == {i \in AllOf(s) : Resting(i)} \ {id} IN
  {<<i, id>> : i \in {i \in others : ~Worse(s, rows[i].price, p)}}
    \cup {<<id, i>> : i \in {i \in others : Worse(s, rows[i].price, p)}}

Others(id) == {e \in ahead : id \notin {e[1], e[2]}}
Without(id) == [i \in DOMAIN rows \ {id} |-> rows[i]]
Leave(id) == ahead' = Others(id)
\* Parked, an order is only an amount its owner may claim.
Parked(r) == [owner |-> r.owner, side |-> r.side, price |-> 0, amount |-> r.amount,
              expires |-> 0, parked |-> TRUE]
Pay(id, amount) == vault' = [vault EXCEPT ![rows[id].side] = @ - amount]

Place(id, r) ==
  /\ May(r.owner) /\ id \notin DOMAIN rows /\ ~r.parked /\ ~Expired(r)
  /\ rows' = [i \in DOMAIN rows \cup {id} |-> IF i = id THEN r ELSE rows[i]]
  /\ ahead' = ahead \cup Arrive(id, r.side, r.price)
  /\ vault' = [vault EXCEPT ![r.side] = @ + r.amount]
  /\ UNCHANGED rules

\* A new price is a new arrival: behind all who quote that price.
Reprice(id, p) ==
  /\ Resting(id) /\ May(rows[id].owner) /\ ~Expired(rows[id])
  /\ p # rows[id].price
  /\ rows' = [rows EXCEPT ![id].price = p]
  /\ ahead' = Others(id) \cup Arrive(id, rows[id].side, p)
  /\ UNCHANGED <<vault, rules>>

\* A taker fills a live order; what is left stays in place or is parked.
Fill(id, amount, park) ==
  /\ Resting(id) /\ May(rows[id].owner) /\ ~Expired(rows[id])
  /\ amount \in 1 .. rows[id].amount
  /\ Pay(id, amount)
  /\ IF amount = rows[id].amount THEN rows' = Without(id)
     ELSE LET r == [rows[id] EXCEPT !.amount = @ - amount] IN
          rows' = [rows EXCEPT ![id] = IF park THEN Parked(r) ELSE r]
  /\ IF amount = rows[id].amount \/ park THEN Leave(id) ELSE UNCHANGED ahead
  /\ UNCHANGED rules

ParkOrder(id) ==
  /\ ~closed /\ Resting(id)
  /\ rows' = [rows EXCEPT ![id] = Parked(@)]
  /\ Leave(id) /\ UNCHANGED <<vault, rules>>

\* The owner takes out all that is left, once, from the book or after a park.
Withdraw(id) ==
  /\ id \in DOMAIN rows /\ May(rows[id].owner)
  /\ Pay(id, rows[id].amount) /\ rows' = Without(id)
  /\ IF rows[id].parked THEN UNCHANGED ahead ELSE Leave(id)
  /\ UNCHANGED rules

RulesChange ==
  /\ clock' >= clock /\ UNCHANGED <<ahead, rows, vault>>

Next ==
  \/ \E id \in DOMAIN rows' : Place(id, rows'[id])
  \/ \E id \in DOMAIN rows :
       \/ id \in DOMAIN rows' /\ Reprice(id, rows'[id].price)
       \/ \E a \in 1 .. rows[id].amount, park \in BOOLEAN : Fill(id, a, park)
       \/ ParkOrder(id) \/ Withdraw(id)
  \/ RulesChange

Spec == Init /\ [][Next]_vars
=============================================================================
