------------------------- MODULE LimitBookProofs -------------------------
(***************************************************************************)
(* For any number of orders, prices, fees, step limits and dust values:    *)
(* every step of every message keeps the storage items well typed, both    *)
(* lists sound, each order in one place, and the tokens equal to the       *)
(* pending escrow; and it is one operation of PriceTimeBook or invisible.  *)
(*                                                                         *)
(* None of the invariants is inductive alone.  A walk follows links, so    *)
(* its cursor is a row only if the lists are sound; an insert keeps them   *)
(* sound only if the slot found in earlier steps is still one; an id is    *)
(* fresh only by what the running batch has used of its block; the payouts *)
(* at the end of a message match what its loop has added up.  IInv says    *)
(* all of it.                                                              *)
(*                                                                         *)
(* For the operations:                                                     *)
(*   - Who is served before whom is read from the links.  With sound lists *)
(*     that is the order of any rank of them (ServedByRank), leaving takes *)
(*     only the pairs of the order that leaves (UnlinkServes), and a slot  *)
(*     in price order is where price and arrival say (LinkArrives).        *)
(*   - What is promised of a message's last step was checked at its first: *)
(*     PromInv says the gates are still open, and that the walk's key puts *)
(*     the order after all of its price.                                   *)
(*   - One lemma per action then names the operation it is.                *)
(***************************************************************************)
EXTENDS LimitBookRefinement, DataLemmas, SequenceTheorems, TLAPS

-----------------------------------------------------------------------------
(* What unlinking, detaching and linking in do to the two price-time lists, *)
(* for any number of orders: lemmas about the operators alone.              *)

\* A row whose remaining amount may be spent: it is about to be removed.
AnyRow == [owner : Owners, side : Sides, price : Nat \ {0}, remaining : Int,
           expires : Nat, prev : Links, next : Links]

Rows(os) == DOMAIN os \subseteq Ids /\ \A i \in DOMAIN os : os[i] \in AnyRow

SameOrder(a, b) ==
  /\ a.owner = b.owner /\ a.side = b.side /\ a.price = b.price
  /\ a.remaining = b.remaining /\ a.expires = b.expires

\* The rows of B form one list per side, and rank grows along both: it rules
\* out a cycle, which a condition on neighbours alone does not.
Linked(os, hs, B, rank) ==
  /\ \A s \in Sides : hs[s] # 0 =>
       hs[s] \in B /\ os[hs[s]].side = s /\ os[hs[s]].prev = 0
  /\ \A i \in B :
       /\ os[i].prev = 0 => hs[os[i].side] = i
       /\ os[i].prev # 0 => os[i].prev \in B /\ os[os[i].prev].next = i
       /\ os[i].next # 0 => /\ os[i].next \in B /\ os[os[i].next].prev = i
                            /\ os[os[i].next].side = os[i].side
                            /\ ~Better(os[i].side, os[os[i].next].price, os[i].price)
                            /\ rank[i] < rank[os[i].next]

InLists(os, hs, B) == \E rank \in [Ids -> Int] : Linked(os, hs, B, rank)

\* Between p and n is where an order of side s quoting price may go.
Slot(os, hs, B, s, price, p, n) ==
  /\ p = 0 => n = hs[s]
  /\ p # 0 => /\ p \in B /\ os[p].side = s /\ os[p].next = n
              /\ ~Better(s, price, os[p].price)
  /\ n # 0 => /\ n \in B /\ os[n].side = s /\ os[n].prev = p
              /\ ~Better(s, os[n].price, price)

-----------------------------------------------------------------------------
\* What Bypass leaves of a row: everything but the link over id.
LEMMA BypassRow ==
  ASSUME NEW os, Rows(os), NEW id \in DOMAIN os, NEW i \in DOMAIN os
  PROVE  /\ Bypass(os, id)[i] \in AnyRow
         /\ SameOrder(Bypass(os, id)[i], os[i])
         /\ Bypass(os, id)[i].next = IF i = os[id].prev THEN os[id].next ELSE os[i].next
         /\ i # os[id].prev => Bypass(os, id)[i].prev =
                                 IF i = os[id].next THEN os[id].prev ELSE os[i].prev
         /\ i = os[id].prev => Bypass(os, id)[i].prev = os[i].prev
<1>1. os[i] \in AnyRow /\ os[id] \in AnyRow
  BY DEF Rows
<1>2. Bypass(os, id)[i] =
        IF i = os[id].prev THEN [os[i] EXCEPT !.next = os[id].next]
        ELSE IF i = os[id].next THEN [os[i] EXCEPT !.prev = os[id].prev]
        ELSE os[i]
  BY DEF Bypass
<1>. QED
  BY <1>1, <1>2 DEF AnyRow, SameOrder

\* Closing up over id keeps the lists of all the others.
LEMMA UnlinkLinked ==
  ASSUME NEW os, Rows(os), NEW hs \in [Sides -> Links], NEW B, B \subseteq DOMAIN os,
         NEW id \in B, NEW rank \in [Ids -> Int], Linked(os, hs, B, rank),
         NEW cs, \A i \in B \ {id} : cs[i] = Bypass(os, id)[i]
  PROVE  /\ HeadAfterUnlink(hs, os, id) \in [Sides -> Links]
         /\ Linked(cs, HeadAfterUnlink(hs, os, id), B \ {id}, rank)
<1>. DEFINE ks == HeadAfterUnlink(hs, os, id)
<1>1. \A i \in B : os[i] \in AnyRow
  BY DEF Rows
<1>2. /\ os[id].side \in Sides /\ os[id].prev \in Links /\ os[id].next \in Links
      /\ id # 0
  BY <1>1 DEF AnyRow, Rows, Ids
<1>3. ks \in [Sides -> Links]
  BY <1>2 DEF HeadAfterUnlink
<1>4. \A i \in B \ {id} :
        /\ SameOrder(cs[i], os[i])
        /\ cs[i].next = IF i = os[id].prev THEN os[id].next ELSE os[i].next
        /\ i # os[id].prev => cs[i].prev = IF i = os[id].next THEN os[id].prev ELSE os[i].prev
        /\ i = os[id].prev => cs[i].prev = os[i].prev
  BY BypassRow
<1>5. \A s \in Sides : ks[s] = IF hs[s] = id THEN os[id].next ELSE hs[s]
  BY <1>2 DEF HeadAfterUnlink, Linked
<1>6. \A i \in B : rank[i] \in Int
  BY DEF Rows
<1>7. os[id].prev # os[id].next \/ os[id].prev = 0
  <2>. SUFFICES ASSUME os[id].prev = os[id].next, os[id].prev # 0 PROVE FALSE
    OBVIOUS
  <2>1. os[id].prev \in B /\ os[os[id].prev].next = id
    BY DEF Linked
  <2>2. rank[os[id].prev] < rank[id] /\ rank[id] < rank[os[id].next]
    BY <2>1, <1>2 DEF Linked
  <2>. QED
    BY <2>1, <2>2, <1>6
<1>8. Linked(cs, ks, B \ {id}, rank)
  <2>1. ASSUME NEW s \in Sides, ks[s] # 0
        PROVE  ks[s] \in B \ {id} /\ cs[ks[s]].side = s /\ cs[ks[s]].prev = 0
    <3>1. CASE hs[s] = id
      BY <2>1, <3>1, <1>2, <1>4, <1>5, <1>6 DEF Linked, SameOrder
    <3>2. CASE hs[s] # id
      BY <2>1, <3>2, <1>2, <1>4, <1>5, <1>6 DEF Linked, SameOrder
    <3>. QED
      BY <3>1, <3>2
  <2>2. ASSUME NEW i \in B \ {id}, cs[i].prev = 0
        PROVE  ks[cs[i].side] = i
    BY <2>2, <1>1, <1>2, <1>4, <1>5, <1>7 DEF Linked, SameOrder, AnyRow
  <2>3. ASSUME NEW i \in B \ {id}, cs[i].prev # 0
        PROVE  cs[i].prev \in B \ {id} /\ cs[cs[i].prev].next = i
    <3>1. CASE i = os[id].next
      <4>1. i # 0 /\ os[id].prev # i
        BY <3>1, <1>7 DEF Rows, Ids
      <4>2. cs[i].prev = os[id].prev
        BY <3>1, <4>1, <1>4
      <4>3. os[id].prev \in B \ {id} /\ os[os[id].prev].next = id
        BY <4>2, <2>3, <1>6 DEF Linked
      <4>. QED
        BY <3>1, <4>2, <4>3, <1>4
    <3>2. CASE i # os[id].next
      <4>1. cs[i].prev = os[i].prev
        BY <3>2, <1>4
      <4>2. os[i].prev \in B /\ os[os[i].prev].next = i
        BY <2>3, <4>1 DEF Linked
      <4>3. os[i].prev # id /\ os[i].prev # os[id].prev
        BY <2>3, <3>2, <4>1, <4>2 DEF Linked
      <4>. QED
        BY <4>1, <4>2, <4>3, <1>4
    <3>. QED
      BY <3>1, <3>2
  <2>4. ASSUME NEW i \in B \ {id}, cs[i].next # 0
        PROVE  /\ cs[i].next \in B \ {id} /\ cs[cs[i].next].prev = i
               /\ cs[cs[i].next].side = cs[i].side
               /\ ~Better(cs[i].side, cs[cs[i].next].price, cs[i].price)
               /\ rank[i] < rank[cs[i].next]
    <3>. DEFINE n == cs[i].next
    <3>1. CASE i = os[id].prev
      <4>1. n = os[id].next /\ n \in B \ {id} /\ n # i
        BY <2>4, <3>1, <1>2, <1>4, <1>6, <1>7 DEF Linked
      <4>2. os[i].next = id
        BY <3>1, <2>4, <1>1 DEF Linked, Rows, Ids
      <4>3. cs[n].prev = i /\ cs[n].side = cs[i].side
        BY <4>1, <4>2, <3>1, <2>4, <1>2, <1>4 DEF Linked, SameOrder
      <4>4. rank[i] < rank[n]
        BY <4>1, <4>2, <2>4, <1>2, <1>6 DEF Linked
      <4>5. ~Better(os[i].side, os[n].price, os[i].price)
        BY <4>1, <4>2, <2>4, <1>1, <1>2 DEF Linked, Better, AnyRow
      <4>. QED
        BY <4>1, <4>3, <4>4, <4>5, <1>4 DEF SameOrder
    <3>2. CASE i # os[id].prev
      <4>1. n = os[i].next /\ n \in B /\ os[n].prev = i
        BY <2>4, <3>2, <1>4 DEF Linked
      <4>2. n # id /\ n # os[id].next
        BY <4>1, <3>2, <2>4 DEF Linked
      <4>3. cs[n].prev = i
        BY <4>1, <4>2, <1>4
      <4>. QED
        BY <4>1, <4>2, <4>3, <2>4, <1>4 DEF Linked, SameOrder
    <3>. QED
      BY <3>1, <3>2
  <2>. QED
    BY <2>1, <2>2, <2>3, <2>4 DEF Linked
<1>. QED
  BY <1>3, <1>8

LEMMA UnlinkLists ==
  ASSUME NEW os, Rows(os), NEW hs \in [Sides -> Links], NEW B, B \subseteq DOMAIN os,
         NEW id \in B, InLists(os, hs, B),
         NEW cs, \A i \in B \ {id} : cs[i] = Bypass(os, id)[i]
  PROVE  /\ HeadAfterUnlink(hs, os, id) \in [Sides -> Links]
         /\ InLists(cs, HeadAfterUnlink(hs, os, id), B \ {id})
BY UnlinkLinked DEF InLists

\* Detached, the order leaves its row behind, out of the lists and unlinked.
LEMMA DetachRows ==
  ASSUME NEW os, Rows(os), NEW id \in DOMAIN os
  PROVE  /\ DOMAIN Detach(os, id) = DOMAIN os
         /\ Rows(Detach(os, id))
         /\ \A i \in DOMAIN os : SameOrder(Detach(os, id)[i], os[i])
         /\ \A i \in DOMAIN os \ {id} : Detach(os, id)[i] = Bypass(os, id)[i]
         /\ Detach(os, id)[id].prev = 0 /\ Detach(os, id)[id].next = 0
<1>. DEFINE cs == Detach(os, id)
<1>1. DOMAIN cs = DOMAIN os /\ \A i \in DOMAIN os \ {id} : cs[i] = Bypass(os, id)[i]
  BY DEF Detach, Bypass
<1>2. \A i \in DOMAIN os : Bypass(os, id)[i] \in AnyRow /\ SameOrder(Bypass(os, id)[i], os[i])
  BY BypassRow
<1>3. cs[id] = [Bypass(os, id)[id] EXCEPT !.prev = 0, !.next = 0]
  BY DEF Detach, Bypass
<1>4. 0 \in Links
  BY BoundAssumption DEF Links
<1>5. cs[id] \in AnyRow /\ SameOrder(cs[id], os[id]) /\ cs[id].prev = 0 /\ cs[id].next = 0
  BY <1>2, <1>3, <1>4 DEF AnyRow, SameOrder
<1>. QED
  BY <1>1, <1>2, <1>5 DEF Rows

LEMMA UnlinkRows ==
  ASSUME NEW os, Rows(os), NEW id \in DOMAIN os
  PROVE  /\ DOMAIN Unlink(os, id) = DOMAIN os \ {id}
         /\ Rows(Unlink(os, id))
         /\ \A i \in DOMAIN os \ {id} : /\ Unlink(os, id)[i] = Bypass(os, id)[i]
                                        /\ SameOrder(Unlink(os, id)[i], os[i])
<1>1. DOMAIN Unlink(os, id) = DOMAIN os \ {id}
  BY DEF Unlink
<1>2. \A i \in DOMAIN os \ {id} : Unlink(os, id)[i] = Bypass(os, id)[i]
  BY DEF Unlink
<1>3. \A i \in DOMAIN os : Bypass(os, id)[i] \in AnyRow /\ SameOrder(Bypass(os, id)[i], os[i])
  BY BypassRow
<1>. QED
  BY <1>1, <1>2, <1>3 DEF Rows

\* The place a detached order came from is a slot it can be put back into.
LEMMA DetachSlot ==
  ASSUME NEW os, Rows(os), NEW hs \in [Sides -> Links], NEW id \in DOMAIN os,
         InLists(os, hs, DOMAIN os)
  PROVE  Slot(Detach(os, id), HeadAfterUnlink(hs, os, id), DOMAIN os \ {id},
              os[id].side, os[id].price, os[id].prev, os[id].next)
<1>. DEFINE cs == Detach(os, id)
            p == os[id].prev
            n == os[id].next
<1>. PICK rank \in [Ids -> Int] : Linked(os, hs, DOMAIN os, rank)
  BY DEF InLists
<1>0. \A i \in DOMAIN os : os[i] \in AnyRow /\ rank[i] \in Int /\ i # 0
  BY DEF Rows, Ids
<1>1. \A i \in DOMAIN os \ {id} : cs[i] = Bypass(os, id)[i] /\ SameOrder(cs[i], os[i])
  BY DetachRows
<1>2. p # 0 => p \in DOMAIN os \ {id} /\ os[p].next = id
  BY <1>0 DEF Linked
<1>3. n # 0 => n \in DOMAIN os \ {id} /\ os[n].prev = id
  BY <1>0 DEF Linked
<1>4. p # 0 => p # n
  BY <1>0, <1>2, <1>3 DEF Linked
<1>5. p # 0 => cs[p].next = n /\ cs[p].side = os[id].side /\ cs[p].price = os[p].price
  BY <1>0, <1>1, <1>2, BypassRow DEF Linked, SameOrder
<1>6. n # 0 => cs[n].prev = p /\ cs[n].side = os[id].side /\ cs[n].price = os[n].price
  BY <1>0, <1>1, <1>3, <1>4, BypassRow DEF Linked, SameOrder
<1>7. p # 0 => ~Better(os[id].side, os[id].price, os[p].price)
  BY <1>0, <1>2 DEF Linked
<1>8. n # 0 => ~Better(os[id].side, os[n].price, os[id].price)
  BY <1>0, <1>3 DEF Linked
<1>9. p = 0 => n = HeadAfterUnlink(hs, os, id)[os[id].side]
  BY <1>0 DEF Linked, HeadAfterUnlink, AnyRow
<1>. QED
  BY <1>2, <1>3, <1>5, <1>6, <1>7, <1>8, <1>9 DEF Slot
-----------------------------------------------------------------------------
\* cs is os with rec at id, between p and n.
PutBetween(cs, os, id, rec, p, n) ==
  /\ SameOrder(cs[id], rec) /\ cs[id].prev = p /\ cs[id].next = n
  /\ \A i \in DOMAIN os \ {id} :
       /\ SameOrder(cs[i], os[i])
       /\ cs[i].next = IF i = p THEN id ELSE os[i].next
       /\ i # p => cs[i].prev = IF i = n THEN id ELSE os[i].prev
       /\ i = p => cs[i].prev = os[i].prev

LEMMA LinkInRows ==
  ASSUME NEW os, Rows(os), NEW id \in Ids, NEW rec \in AnyRow,
         NEW p \in Links, NEW n \in Links
  PROVE  /\ DOMAIN LinkIn(os, id, rec, p, n) = DOMAIN os \cup {id}
         /\ Rows(LinkIn(os, id, rec, p, n))
         /\ PutBetween(LinkIn(os, id, rec, p, n), os, id, rec, p, n)
<1>. DEFINE cs == LinkIn(os, id, rec, p, n)
<1>1. DOMAIN cs = DOMAIN os \cup {id}
  BY DEF LinkIn
<1>2. cs[id] = [rec EXCEPT !.prev = p, !.next = n]
  BY DEF LinkIn
<1>3. cs[id] \in AnyRow /\ SameOrder(cs[id], rec) /\ cs[id].prev = p /\ cs[id].next = n
  BY <1>2 DEF AnyRow, SameOrder
<1>4. ASSUME NEW i \in DOMAIN os \ {id}
      PROVE  /\ cs[i] \in AnyRow
             /\ SameOrder(cs[i], os[i])
             /\ cs[i].next = IF i = p THEN id ELSE os[i].next
             /\ i # p => cs[i].prev = IF i = n THEN id ELSE os[i].prev
             /\ i = p => cs[i].prev = os[i].prev
  <2>1. cs[i] = IF i = p THEN [os[i] EXCEPT !.next = id]
                ELSE IF i = n THEN [os[i] EXCEPT !.prev = id] ELSE os[i]
    BY <1>4 DEF LinkIn
  <2>2. os[i] \in AnyRow /\ id \in Links
    BY DEF Rows, Ids, Links
  <2>. QED
    BY <2>1, <2>2 DEF AnyRow, SameOrder
<1>. QED
  BY <1>1, <1>3, <1>4 DEF Rows, PutBetween

\* An order put into a slot of the lists is in the lists, and they stay sound.
LEMMA LinkInLists ==
  ASSUME NEW os, Rows(os), NEW hs \in [Sides -> Links], NEW B, B \subseteq DOMAIN os,
         NEW id \in Ids, id \notin B, InLists(os, hs, B), NEW rec \in AnyRow,
         NEW p \in Links, NEW n \in Links,
         Slot(os, hs, B, rec.side, rec.price, p, n)
  PROVE  /\ HeadAfterLink(hs, rec.side, id, p) \in [Sides -> Links]
         /\ InLists(LinkIn(os, id, rec, p, n), HeadAfterLink(hs, rec.side, id, p),
                    B \cup {id})
<1>. DEFINE cs == LinkIn(os, id, rec, p, n)
            ks == HeadAfterLink(hs, rec.side, id, p)
<1>. PICK rank \in [Ids -> Int] : Linked(os, hs, B, rank)
  BY DEF InLists
<1>. DEFINE up == [i \in Ids |->
                     IF i # id THEN 2 * rank[i]
                     ELSE IF p # 0 THEN 2 * rank[p] + 1
                     ELSE IF n # 0 THEN 2 * rank[n] - 1 ELSE 0]
<1>0. /\ \A i \in B : os[i] \in AnyRow /\ rank[i] \in Int /\ i # 0 /\ i # id /\ i \in Ids
      /\ id # 0 /\ id \in Links /\ rec.side \in Sides
  BY DEF Rows, Ids, Links, AnyRow
<1>1. up \in [Ids -> Int]
  BY <1>0 DEF Slot
<1>2. ks \in [Sides -> Links] /\ \A s \in Sides : ks[s] = IF s = rec.side /\ p = 0 THEN id ELSE hs[s]
  BY <1>0 DEF HeadAfterLink
<1>3. /\ SameOrder(cs[id], rec) /\ cs[id].prev = p /\ cs[id].next = n
      /\ \A i \in B :
           /\ SameOrder(cs[i], os[i])
           /\ cs[i].next = IF i = p THEN id ELSE os[i].next
           /\ i # p => cs[i].prev = IF i = n THEN id ELSE os[i].prev
           /\ i = p => cs[i].prev = os[i].prev
  <2>1. PutBetween(cs, os, id, rec, p, n)
    BY LinkInRows
  <2>. QED
    BY <2>1, <1>0 DEF PutBetween
<1>4. p # 0 => p # n
  BY <1>0 DEF Slot, Linked
<1>5. p # 0 /\ n # 0 => rank[p] < rank[n]
  BY <1>0 DEF Slot, Linked
<1>6. Linked(cs, ks, B \cup {id}, up)
  <2>1. ASSUME NEW s \in Sides, ks[s] # 0
        PROVE  ks[s] \in B \cup {id} /\ cs[ks[s]].side = s /\ cs[ks[s]].prev = 0
    <3>1. CASE s = rec.side /\ p = 0
      BY <3>1, <1>2, <1>3 DEF SameOrder
    <3>2. CASE ~(s = rec.side /\ p = 0)
      <4>1. ks[s] = hs[s] /\ hs[s] \in B /\ os[hs[s]].side = s /\ os[hs[s]].prev = 0
        BY <2>1, <3>2, <1>2 DEF Linked
      <4>2. hs[s] # n \/ n = 0
        BY <3>2, <4>1 DEF Slot
      <4>. QED
        BY <4>1, <4>2, <1>0, <1>3 DEF SameOrder
    <3>. QED
      BY <3>1, <3>2
  <2>2. ASSUME NEW i \in B \cup {id}, cs[i].prev = 0
        PROVE  ks[cs[i].side] = i
    <3>1. CASE i = id
      BY <3>1, <2>2, <1>0, <1>2, <1>3 DEF SameOrder
    <3>2. CASE i # id
      <4>1. os[i].prev = 0 /\ cs[i].side = os[i].side /\ i \in B
        BY <3>2, <2>2, <1>0, <1>3 DEF SameOrder
      <4>2. hs[os[i].side] = i /\ os[i].side \in Sides
        BY <4>1, <1>0 DEF Linked, AnyRow
      <4>3. ~(os[i].side = rec.side /\ p = 0)
        BY <4>1, <4>2, <2>2, <1>0, <1>3, <1>4 DEF Slot
      <4>. QED
        BY <4>1, <4>2, <4>3, <1>2
    <3>. QED
      BY <3>1, <3>2
  <2>3. ASSUME NEW i \in B \cup {id}, cs[i].prev # 0
        PROVE  cs[i].prev \in B \cup {id} /\ cs[cs[i].prev].next = i
    <3>1. CASE i = id
      BY <3>1, <2>3, <1>3 DEF Slot
    <3>2. CASE i # id /\ i = n
      BY <3>2, <2>3, <1>0, <1>3, <1>4 DEF Slot
    <3>3. CASE i # id /\ i # n
      <4>1. i \in B /\ cs[i].prev = os[i].prev
        BY <3>3, <1>3
      <4>2. os[i].prev \in B /\ os[os[i].prev].next = i
        BY <4>1, <2>3 DEF Linked
      <4>3. os[i].prev # p
        BY <4>2, <3>3, <1>0 DEF Slot
      <4>. QED
        BY <4>1, <4>2, <4>3, <1>3
    <3>. QED
      BY <3>1, <3>2, <3>3
  <2>4. ASSUME NEW i \in B \cup {id}, cs[i].next # 0
        PROVE  /\ cs[i].next \in B \cup {id} /\ cs[cs[i].next].prev = i
               /\ cs[cs[i].next].side = cs[i].side
               /\ ~Better(cs[i].side, cs[cs[i].next].price, cs[i].price)
               /\ up[i] < up[cs[i].next]
    <3>1. CASE i = id
      <4>1. cs[i].next = n /\ n \in B /\ os[n].side = rec.side /\ os[n].prev = p
            /\ ~Better(rec.side, os[n].price, rec.price)
        BY <3>1, <2>4, <1>3 DEF Slot
      <4>2. cs[n].prev = id
        BY <4>1, <1>0, <1>3, <1>4
      <4>3. up[id] < up[n]
        BY <4>1, <1>0, <1>5 DEF Slot
      <4>. QED
        BY <3>1, <4>1, <4>2, <4>3, <1>3 DEF SameOrder
    <3>2. CASE i # id /\ i = p
      <4>1. cs[i].next = id /\ i \in B /\ os[i].side = rec.side
            /\ ~Better(rec.side, rec.price, os[i].price)
        BY <3>2, <1>0, <1>3 DEF Slot
      <4>2. up[i] < up[id]
        BY <3>2, <4>1, <1>0
      <4>. QED
        BY <3>2, <4>1, <4>2, <1>3 DEF SameOrder
    <3>3. CASE i # id /\ i # p
      <4>1. i \in B /\ cs[i].next = os[i].next
        BY <3>3, <1>3
      <4>2. /\ os[i].next \in B /\ os[os[i].next].prev = i
            /\ os[os[i].next].side = os[i].side
            /\ ~Better(os[i].side, os[os[i].next].price, os[i].price)
            /\ rank[i] < rank[os[i].next]
        BY <4>1, <2>4 DEF Linked
      <4>3. os[i].next # n
        BY <4>2, <3>3, <1>0 DEF Slot
      <4>4. up[i] < up[os[i].next]
        BY <4>1, <4>2, <1>0
      <4>. QED
        BY <4>1, <4>2, <4>3, <4>4, <1>3 DEF SameOrder
    <3>. QED
      BY <3>1, <3>2, <3>3
  <2>. QED
    BY <2>1, <2>2, <2>3, <2>4 DEF Linked
<1>. QED
  BY <1>1, <1>2, <1>6 DEF InLists

-----------------------------------------------------------------------------
(* The invariant. *)


Booked == {i \in DOMAIN orders : InBook(i)}
Used == DOMAIN orders \cup DOMAIN claims

-----------------------------------------------------------------------------
(* The locals of the running message. *)
InputRung == [side : Sides, price : Nat \ {0}, amount : Nat, expires : Nat,
              hint : Nat, max : Nat]
PlanRow == [id : Ids, rung : InputRung]
Cursor == [after : Links, next : Links]

PlaceTx == [op : {"place"}, owner : Owners, side : Sides, bps : FeeRates,
            plan : Seq(PlanRow), k : Nat, cursor : Cursor, sent : Nat,
            gross : Int, fees : Int, resting : Nat]
RepriceTx == [op : {"reprice"}, id : Ids, price : Nat \ {0}, old : Row]
WithdrawTx == [op : {"cancel", "claim"}, todo : Seq(Ids), refund : [Sides -> Nat]]
CleanTx == [op : {"clean"}, side : Sides, cur : Links, cleaned : Nat, steps : Nat,
            caps : Nat \X Nat, whole : BOOLEAN]
MatchTx == [op : {"match"}, side : Sides, cur : Links, left : Int, used : Nat,
            cap : Nat, parks : Nat, scans : Nat, bps : FeeRates,
            pool : [rin : Nat, rout : Nat], debit : Int, net : Int, fees : Int,
            whole : BOOLEAN]

TxOK == tx \in {Idle} \cup PlaceTx \cup RepriceTx \cup WithdrawTx \cup CleanTx \cup MatchTx

\* The next link the batch left behind is still the one in storage.
Threaded(s, cursor) ==
  cursor.after # 0 => /\ cursor.after \in Booked /\ orders[cursor.after].side = s
                      /\ orders[cursor.after].next = cursor.next

PlaceOK ==
  tx.op = "place" =>
    /\ nextId - Len(tx.plan) >= 1 /\ tx.k \in 1 .. Len(tx.plan) + 1
    /\ \A j \in 1 .. Len(tx.plan) :
         /\ tx.plan[j].id \in nextId - Len(tx.plan) .. nextId - 1
         /\ ForBook(tx.plan[j].rung, tx.bps) > 0
    /\ \A j, l \in 1 .. Len(tx.plan) : tx.plan[j].id = tx.plan[l].id => j = l
    /\ \A j \in tx.k .. Len(tx.plan) : tx.plan[j].id \notin Used
    /\ tx.gross - tx.fees = tx.resting
    /\ tx.resting = 0 => Used \subseteq 1 .. nextId - Len(tx.plan) - 1
    /\ Threaded(tx.side, tx.cursor)

\* The place the order came from can take it back.
RepriceOK ==
  tx.op = "reprice" =>
    /\ tx.id \in DOMAIN orders /\ SameOrder(orders[tx.id], tx.old)
    /\ orders[tx.id].prev = 0
    /\ Slot(orders, head, Booked, tx.old.side, tx.old.price, tx.old.prev, tx.old.next)

WithdrawOK ==
  tx.op \in {"cancel", "claim"} =>
    /\ \A j, l \in 1 .. Len(tx.todo) : tx.todo[j] = tx.todo[l] => j = l
    /\ \A j \in 1 .. Len(tx.todo) :
         tx.todo[j] \in IF tx.op = "cancel" THEN DOMAIN orders ELSE DOMAIN claims

CursorOK ==
  tx.op \in {"clean", "match"} /\ tx.cur # 0 => tx.cur \in DOMAIN orders

MatchOK == tx.op = "match" => tx.net + tx.fees = tx.debit

-----------------------------------------------------------------------------
(* The insert walk. *)
Walks == [phase : {"probe", "forward", "back", "found", "exceeded"}, side : Sides,
          price : Nat \ {0}, sort : Nat, hint : Nat, max : Nat, cursor : Cursor,
          cur : Links, steps : Nat, prev : Links, next : Links]

InsOK == ins \in {NoWalk} \cup Walks

\* A walk runs exactly while an order waits to be put on the book, and is for it.
WalkFor ==
  /\ ins = NoWalk <=> ~(tx.op = "reprice" \/ (tx.op = "place" /\ tx.k <= Len(tx.plan)))
  /\ tx.op = "reprice" => ins.side = tx.old.side /\ ins.price = tx.price
  /\ tx.op = "place" /\ tx.k <= Len(tx.plan) =>
       ins.side = tx.side /\ ins.price = tx.plan[tx.k].rung.price

\* What the walk knows of the orders around its cursor.
WalkOK ==
  ins # NoWalk =>
    /\ Threaded(ins.side, ins.cursor)
    /\ ins.phase = "found" =>
         Slot(orders, head, Booked, ins.side, ins.price, ins.prev, ins.next)
    /\ ins.phase = "forward" /\ ins.cur = 0 =>
         /\ ins.prev \in Booked /\ orders[ins.prev].side = ins.side
         /\ orders[ins.prev].next = 0
         /\ ~Better(ins.side, ins.price, orders[ins.prev].price)
    /\ ins.phase = "forward" /\ ins.cur # 0 =>
         /\ ins.cur \in Booked /\ orders[ins.cur].side = ins.side
         /\ orders[ins.cur].prev # 0 =>
              ~Better(ins.side, ins.price, orders[orders[ins.cur].prev].price)
    /\ ins.phase = "back" =>
         /\ ins.cur \in Booked /\ orders[ins.cur].side = ins.side
         /\ ~Better(ins.side, orders[ins.cur].price, ins.price)

Listed == InLists(orders, head, Booked)
Numbered == Used \subseteq 1 .. nextId - 1

BookInv == TypeOK /\ NeverInBothPlaces /\ TokensBackEscrow /\ Listed /\ Numbered
TxInv == TxOK /\ PlaceOK /\ RepriceOK /\ WithdrawOK /\ CursorOK /\ MatchOK
WalkInv == InsOK /\ WalkFor /\ WalkOK
IInv == BookInv /\ TxInv /\ WalkInv

-----------------------------------------------------------------------------
(* Facts about one state. *)
LEMMA RowsOfOrders ==
  ASSUME TypeOK
  PROVE  /\ Rows(orders) /\ head \in [Sides -> Links] /\ 0 \in Links /\ Ids \subseteq Links
         /\ 0 \notin DOMAIN orders
         /\ Booked \subseteq DOMAIN orders
         /\ tx.op # "reprice" => Booked = DOMAIN orders
<1>1. Rows(orders) /\ head \in [Sides -> Links]
  BY DEF TypeOK, Rows, Row, AnyRow
<1>2. 0 \in Links /\ Ids \subseteq Links /\ 0 \notin DOMAIN orders
  BY <1>1, BoundAssumption DEF Rows, Links, Ids
<1>3. Booked \subseteq DOMAIN orders
  BY DEF Booked
<1>4. tx.op # "reprice" => Booked = DOMAIN orders
  BY DEF Booked, InBook
<1>. QED
  BY <1>1, <1>2, <1>3, <1>4

LEMMA RowOfAny ==
  ASSUME NEW r \in AnyRow, r.remaining > 0
  PROVE  r \in Row
  BY DEF AnyRow, Row

\* The operation tells which locals the message has.
LEMMA OpOfTx ==
  ASSUME TxOK
  PROVE  /\ tx = Idle => tx.op = "idle"
         /\ tx.op = "idle" => tx = Idle
         /\ tx.op = "place" => tx \in PlaceTx
         /\ tx.op = "reprice" => tx \in RepriceTx
         /\ tx.op \in {"cancel", "claim"} => tx \in WithdrawTx
         /\ tx.op = "clean" => tx \in CleanTx
         /\ tx.op = "match" => tx \in MatchTx
  BY DEF TxOK, Idle, PlaceTx, RepriceTx, WithdrawTx, CleanTx, MatchTx

LEMMA PhaseOfIns ==
  ASSUME InsOK
  PROVE  /\ ins = NoWalk => ins.phase = "none"
         /\ ins.phase # "none" => ins \in Walks /\ ins # NoWalk
         /\ ins # NoWalk => ins \in Walks
  BY DEF InsOK, NoWalk, Walks

\* Fees are whole numbers.
LEMMA FeesAreInt ==
  ASSUME NEW amount \in Int, NEW bps \in FeeRates
  PROVE  /\ MakerFee(amount, bps) \in Int /\ TakerBps(bps) \in Int
         /\ (amount * TakerBps(bps)) \div BPS \in Int
<1>1. bps \in Int /\ BPS \in Int /\ BPS > 0
  BY UnitAssumption, InputAssumption
<1>2. bps \div 2 \in Int
  BY <1>1
<1>3. amount * (bps \div 2) \in Int /\ TakerBps(bps) \in Int
  BY <1>2, <1>1 DEF TakerBps
<1>4. amount * TakerBps(bps) \in Int
  BY <1>3
<1>5. \A x \in Int : x \div BPS \in Int
  BY <1>1
<1>. QED
  BY <1>3, <1>4, <1>5 DEF MakerFee

-----------------------------------------------------------------------------
(* Steps of the environment, and stuttering. *)
LEMMA ConfigStep ==
  ASSUME IInv, UNCHANGED <<book, nextId, claims, money, tx, ins>>,
         now' \in Nat, paused' \in BOOLEAN, drifted' \in BOOLEAN,
         blacklisted' \subseteq Blacklistable, minRemaining' \in [Sides -> Nat],
         maxRungs' \in RungCaps
  PROVE  IInv'
<1>. USE DEF book, money
<1>1. BookInv'
  BY DEF IInv, BookInv, TypeOK, NeverInBothPlaces, TokensBackEscrow, Listed, Numbered,
         Booked, InBook, Used
<1>2. TxInv'
  BY DEF IInv, TxInv, TxOK, PlaceOK, RepriceOK, WithdrawOK, CursorOK, MatchOK,
         Threaded, Booked, InBook, Used
<1>3. WalkInv'
  BY DEF IInv, WalkInv, InsOK, WalkFor, WalkOK, Threaded, Booked, InBook
<1>. QED
  BY <1>1, <1>2, <1>3 DEF IInv

LEMMA EnvironmentStep ==
  ASSUME IInv, Environment
  PROVE  IInv'
<1>. USE DEF IInv, BookInv, TypeOK
<1>1. CASE SetPaused
  BY <1>1, ConfigStep DEF SetPaused
<1>2. CASE CodeIdsChange
  BY <1>2, ConfigStep DEF CodeIdsChange
<1>3. CASE Tick
  BY <1>3, ConfigStep DEF Tick
<1>4. ASSUME NEW who \in Blacklistable, SetBlacklisted(who)
      PROVE  IInv'
  BY <1>4, ConfigStep DEF SetBlacklisted
<1>5. ASSUME NEW s \in Sides, NEW m \in CleanMins, UpdateLimitCleanConfig(s, m)
      PROVE  IInv'
  BY <1>5, ConfigStep, InputAssumption DEF UpdateLimitCleanConfig
<1>6. ASSUME NEW m \in RungCaps, UpdateLimitOrderConfig(m)
      PROVE  IInv'
  BY <1>6, ConfigStep DEF UpdateLimitOrderConfig
<1>. QED
  BY <1>1, <1>2, <1>3, <1>4, <1>5, <1>6 DEF Environment

-----------------------------------------------------------------------------
(* Steps of the insert walk: the book stands still. *)
LEMMA WalkStep ==
  ASSUME IInv, UNCHANGED <<book, nextId, claims, money, config, tx>>,
         InsOK', ins # NoWalk, ins' # NoWalk,
         ins'.side = ins.side, ins'.price = ins.price, ins'.cursor = ins.cursor,
         WalkOK'
  PROVE  IInv'
<1>. USE DEF book, money, config
<1>1. BookInv'
  BY DEF IInv, BookInv, TypeOK, NeverInBothPlaces, TokensBackEscrow, Listed, Numbered,
         Booked, InBook, Used
<1>2. TxInv'
  BY DEF IInv, TxInv, TxOK, PlaceOK, RepriceOK, WithdrawOK, CursorOK, MatchOK,
         Threaded, Booked, InBook, Used
<1>3. WalkFor'
  BY DEF IInv, WalkInv, WalkFor
<1>. QED
  BY <1>1, <1>2, <1>3 DEF IInv, WalkInv

\* Comparing keys compares prices.
LEMMA BeforeIsNotWorse ==
  ASSUME NEW s \in Sides, NEW p \in Nat, NEW q \in Nat, NEW i \in Nat, NEW j \in Nat
  PROVE  /\ Before(s, p, i, q, j) => ~Better(s, q, p)
         /\ ~Before(s, p, i, q, j) => ~Better(s, p, q)
  BY DEF Before, Better

LEMMA NewAgainst ==
  ASSUME TypeOK, ins \in Walks, NEW i \in DOMAIN orders, orders[i].side = ins.side
  PROVE  /\ NewBefore(i) => ~Better(ins.side, orders[i].price, ins.price)
         /\ ~NewBefore(i) => ~Better(ins.side, ins.price, orders[i].price)
         /\ NewAfter(i) => ~Better(ins.side, ins.price, orders[i].price)
         /\ ~NewAfter(i) => ~Better(ins.side, orders[i].price, ins.price)
<1>1. /\ ins.side \in Sides /\ ins.price \in Nat /\ ins.sort \in Nat /\ i \in Nat
      /\ orders[i].price \in Nat
  BY DEF Walks, TypeOK, Row, Ids
<1>. QED
  BY <1>1, BeforeIsNotWorse DEF NewBefore, NewAfter

\* The neighbours of an order in the lists.
LEMMA Neighbours ==
  ASSUME TypeOK, Listed, NEW i \in Booked
  PROVE  /\ orders[i].prev \in Links /\ orders[i].next \in Links
         /\ orders[i].prev = 0 => head[orders[i].side] = i
         /\ orders[i].prev # 0 => /\ orders[i].prev \in Booked
                                  /\ orders[orders[i].prev].next = i
                                  /\ orders[orders[i].prev].side = orders[i].side
         /\ orders[i].next # 0 => /\ orders[i].next \in Booked
                                  /\ orders[orders[i].next].prev = i
                                  /\ orders[orders[i].next].side = orders[i].side
<1>1. PICK rank \in [Ids -> Int] : Linked(orders, head, Booked, rank)
  BY DEF Listed, InLists
<1>2. orders[i] \in Row /\ i # 0
  BY DEF TypeOK, Booked, Ids
<1>. QED
  BY <1>1, <1>2 DEF Linked, Row

LEMMA HeadIsListed ==
  ASSUME Listed, NEW s \in Sides, head[s] # 0
  PROVE  head[s] \in Booked /\ orders[head[s]].side = s /\ orders[head[s]].prev = 0
  BY DEF Listed, InLists, Linked

LEMMA FoundStep ==
  ASSUME IInv, ins # NoWalk, NEW p \in Links, NEW n \in Links, Found(p, n),
         Slot(orders, head, Booked, ins.side, ins.price, p, n),
         UNCHANGED <<book, nextId, claims, money, config, tx>>
  PROVE  IInv'
<1>1. ins \in Walks
  BY PhaseOfIns DEF IInv, WalkInv
<1>2. ins' = [ins EXCEPT !.phase = "found", !.prev = p, !.next = n]
  BY DEF Found
<1>3. /\ ins' \in Walks /\ ins' # NoWalk /\ ins'.phase = "found"
      /\ ins'.side = ins.side /\ ins'.price = ins.price /\ ins'.cursor = ins.cursor
      /\ ins'.prev = p /\ ins'.next = n
  BY <1>1, <1>2 DEF Walks, NoWalk
<1>4. UNCHANGED <<orders, head, tx>>
  BY DEF book
<1>5. WalkOK'
  BY <1>3, <1>4 DEF WalkOK, Threaded, Booked, InBook, IInv, WalkInv
<1>. QED
  BY <1>3, <1>5, WalkStep DEF InsOK

\* The walk goes on in direction dir at from; p is the order it last saw.
WalksOn(dir, from, p) ==
  /\ ins' \in Walks /\ ins'.phase = dir /\ ins'.cur = from /\ ins'.prev = p
  /\ ins'.side = ins.side /\ ins'.price = ins.price /\ ins'.cursor = ins.cursor

LEMMA WalkOnStep ==
  ASSUME IInv, ins # NoWalk, NEW dir \in {"forward", "back"}, NEW from \in Links,
         NEW p \in Links, WalksOn(dir, from, p),
         dir = "forward" /\ from = 0 =>
           /\ p \in Booked /\ orders[p].side = ins.side /\ orders[p].next = 0
           /\ ~Better(ins.side, ins.price, orders[p].price),
         dir = "forward" /\ from # 0 =>
           /\ from \in Booked /\ orders[from].side = ins.side
           /\ orders[from].prev # 0 =>
                ~Better(ins.side, ins.price, orders[orders[from].prev].price),
         dir = "back" =>
           /\ from \in Booked /\ orders[from].side = ins.side
           /\ ~Better(ins.side, orders[from].price, ins.price),
         UNCHANGED <<book, nextId, claims, money, config, tx>>
  PROVE  IInv'
<1>2. /\ ins' \in Walks /\ ins' # NoWalk /\ ins'.phase = dir /\ ins'.cur = from
      /\ ins'.side = ins.side /\ ins'.price = ins.price /\ ins'.cursor = ins.cursor
      /\ ins'.prev = p
  BY DEF Walks, NoWalk, WalksOn
<1>3. UNCHANGED <<orders, head, tx>>
  BY DEF book
<1>4. WalkOK'
  BY <1>2, <1>3 DEF WalkOK, Threaded, Booked, InBook, IInv, WalkInv
<1>. QED
  BY <1>2, <1>4, WalkStep DEF InsOK

LEMMA StepsExceededStep ==
  ASSUME IInv, ins # NoWalk, StepsExceeded,
         UNCHANGED <<book, nextId, claims, money, config, tx>>
  PROVE  IInv'
<1>1. ins \in Walks
  BY PhaseOfIns DEF IInv, WalkInv
<1>2. /\ ins' \in Walks /\ ins' # NoWalk /\ ins'.phase = "exceeded"
      /\ ins'.side = ins.side /\ ins'.price = ins.price /\ ins'.cursor = ins.cursor
  BY <1>1 DEF Walks, NoWalk, StepsExceeded
<1>3. UNCHANGED <<orders, head, tx>>
  BY DEF book
<1>4. WalkOK'
  BY <1>2, <1>3 DEF WalkOK, Threaded, Booked, InBook, IInv, WalkInv
<1>. QED
  BY <1>2, <1>4, WalkStep DEF InsOK

LEMMA ProbeStep ==
  ASSUME IInv, Probe
  PROVE  IInv'
<1>. USE DEF IInv, BookInv, WalkInv, Probe
<1>0. ins # NoWalk /\ ins \in Walks /\ ins.side \in Sides /\ ins.price \in Nat \ {0}
  BY PhaseOfIns DEF Walks
<1>1. /\ Booked \subseteq DOMAIN orders /\ 0 \in Links /\ Ids \subseteq Links
      /\ DOMAIN orders \subseteq Ids /\ 0 \notin DOMAIN orders
  BY RowsOfOrders DEF Rows
<1>2. CASE head[ins.side] = 0 /\ Found(0, 0)
  <2>1. Slot(orders, head, Booked, ins.side, ins.price, 0, 0)
    BY <1>2 DEF Slot
  <2>. QED
    BY <2>1, <1>0, <1>1, <1>2, FoundStep
<1>3. CASE CursorFits /\ Found(ins.cursor.after, ins.cursor.next)
  <2>. DEFINE a == ins.cursor.after
              n == ins.cursor.next
  <2>1. a \in Booked /\ orders[a].side = ins.side /\ orders[a].next = n /\ a \in Links /\ n \in Links
    BY <1>0, <1>3 DEF WalkOK, Threaded, CursorFits, Walks, Cursor
  <2>2. n # 0 => n \in Booked /\ orders[n].prev = a /\ orders[n].side = ins.side
    BY <2>1, Neighbours
  <2>3. ~Better(ins.side, ins.price, orders[a].price)
    BY <2>1, <1>0, <1>1, <1>3, NewAgainst DEF CursorFits
  <2>4. n # 0 => ~Better(ins.side, orders[n].price, ins.price)
    BY <2>2, <1>0, <1>1, <1>3, NewAgainst DEF CursorFits
  <2>5. Slot(orders, head, Booked, ins.side, ins.price, a, n)
    BY <2>1, <2>2, <2>3, <2>4, <1>1 DEF Slot
  <2>. QED
    BY <2>1, <2>5, <1>0, <1>3, FoundStep
<1>4. CASE HintUsable /\ TryHint(ins.hint, orders[ins.hint].next)
  <2>. DEFINE h == ins.hint
              n == orders[ins.hint].next
  <2>1. h \in Booked /\ orders[h].side = ins.side
    <3>1. h \in DOMAIN orders /\ orders[h].side = ins.side /\ (orders[h].prev # 0 \/ head[ins.side] = h)
      BY <1>4 DEF HintUsable, OnSide
    <3>2. tx.op = "reprice" => tx.id # h
      <4>. SUFFICES ASSUME tx.op = "reprice", tx.id = h PROVE FALSE
        OBVIOUS
      <4>1. orders[h].prev = 0
        BY DEF TxInv, RepriceOK
      <4>2. head[ins.side] = h /\ h # 0
        BY <3>1, <4>1, <1>1
      <4>3. h \in Booked
        BY <4>2, <1>0, HeadIsListed
      <4>. QED
        BY <4>3 DEF Booked, InBook
    <3>. QED
      BY <3>1, <3>2 DEF Booked, InBook
  <2>2. n \in Links /\ (n # 0 => n \in Booked /\ orders[n].prev = h /\ orders[n].side = ins.side)
    BY <2>1, Neighbours
  <2>3. h \in Links /\ h # 0 /\ h \in DOMAIN orders
    BY <2>1, <1>1
  <2>4. CASE ~NewAfter(h) /\ Walk("back", h, 1)
    <3>1. ~Better(ins.side, orders[h].price, ins.price)
      BY <2>1, <2>3, <2>4, <1>0, NewAgainst
    <3>2. WalksOn("back", h, ins.prev) /\ ins.prev \in Links
      BY <2>3, <2>4, <1>0 DEF Walk, Walks, WalksOn
    <3>. QED
      BY <3>1, <3>2, <2>1, <2>3, <1>0, WalkOnStep
  <2>5. CASE NewAfter(h) /\ n = 0 /\ Found(h, 0)
    <3>1. Slot(orders, head, Booked, ins.side, ins.price, h, 0)
      BY <2>1, <2>3, <2>5, <1>0, NewAgainst DEF Slot
    <3>. QED
      BY <3>1, <2>3, <2>5, <1>0, <1>1, FoundStep
  <2>6. CASE NewAfter(h) /\ n # 0 /\ NewBefore(n) /\ Found(h, n)
    <3>1. ~Better(ins.side, ins.price, orders[h].price)
      BY <2>1, <2>3, <2>6, <1>0, NewAgainst
    <3>2. ~Better(ins.side, orders[n].price, ins.price)
      BY <2>2, <2>6, <1>0, <1>1, NewAgainst
    <3>3. Slot(orders, head, Booked, ins.side, ins.price, h, n)
      BY <3>1, <3>2, <2>1, <2>2, <2>3 DEF Slot
    <3>. QED
      BY <3>3, <2>2, <2>3, <2>6, <1>0, FoundStep
  <2>7. CASE NewAfter(h) /\ n # 0 /\ ~NewBefore(n) /\ Walk("forward", n, 2)
    <3>1. ~Better(ins.side, ins.price, orders[orders[n].prev].price)
      BY <2>1, <2>2, <2>3, <2>7, <1>0, NewAgainst
    <3>2. WalksOn("forward", n, ins.prev) /\ ins.prev \in Links
      BY <2>2, <2>7, <1>0 DEF Walk, Walks, WalksOn
    <3>. QED
      BY <3>1, <3>2, <2>2, <2>7, <1>0, WalkOnStep
  <2>. QED
    BY <1>4, <2>4, <2>5, <2>6, <2>7 DEF TryHint
<1>5. CASE head[ins.side] # 0 /\ Walk("forward", head[ins.side], IF ins.hint = 0 THEN 0 ELSE 1)
  <2>. DEFINE h == head[ins.side]
  <2>1. h \in Booked /\ orders[h].side = ins.side /\ orders[h].prev = 0
    BY <1>0, <1>5, HeadIsListed
  <2>2. PICK steps \in Nat : Walk("forward", h, steps)
    BY <1>5
  <2>3. h \in Links /\ h # 0
    BY <2>1, <1>1
  <2>4. WalksOn("forward", h, ins.prev) /\ ins.prev \in Links
    BY <2>2, <2>3, <1>0 DEF Walk, Walks, WalksOn
  <2>. QED
    BY <2>1, <2>3, <2>4, <1>0, WalkOnStep
<1>. QED
  BY <1>2, <1>3, <1>4, <1>5

LEMMA WalkForwardStep ==
  ASSUME IInv, WalkForward
  PROVE  IInv'
<1>. USE DEF IInv, BookInv, WalkInv, WalkForward
<1>. DEFINE c == ins.cur
<1>0. ins # NoWalk /\ ins \in Walks /\ ins.side \in Sides /\ c \in Links /\ ins.prev \in Links
  BY PhaseOfIns DEF Walks
<1>1. /\ Booked \subseteq DOMAIN orders /\ 0 \in Links /\ Ids \subseteq Links
      /\ DOMAIN orders \subseteq Ids /\ 0 \notin DOMAIN orders
  BY RowsOfOrders DEF Rows
<1>2. CASE c = 0 /\ Found(ins.prev, 0)
  <2>1. Slot(orders, head, Booked, ins.side, ins.price, ins.prev, 0)
    BY <1>0, <1>1, <1>2 DEF Slot, WalkOK
  <2>. QED
    BY <2>1, <1>0, <1>1, <1>2, FoundStep
<1>3. CASE StepsExceeded
  BY <1>0, <1>3, StepsExceededStep
<1>4. CASE c # 0 /\ NewBefore(c) /\ Found(orders[c].prev, c)
  <2>. DEFINE p == orders[c].prev
  <2>1. c \in Booked /\ orders[c].side = ins.side /\
        (p # 0 => ~Better(ins.side, ins.price, orders[p].price))
    BY <1>0, <1>4 DEF WalkOK
  <2>2. /\ p \in Links /\ (p = 0 => head[ins.side] = c)
        /\ p # 0 => p \in Booked /\ orders[p].next = c /\ orders[p].side = ins.side
    BY <2>1, Neighbours
  <2>3. ~Better(ins.side, orders[c].price, ins.price)
    BY <2>1, <1>0, <1>1, <1>4, NewAgainst
  <2>4. Slot(orders, head, Booked, ins.side, ins.price, p, c)
    BY <2>1, <2>2, <2>3 DEF Slot
  <2>. QED
    BY <2>4, <2>2, <1>0, <1>4, FoundStep
<1>5. CASE /\ c # 0 /\ ~NewBefore(c)
           /\ ins' = [ins EXCEPT !.prev = c, !.steps = @ + 1, !.cur = orders[c].next]
  <2>. DEFINE n == orders[c].next
  <2>1. c \in Booked /\ orders[c].side = ins.side
    BY <1>0, <1>5 DEF WalkOK
  <2>2. /\ n \in Links
        /\ n # 0 => n \in Booked /\ orders[n].prev = c /\ orders[n].side = ins.side
    BY <2>1, Neighbours
  <2>3. ~Better(ins.side, ins.price, orders[c].price)
    BY <2>1, <1>0, <1>1, <1>5, NewAgainst
  <2>4. WalksOn("forward", n, c)
    <3>1. ins.steps + 1 \in Nat /\ ins.phase = "forward" /\ n \in Links
      BY <2>2, <1>0 DEF Walks
    <3>2. ins' \in Walks
      BY <3>1, <1>0, <1>5 DEF Walks
    <3>. QED
      BY <3>1, <3>2, <1>0, <1>5 DEF Walks, WalksOn
  <2>. QED
    BY <2>1, <2>2, <2>3, <2>4, <1>0, WalkOnStep
<1>. QED
  BY <1>2, <1>3, <1>4, <1>5

LEMMA WalkBackStep ==
  ASSUME IInv, WalkBack
  PROVE  IInv'
<1>. USE DEF IInv, BookInv, WalkInv, WalkBack
<1>. DEFINE c == ins.cur
            p == orders[ins.cur].prev
<1>0. ins # NoWalk /\ ins \in Walks /\ ins.side \in Sides /\ c \in Links /\ ins.prev \in Links
  BY PhaseOfIns DEF Walks
<1>1. /\ Booked \subseteq DOMAIN orders /\ 0 \in Links /\ Ids \subseteq Links
      /\ DOMAIN orders \subseteq Ids /\ 0 \notin DOMAIN orders
  BY RowsOfOrders DEF Rows
<1>2. c \in Booked /\ c # 0 /\ orders[c].side = ins.side /\ ~Better(ins.side, orders[c].price, ins.price)
  BY <1>0, <1>1 DEF WalkOK
<1>3. /\ p \in Links /\ (p = 0 => head[ins.side] = c)
      /\ p # 0 => p \in Booked /\ orders[p].next = c /\ orders[p].side = ins.side
  BY <1>2, Neighbours
<1>4. CASE StepsExceeded
  BY <1>0, <1>4, StepsExceededStep
<1>5. CASE (p = 0 \/ NewAfter(p)) /\ Found(p, c)
  <2>1. p # 0 => ~Better(ins.side, ins.price, orders[p].price)
    BY <1>0, <1>1, <1>3, <1>5, NewAgainst
  <2>2. Slot(orders, head, Booked, ins.side, ins.price, p, c)
    BY <2>1, <1>2, <1>3 DEF Slot
  <2>. QED
    BY <2>2, <1>0, <1>3, <1>5, FoundStep
<1>6. CASE p # 0 /\ ~NewAfter(p) /\ ins' = [ins EXCEPT !.cur = p, !.steps = @ + 1]
  <2>1. ~Better(ins.side, orders[p].price, ins.price)
    BY <1>0, <1>1, <1>3, <1>6, NewAgainst
  <2>2. WalksOn("back", p, ins.prev)
    <3>1. ins.steps + 1 \in Nat /\ ins.phase = "back" /\ p \in Links
      BY <1>0, <1>3 DEF Walks
    <3>2. ins' \in Walks
      BY <3>1, <1>0, <1>6 DEF Walks
    <3>. QED
      BY <3>1, <3>2, <1>0, <1>6 DEF Walks, WalksOn
  <2>. QED
    BY <2>1, <2>2, <1>0, <1>3, <1>6, WalkOnStep
<1>. QED
  BY <1>4, <1>5, <1>6

-----------------------------------------------------------------------------
(* Placing a batch. *)
LEMMA WalkBegins ==
  ASSUME NEW s \in Sides, NEW price \in Nat \ {0}, NEW sort \in Nat, NEW hint \in Nat,
         NEW max \in Nat, NEW cursor \in Cursor,
         BeginWalk(s, price, sort, hint, max, cursor)
  PROVE  /\ ins' \in Walks /\ ins' # NoWalk /\ ins'.phase = "probe"
         /\ ins'.side = s /\ ins'.price = price /\ ins'.cursor = cursor
<1>1. 0 \in Links /\ cursor.after \in Nat /\ (IF hint = 0 THEN cursor.after ELSE hint) \in Nat
  BY BoundAssumption DEF Links, Cursor
<1>. QED
  BY <1>1 DEF BeginWalk, Walks, NoWalk

\* The walk for the next rung, or none after the last.
LEMMA RungBegins ==
  ASSUME NEW s \in Sides, NEW plan \in Seq(PlanRow), NEW k \in 1 .. Len(plan) + 1,
         NEW cursor \in Cursor, BeginRung(s, plan, k, cursor),
         tx'.op = "place", tx'.side = s, tx'.plan = plan, tx'.k = k,
         Threaded(s, cursor)'
  PROVE  WalkInv'
<1>1. CASE k > Len(plan)
  <2>1. ins' = NoWalk
    BY <1>1 DEF BeginRung
  <2>. QED
    BY <1>1, <2>1 DEF WalkInv, InsOK, WalkFor, WalkOK
<1>2. CASE ~(k > Len(plan))
  <2>1. k \in 1 .. Len(plan) /\ Len(plan) \in Nat
    BY <1>2, LenProperties
  <2>2. plan[k] \in PlanRow
    BY <2>1, ElementOfSeq
  <2>. DEFINE r == plan[k].rung
              id == plan[k].id
  <2>3. r \in InputRung /\ id \in Nat
    BY <2>2 DEF PlanRow, Ids
  <2>4. r.price \in Nat \ {0} /\ r.hint \in Nat /\ r.max \in Nat
    BY <2>3 DEF InputRung
  <2>5. BeginWalk(s, r.price, id, r.hint, r.max, cursor)
    BY <1>2 DEF BeginRung
  <2>. HIDE DEF r, id
  <2>6. /\ ins' \in Walks /\ ins' # NoWalk /\ ins'.phase = "probe"
        /\ ins'.side = s /\ ins'.price = r.price /\ ins'.cursor = cursor
    BY <2>3, <2>4, <2>5, WalkBegins
  <2>. USE DEF r
  <2>. QED
    BY <2>1, <2>6 DEF WalkInv, InsOK, WalkFor, WalkOK, Threaded
<1>. QED
  BY <1>1, <1>2

LEMMA SeqOfFunction ==
  ASSUME NEW S, NEW n \in Nat, NEW f \in [1 .. n -> S]
  PROVE  f \in Seq(S) /\ Len(f) = n
<1>1. f \in Seq(S)
  BY SeqDef
<1>2. DOMAIN f = 1 .. Len(f) /\ Len(f) \in Nat
  BY <1>1, LenProperties
<1>. QED
  BY <1>1, <1>2

\* The plan has the input's rungs under the reserved ids, each id once.
PlanOK(plan, n, input, rank) ==
  /\ plan \in Seq(PlanRow) /\ Len(plan) = n
  /\ \A k \in 1 .. n : /\ plan[k].id = nextId + rank[k] - 1
                       /\ plan[k].rung = input[rank[k]]
  /\ \A j, k \in 1 .. n : plan[j].id = plan[k].id => j = k

LEMMA PlanOfInput ==
  ASSUME TypeOK, NEW n \in Nat, NEW input \in [1 .. n -> InputRung],
         NEW rank \in [1 .. n -> 1 .. n],
         \A j, k \in 1 .. n : j # k => rank[j] # rank[k],
         nextId + n - 1 <= MaxId
  PROVE  PlanOK(Plan(input, rank), n, input, rank)
<1>. DEFINE plan == Plan(input, rank)
<1>1. plan = [k \in 1 .. n |-> [id |-> nextId + rank[k] - 1, rung |-> input[rank[k]]]]
  BY DEF Plan
<1>2. nextId \in Nat \ {0} /\ MaxId \in Nat
  BY BoundAssumption DEF TypeOK
<1>3. \A k \in 1 .. n : nextId + rank[k] - 1 \in Ids /\ input[rank[k]] \in InputRung /\ rank[k] \in 1 .. n
  BY <1>2 DEF Ids
<1>4. plan \in [1 .. n -> PlanRow]
  BY <1>1, <1>3 DEF PlanRow
<1>5. \A k \in 1 .. n : plan[k].id = nextId + rank[k] - 1 /\ plan[k].rung = input[rank[k]]
  BY <1>1
<1>6. \A j, k \in 1 .. n : plan[j].id = plan[k].id => j = k
  BY <1>2, <1>3, <1>5
<1>. QED
  BY <1>4, <1>5, <1>6, SeqOfFunction DEF PlanOK

LEMMA PlaceBatchStep ==
  ASSUME IInv, NEW o \in Owners, NEW s \in Sides, NEW bps \in FeeRates,
         NEW n \in Nat \ {0}, NEW input \in [1 .. n -> InputRung],
         NEW rank \in [1 .. n -> 1 .. n],
         \A j, k \in 1 .. n : j # k => rank[j] # rank[k],
         PlaceBatch(o, s, input, rank, bps)
  PROVE  IInv'
<1>. DEFINE plan == Plan(input, rank)
<1>0. Len(input) = n /\ DOMAIN input = 1 .. n
  BY SeqOfFunction
<1>1. /\ TypeOK /\ NeverInBothPlaces /\ TokensBackEscrow /\ Listed /\ Numbered
      /\ TxOK /\ tx = Idle /\ tx.op = "idle"
      /\ nextId \in 1 .. MaxId + 1 /\ MaxId \in Nat
  BY OpOfTx, BoundAssumption DEF IInv, BookInv, TxInv, PlaceBatch, TypeOK
<1>2. /\ plan \in Seq(PlanRow) /\ Len(plan) = n
      /\ \A k \in 1 .. n : plan[k].id = nextId + rank[k] - 1 /\ plan[k].rung = input[rank[k]]
      /\ \A j, k \in 1 .. n : plan[j].id = plan[k].id => j = k
  <2>1. nextId + n - 1 <= MaxId
    BY <1>0 DEF PlaceBatch
  <2>2. PlanOK(plan, n, input, rank)
    BY <2>1, <1>1, PlanOfInput
  <2>. QED
    BY <2>2 DEF PlanOK
<1>. HIDE DEF plan
<1>3. /\ tx' = [op |-> "place", owner |-> o, side |-> s, bps |-> bps, plan |-> plan,
                k |-> 1, cursor |-> NoCursor, sent |-> Sent(input), gross |-> 0,
                fees |-> 0, resting |-> 0]
      /\ nextId' = nextId + n /\ nextId + n - 1 <= MaxId /\ Sent(input) \in Nat
      /\ \A k \in 1 .. n : ForBook(input[k], bps) > 0
      /\ BeginRung(s, plan, 1, NoCursor)
      /\ UNCHANGED <<orders, head, claims, escrow, tokens, config>>
  BY <1>0 DEF PlaceBatch, Reserved, plan, book, money, ValidRung
<1>4. NoCursor \in Cursor
  BY BoundAssumption DEF NoCursor, Cursor, Links
<1>5. tx' \in PlaceTx
  BY <1>2, <1>3, <1>4 DEF PlaceTx
<1>6. /\ tx'.op = "place" /\ tx'.plan = plan /\ tx'.k = 1 /\ tx'.bps = bps
      /\ tx'.gross = 0 /\ tx'.fees = 0 /\ tx'.resting = 0 /\ tx'.side = s
      /\ tx'.cursor = NoCursor
  BY <1>3
<1>7. BookInv'
  <2>1. TypeOK'
    <3>1. nextId' \in 1 .. MaxId + 1
      BY <1>1, <1>3
    <3>2. UNCHANGED <<orders, head, claims, escrow, tokens, now, paused, drifted,
                      blacklisted, minRemaining, maxRungs>>
      BY <1>3 DEF config
    <3>. QED
      BY <1>1, <3>1, <3>2 DEF TypeOK
  <2>2. NeverInBothPlaces' /\ TokensBackEscrow'
    BY <1>1, <1>3 DEF NeverInBothPlaces, TokensBackEscrow
  <2>3. Listed'
    BY <1>1, <1>3, <1>6 DEF Listed, Booked, InBook
  <2>4. Numbered'
    BY <1>1, <1>3 DEF Numbered, Used
  <2>. QED
    BY <2>1, <2>2, <2>3, <2>4 DEF BookInv
<1>8. Threaded(s, NoCursor)'
  BY DEF Threaded, NoCursor
<1>9. TxInv'
  <2>1. TxOK'
    BY <1>5 DEF TxOK
  <2>2. \A k \in 1 .. n : rank[k] \in 1 .. n /\ nextId \in Int
    BY <1>1
  <2>3. PlaceOK'
    <3>0. \A j \in 1 .. n : plan[j].id \in nextId .. nextId + n - 1
      <4>. SUFFICES ASSUME NEW j \in 1 .. n
                    PROVE  plan[j].id \in nextId .. nextId + n - 1
        OBVIOUS
      <4>1. plan[j].id = nextId + rank[j] - 1
        BY <1>2
      <4>2. rank[j] \in 1 .. n /\ nextId \in Int
        BY <2>2
      <4>. QED
        BY <4>1, <4>2
    <3>1. \A j \in 1 .. n : plan[j].id \in nextId .. nextId + n - 1 /\ plan[j].id \notin Used
      <4>1. \A i \in Used : i < nextId
        BY <1>1 DEF Numbered
      <4>. QED
        BY <1>1, <3>0, <4>1
    <3>2. \A j \in 1 .. n : ForBook(plan[j].rung, bps) > 0
      <4>. SUFFICES ASSUME NEW j \in 1 .. n
                    PROVE  ForBook(plan[j].rung, bps) > 0
        OBVIOUS
      <4>1. plan[j].rung = input[rank[j]]
        BY <1>2
      <4>2. rank[j] \in 1 .. n
        BY <2>2
      <4>3. ForBook(input[rank[j]], bps) > 0
        BY <1>3, <4>2
      <4>. QED
        BY <4>1, <4>3
    <3>3. nextId' - Len(plan) = nextId /\ nextId' - 1 = nextId + n - 1
      BY <1>1, <1>2, <1>3
    <3>4. Used' = Used /\ Used \subseteq 1 .. nextId - 1
      BY <1>1, <1>3 DEF Used, Numbered
    <3>5. Threaded(tx.side, tx.cursor)'
      BY <1>6 DEF Threaded, NoCursor
    <3>6. \A j \in 1 .. n : plan[j].id \in nextId' - n .. nextId' - 1
      BY <1>2, <3>1, <3>3
    <3>7. \A j \in tx'.k .. Len(tx'.plan) : tx'.plan[j].id \notin Used'
      BY <1>2, <1>6, <3>1, <3>4
    <3>8. nextId' - Len(tx'.plan) >= 1 /\ tx'.k \in 1 .. Len(tx'.plan) + 1
      <4>1. tx'.plan = plan /\ tx'.k = 1
        BY <1>6
      <4>2. Len(plan) = n
        BY <1>2
      <4>3. nextId >= 1 /\ n >= 1
        BY <1>1
      <4>. HIDE DEF plan
      <4>. QED
        BY <3>3, <4>1, <4>2, <4>3
    <3>9. tx'.resting = 0 => Used' \subseteq 1 .. nextId' - Len(tx'.plan) - 1
      BY <1>6, <3>3, <3>4
    <3>10. /\ \A j \in 1 .. Len(tx'.plan) :
                /\ tx'.plan[j].id \in nextId' - Len(tx'.plan) .. nextId' - 1
                /\ ForBook(tx'.plan[j].rung, tx'.bps) > 0
           /\ \A j, l \in 1 .. Len(tx'.plan) : tx'.plan[j].id = tx'.plan[l].id => j = l
           /\ tx'.gross - tx'.fees = tx'.resting
      <4>1. /\ tx'.plan = plan /\ tx'.bps = bps
            /\ tx'.gross = 0 /\ tx'.fees = 0 /\ tx'.resting = 0
        BY <1>6
      <4>2. Len(plan) = n /\ \A j, l \in 1 .. n : plan[j].id = plan[l].id => j = l
        BY <1>2
      <4>. HIDE DEF plan
      <4>. QED
        BY <3>2, <3>6, <4>1, <4>2
    <3>. QED
      BY <3>5, <3>7, <3>8, <3>9, <3>10 DEF PlaceOK
  <2>4. RepriceOK' /\ WithdrawOK' /\ CursorOK' /\ MatchOK'
    BY <1>6 DEF RepriceOK, WithdrawOK, CursorOK, MatchOK
  <2>. QED
    BY <2>1, <2>3, <2>4 DEF TxInv
<1>10. WalkInv'
  BY <1>2, <1>3, <1>4, <1>6, <1>8, RungBegins
<1>. QED
  BY <1>7, <1>9, <1>10 DEF IInv

\* Every placement is a batch of n rungs in some order of their input positions.
LEMMA PlaceIsBatch ==
  ASSUME TypeOK, Place
  PROVE  \E o \in Owners, s \in Sides, bps \in FeeRates, n \in Nat \ {0} :
         \E input \in [1 .. n -> InputRung], rank \in [1 .. n -> 1 .. n] :
           /\ \A j, k \in 1 .. n : j # k => rank[j] # rank[k]
           /\ PlaceBatch(o, s, input, rank, bps)
<1>1. PICK o \in Owners, s \in Sides, bps \in FeeRates, n \in 1 .. maxRungs :
        \E offer \in [1 .. n -> Offers], hint \in [1 .. n -> Hints],
           max \in [1 .. n -> StepCaps], rank \in [1 .. n -> 1 .. n] :
          /\ \A j, k \in 1 .. n : j # k => rank[j] # rank[k]
          /\ PlaceBatch(o, s,
               [k \in 1 .. n |-> [side |-> offer[k].side, price |-> offer[k].price,
                                  amount |-> offer[k].amount,
                                  expires |-> offer[k].expires,
                                  hint |-> hint[k], max |-> max[k]]],
               rank, bps)
  BY DEF Place
<1>2. PICK offer \in [1 .. n -> Offers], hint \in [1 .. n -> Hints],
           max \in [1 .. n -> StepCaps], rank \in [1 .. n -> 1 .. n] :
          /\ \A j, k \in 1 .. n : j # k => rank[j] # rank[k]
          /\ PlaceBatch(o, s,
               [k \in 1 .. n |-> [side |-> offer[k].side, price |-> offer[k].price,
                                  amount |-> offer[k].amount,
                                  expires |-> offer[k].expires,
                                  hint |-> hint[k], max |-> max[k]]],
               rank, bps)
  BY <1>1
<1>. DEFINE input ==
       [k \in 1 .. n |-> [side |-> offer[k].side, price |-> offer[k].price,
                          amount |-> offer[k].amount, expires |-> offer[k].expires,
                          hint |-> hint[k], max |-> max[k]]]
<1>3. n \in Nat \ {0}
  BY InputAssumption DEF TypeOK
<1>4. ASSUME NEW k \in 1 .. n
      PROVE  [side |-> offer[k].side, price |-> offer[k].price,
              amount |-> offer[k].amount, expires |-> offer[k].expires,
              hint |-> hint[k], max |-> max[k]] \in InputRung
  <2>1. offer[k] \in Rung /\ hint[k] \in Nat /\ max[k] \in Nat
    BY InputAssumption
  <2>. QED
    BY <2>1 DEF Rung, InputRung
<1>5. input \in [1 .. n -> InputRung]
  BY <1>4
<1>6. PlaceBatch(o, s, input, rank, bps)
  BY <1>2
<1>. HIDE DEF input
<1>. QED
  BY <1>2, <1>3, <1>5, <1>6

LEMMA PlaceStep ==
  ASSUME IInv, Place
  PROVE  IInv'
<1>1. PICK o \in Owners, s \in Sides, bps \in FeeRates, n \in Nat \ {0} :
        \E input \in [1 .. n -> InputRung], rank \in [1 .. n -> 1 .. n] :
          /\ \A j, k \in 1 .. n : j # k => rank[j] # rank[k]
          /\ PlaceBatch(o, s, input, rank, bps)
  BY PlaceIsBatch DEF IInv, BookInv
<1>. QED
  BY <1>1, PlaceBatchStep

\* The book once an order is put into a slot.
LEMMA BookAfterLink ==
  ASSUME TypeOK, Listed, NEW id \in Ids, id \notin Booked,
         DOMAIN orders \subseteq Booked \cup {id}, NEW rec \in Row,
         NEW p \in Links, NEW n \in Links,
         Slot(orders, head, Booked, rec.side, rec.price, p, n),
         orders' = LinkIn(orders, id, rec, p, n),
         head' = HeadAfterLink(head, rec.side, id, p)
  PROVE  /\ DOMAIN orders' = DOMAIN orders \cup {id}
         /\ DOMAIN orders' \subseteq Ids /\ \A i \in DOMAIN orders' : orders'[i] \in Row
         /\ head' \in [Sides -> Links]
         /\ InLists(orders', head', DOMAIN orders')
         /\ orders'[id].next = n /\ orders'[id].side = rec.side
<1>1. Rows(orders) /\ head \in [Sides -> Links] /\ Booked \subseteq DOMAIN orders /\ rec \in AnyRow
  BY RowsOfOrders DEF Row, AnyRow
<1>2. /\ DOMAIN orders' = DOMAIN orders \cup {id} /\ Rows(orders')
      /\ PutBetween(orders', orders, id, rec, p, n)
  <2>. DEFINE cs == LinkIn(orders, id, rec, p, n)
  <2>1. DOMAIN cs = DOMAIN orders \cup {id}
    BY DEF LinkIn
  <2>2. Rows(cs)
    BY <1>1, LinkInRows
  <2>3. PutBetween(cs, orders, id, rec, p, n)
    BY <1>1, LinkInRows
  <2>. QED
    BY <2>1, <2>2, <2>3
<1>3. head' \in [Sides -> Links] /\ InLists(orders', head', Booked \cup {id})
  BY <1>1, LinkInLists DEF Listed
<1>4. Booked \cup {id} = DOMAIN orders'
  BY <1>1, <1>2
<1>5. ASSUME NEW i \in DOMAIN orders'
      PROVE  orders'[i] \in Row
  <2>1. orders'[i] \in AnyRow
    BY <1>2 DEF Rows
  <2>2. orders'[i].remaining > 0
    <3>1. CASE i = id
      BY <3>1, <1>2 DEF PutBetween, SameOrder, Row
    <3>2. CASE i # id
      BY <3>2, <1>2 DEF PutBetween, SameOrder, Row, TypeOK
    <3>. QED
      BY <3>1, <3>2
  <2>. QED
    BY <2>1, <2>2, RowOfAny
<1>. QED
  BY <1>2, <1>3, <1>4, <1>5 DEF PutBetween, SameOrder, Rows

LEMMA PlaceRungStep ==
  ASSUME IInv, PlaceRung
  PROVE  IInv'
<1>. DEFINE k == tx.k
            m == Len(tx.plan)
            id == tx.plan[tx.k].id
            r == tx.plan[tx.k].rung
            rec == [owner |-> tx.owner, side |-> tx.side, price |-> r.price,
                    remaining |-> ForBook(r, tx.bps), expires |-> r.expires,
                    prev |-> 0, next |-> 0]
            cursor == [after |-> id, next |-> ins.next]
<1>1. /\ TypeOK /\ NeverInBothPlaces /\ TokensBackEscrow /\ Listed /\ Numbered
      /\ tx.op = "place" /\ tx \in PlaceTx /\ PlaceOK
      /\ ins.phase = "found" /\ ins # NoWalk /\ ins \in Walks /\ WalkOK /\ WalkFor
  BY OpOfTx, PhaseOfIns DEF IInv, BookInv, TxInv, WalkInv, PlaceRung
<1>2. /\ orders' = LinkIn(orders, id, rec, ins.prev, ins.next)
      /\ head' = HeadAfterLink(head, tx.side, id, ins.prev)
      /\ tx' = [tx EXCEPT !.k = @ + 1, !.cursor = cursor, !.gross = @ + r.amount,
                          !.fees = @ + MakerFee(r.amount, tx.bps),
                          !.resting = @ + ForBook(r, tx.bps)]
      /\ BeginRung(tx.side, tx.plan, tx.k + 1, cursor)
      /\ UNCHANGED <<nextId, claims, escrow, tokens, config>>
  BY DEF PlaceRung, NextRung, money
<1>3. m \in Nat /\ k \in 1 .. m /\ tx.plan \in Seq(PlanRow) /\ tx.plan[k] \in PlanRow
  <2>1. tx.plan \in Seq(PlanRow)
    BY <1>1 DEF PlaceTx
  <2>2. m \in Nat
    BY <2>1, LenProperties
  <2>3. k \in 1 .. m
    BY <1>1, <2>2 DEF WalkFor, PlaceOK
  <2>. QED
    BY <2>1, <2>2, <2>3, ElementOfSeq
<1>4. id \in Ids /\ r \in InputRung
  BY <1>3 DEF PlanRow
<1>5. /\ tx.side \in Sides /\ tx.owner \in Owners /\ tx.bps \in FeeRates
      /\ r.price \in Nat \ {0} /\ r.amount \in Nat /\ r.expires \in Nat
      /\ tx.gross \in Int /\ tx.fees \in Int /\ tx.resting \in Nat
      /\ ins.prev \in Links /\ ins.next \in Links /\ 0 \in Links /\ Ids \subseteq Links
  BY <1>1, <1>4, RowsOfOrders DEF PlaceTx, InputRung, Walks
<1>6. /\ MakerFee(r.amount, tx.bps) \in Int
      /\ ForBook(r, tx.bps) = r.amount - MakerFee(r.amount, tx.bps)
      /\ ForBook(r, tx.bps) \in Int /\ ForBook(r, tx.bps) > 0
  <2>1. MakerFee(r.amount, tx.bps) \in Int
    BY <1>5, FeesAreInt
  <2>2. ForBook(r, tx.bps) = r.amount - MakerFee(r.amount, tx.bps)
    BY DEF ForBook
  <2>3. ForBook(r, tx.bps) \in Int
    BY <1>5, <2>1, <2>2
  <2>4. \A j \in 1 .. Len(tx.plan) : ForBook(tx.plan[j].rung, tx.bps) > 0
    BY <1>1 DEF PlaceOK
  <2>5. ForBook(r, tx.bps) > 0
    BY <1>3, <2>4
  <2>. QED
    BY <2>1, <2>2, <2>3, <2>5
<1>7. rec \in Row /\ rec.side = tx.side /\ rec.price = r.price
  BY <1>5, <1>6 DEF Row
<1>8. Booked = DOMAIN orders /\ id \notin Used
  BY <1>1, <1>3, RowsOfOrders DEF PlaceOK
<1>9. Slot(orders, head, Booked, rec.side, rec.price, ins.prev, ins.next)
  BY <1>1, <1>3, <1>7 DEF WalkOK, WalkFor
<1>. HIDE DEF rec, id, r, k, m
<1>10. /\ DOMAIN orders' = DOMAIN orders \cup {id}
       /\ DOMAIN orders' \subseteq Ids /\ \A i \in DOMAIN orders' : orders'[i] \in Row
       /\ head' \in [Sides -> Links]
       /\ InLists(orders', head', DOMAIN orders')
       /\ orders'[id].next = ins.next /\ orders'[id].side = rec.side
  BY <1>1, <1>2, <1>4, <1>5, <1>7, <1>8, <1>9, BookAfterLink DEF Used
<1>11. PICK c \in Cursor, s \in Sides : c = cursor /\ s = tx.side
  BY <1>4, <1>5 DEF Cursor
<1>12. /\ tx' \in PlaceTx /\ tx'.op = "place" /\ tx'.side = s /\ tx'.plan = tx.plan
       /\ tx'.k = k + 1 /\ tx'.cursor = c /\ tx'.bps = tx.bps
       /\ tx'.gross = tx.gross + r.amount /\ tx'.fees = tx.fees + MakerFee(r.amount, tx.bps)
       /\ tx'.resting = tx.resting + ForBook(r, tx.bps)
  <2>. DEFINE gross == tx.gross + r.amount
              fees == tx.fees + MakerFee(r.amount, tx.bps)
              resting == tx.resting + ForBook(r, tx.bps)
  <2>1. gross \in Int /\ fees \in Int /\ resting \in Nat /\ k + 1 \in Nat
    <3>1. gross \in Int
      BY <1>5
    <3>2. fees \in Int
      BY <1>5, <1>6
    <3>3. resting \in Nat
      BY <1>5, <1>6
    <3>4. k + 1 \in Nat
      BY <1>3
    <3>. QED
      BY <3>1, <3>2, <3>3, <3>4
  <2>2. tx' = [tx EXCEPT !.k = k + 1, !.cursor = c, !.gross = gross, !.fees = fees,
                         !.resting = resting]
    BY <1>2, <1>11 DEF k
  <2>. HIDE DEF gross, fees, resting
  <2>3. /\ tx' \in PlaceTx /\ tx'.k = k + 1 /\ tx'.cursor = c /\ tx'.gross = gross
        /\ tx'.fees = fees /\ tx'.resting = resting /\ tx'.op = tx.op
        /\ tx'.side = tx.side /\ tx'.plan = tx.plan /\ tx'.bps = tx.bps
    BY <1>1, <1>11, <2>1, <2>2 DEF PlaceTx
  <2>. QED
    BY <1>1, <1>11, <2>3 DEF gross, fees, resting
<1>13. Booked' = DOMAIN orders' /\ Used' = Used \cup {id}
  BY <1>2, <1>10, <1>12 DEF Booked, InBook, Used
<1>14. BookInv'
  <2>1. TypeOK'
    BY <1>1, <1>2, <1>10 DEF TypeOK, config
  <2>2. NeverInBothPlaces' /\ TokensBackEscrow'
    BY <1>1, <1>2, <1>8, <1>10 DEF NeverInBothPlaces, TokensBackEscrow, Used
  <2>3. Listed'
    BY <1>10, <1>13 DEF Listed
  <2>4. Numbered'
    <3>1. id \in nextId - m .. nextId - 1 /\ nextId - m >= 1
      BY <1>1, <1>3 DEF PlaceOK, id, k, m
    <3>2. nextId' = nextId /\ nextId \in Int /\ m \in Int
      BY <1>1, <1>2, <1>3 DEF TypeOK
    <3>3. id \in 1 .. nextId - 1
      BY <3>1, <3>2
    <3>. QED
      BY <1>1, <1>13, <3>2, <3>3 DEF Numbered
  <2>. QED
    BY <2>1, <2>2, <2>3, <2>4 DEF BookInv
<1>15. Threaded(s, c)'
  <2>1. c.after = id /\ c.next = ins.next
    BY <1>11 DEF cursor
  <2>. QED
    BY <2>1, <1>7, <1>10, <1>11, <1>13 DEF Threaded
<1>16. TxInv'
  <2>1. TxOK'
    BY <1>12 DEF TxOK
  <2>2. PlaceOK'
    <3>1. Threaded(tx.side, tx.cursor)'
      BY <1>12, <1>15 DEF Threaded
    <3>2. \A j \in tx'.k .. Len(tx'.plan) : tx'.plan[j].id \notin Used'
      <4>1. tx'.plan = tx.plan /\ tx'.k = k + 1 /\ Len(tx.plan) = m
        BY <1>12 DEF m
      <4>2. /\ \A j \in k .. m : tx.plan[j].id \notin Used
            /\ \A j, l \in 1 .. m : tx.plan[j].id = tx.plan[l].id => j = l
        BY <1>1 DEF PlaceOK, k, m
      <4>3. \A j \in k + 1 .. m : j \in k .. m /\ j \in 1 .. m /\ j # k
        BY <1>3
      <4>4. id = tx.plan[k].id
        BY DEF id, k
      <4>. QED
        BY <1>3, <1>13, <4>1, <4>2, <4>3, <4>4
    <3>3. tx'.k \in 1 .. Len(tx'.plan) + 1
      BY <1>3, <1>12 DEF m
    <3>4. tx'.gross - tx'.fees = tx'.resting /\ tx'.resting # 0
      <4>1. tx.gross - tx.fees = tx.resting
        BY <1>1 DEF PlaceOK
      <4>. DEFINE f == MakerFee(r.amount, tx.bps)
      <4>2. f \in Int /\ tx.resting + (r.amount - f) \in Int /\ r.amount - f > 0
        BY <1>5, <1>6
      <4>3. tx'.resting = tx.resting + (r.amount - f) /\ tx'.gross = tx.gross + r.amount
            /\ tx'.fees = tx.fees + f
        BY <1>6, <1>12
      <4>. HIDE DEF f
      <4>4. tx'.gross - tx'.fees = tx'.resting
        BY <4>1, <4>2, <4>3, <1>5
      <4>5. tx'.resting # 0
        BY <4>2, <4>3, <1>5
      <4>. QED
        BY <4>4, <4>5
    <3>5. /\ nextId' = nextId /\ tx'.plan = tx.plan /\ tx'.bps = tx.bps
      BY <1>2, <1>12
    <3>. QED
      BY <1>1, <1>12, <3>1, <3>2, <3>3, <3>4, <3>5 DEF PlaceOK
  <2>3. RepriceOK' /\ WithdrawOK' /\ CursorOK' /\ MatchOK'
    BY <1>12 DEF RepriceOK, WithdrawOK, CursorOK, MatchOK
  <2>. QED
    BY <2>1, <2>2, <2>3 DEF TxInv
<1>17. WalkInv'
  <2>1. BeginRung(s, tx.plan, k + 1, c) /\ k + 1 \in 1 .. Len(tx.plan) + 1
    BY <1>2, <1>3, <1>11 DEF k, m
  <2>. QED
    BY <2>1, <1>3, <1>12, <1>15, RungBegins
<1>. QED
  BY <1>14, <1>16, <1>17 DEF IInv

\* Between rungs, batches and price updates no walk runs.
LEMMA NoWalkRuns ==
  ASSUME ins' = NoWalk, tx'.op \notin {"place", "reprice"}
  PROVE  WalkInv'
  BY DEF WalkInv, InsOK, WalkFor, WalkOK

LEMMA MessageEnds ==
  ASSUME ins' = NoWalk, tx' = Idle
  PROVE  TxInv' /\ WalkInv'
<1>1. tx'.op = "idle"
  BY DEF Idle
<1>2. TxInv'
  BY <1>1 DEF TxInv, TxOK, PlaceOK, RepriceOK, WithdrawOK, CursorOK, MatchOK
<1>. QED
  BY <1>1, <1>2, NoWalkRuns

LEMMA SkipRungStep ==
  ASSUME IInv, SkipRung
  PROVE  IInv'
<1>. DEFINE k == tx.k
            m == Len(tx.plan)
<1>1. /\ TypeOK /\ NeverInBothPlaces /\ TokensBackEscrow /\ Listed /\ Numbered
      /\ tx.op = "place" /\ tx \in PlaceTx /\ PlaceOK
      /\ ins # NoWalk /\ WalkFor
  BY OpOfTx, PhaseOfIns DEF IInv, BookInv, TxInv, WalkInv, SkipRung
<1>2. /\ tx' = [tx EXCEPT !.k = @ + 1]
      /\ BeginRung(tx.side, tx.plan, tx.k + 1, tx.cursor)
      /\ UNCHANGED <<orders, head, nextId, claims, escrow, tokens, config>>
  BY DEF SkipRung, NextRung, money, book
<1>3. m \in Nat /\ k \in 1 .. m /\ tx.plan \in Seq(PlanRow)
  <2>1. tx.plan \in Seq(PlanRow)
    BY <1>1 DEF PlaceTx
  <2>2. m \in Nat
    BY <2>1, LenProperties
  <2>. QED
    BY <2>1, <2>2, <1>1 DEF WalkFor, PlaceOK
<1>4. PICK c \in Cursor, s \in Sides : c = tx.cursor /\ s = tx.side
  BY <1>1 DEF PlaceTx
<1>5. /\ tx' \in PlaceTx /\ tx'.op = "place" /\ tx'.side = s /\ tx'.plan = tx.plan
      /\ tx'.k = k + 1 /\ tx'.cursor = c /\ tx'.bps = tx.bps
      /\ tx'.gross = tx.gross /\ tx'.fees = tx.fees /\ tx'.resting = tx.resting
  BY <1>1, <1>2, <1>3, <1>4 DEF PlaceTx
<1>6. Booked' = Booked /\ Used' = Used
  BY <1>1, <1>2, <1>5 DEF Booked, InBook, Used
<1>7. BookInv'
  BY <1>1, <1>2, <1>6 DEF BookInv, TypeOK, NeverInBothPlaces, TokensBackEscrow, Listed,
                         Numbered, config
<1>8. Threaded(s, c)'
  BY <1>1, <1>2, <1>4, <1>6 DEF PlaceOK, Threaded
<1>9. TxInv'
  <2>1. TxOK'
    BY <1>5 DEF TxOK
  <2>2. PlaceOK'
    <3>1. Threaded(tx.side, tx.cursor)'
      BY <1>5, <1>8 DEF Threaded
    <3>2. tx'.k \in 1 .. Len(tx'.plan) + 1
      BY <1>3, <1>5
    <3>3. \A j \in tx'.k .. Len(tx'.plan) : tx'.plan[j].id \notin Used'
      BY <1>1, <1>3, <1>5, <1>6 DEF PlaceOK
    <3>. QED
      BY <1>1, <1>2, <1>5, <1>6, <3>1, <3>2, <3>3 DEF PlaceOK
  <2>3. RepriceOK' /\ WithdrawOK' /\ CursorOK' /\ MatchOK'
    BY <1>5 DEF RepriceOK, WithdrawOK, CursorOK, MatchOK
  <2>. QED
    BY <2>1, <2>2, <2>3 DEF TxInv
<1>10. WalkInv'
  <2>1. BeginRung(s, tx.plan, k + 1, c) /\ k + 1 \in 1 .. Len(tx.plan) + 1
    BY <1>2, <1>3, <1>4
  <2>. QED
    BY <2>1, <1>3, <1>5, <1>8, RungBegins
<1>. QED
  BY <1>7, <1>9, <1>10 DEF IInv

LEMMA FinishPlaceStep ==
  ASSUME IInv, FinishPlace
  PROVE  IInv'
<1>. DEFINE m == Len(tx.plan)
            s == tx.side
<1>1. /\ TypeOK /\ NeverInBothPlaces /\ TokensBackEscrow /\ Listed /\ Numbered
      /\ tx.op = "place" /\ tx \in PlaceTx /\ PlaceOK /\ WalkFor
  BY OpOfTx DEF IInv, BookInv, TxInv, WalkInv, FinishPlace
<1>2. /\ tx.k > m /\ tx' = Idle
      /\ UNCHANGED <<orders, head, claims, config, ins>>
      /\ IF tx.resting = 0
         THEN nextId' = nextId - m /\ UNCHANGED <<escrow, tokens>>
         ELSE /\ escrow' = [escrow EXCEPT ![s] = @ + tx.resting]
              /\ tokens' = [tokens EXCEPT ![s] = @ + tx.sent - Refund - tx.fees]
              /\ UNCHANGED nextId
  BY DEF FinishPlace, book, money
<1>3. m \in Nat /\ tx.plan \in Seq(PlanRow)
  <2>1. tx.plan \in Seq(PlanRow)
    BY <1>1 DEF PlaceTx
  <2>. QED
    BY <2>1, LenProperties
<1>4. /\ s \in Sides /\ tx.resting \in Nat /\ tx.sent \in Nat /\ tx.gross \in Int
      /\ tx.fees \in Int /\ tx.k \in Nat
  BY <1>1 DEF PlaceTx
<1>5. ins = NoWalk
  BY <1>1, <1>2, <1>3, <1>4 DEF WalkFor
<1>6. Booked' = Booked /\ Used' = Used
  <2>1. tx'.op = "idle"
    BY <1>2 DEF Idle
  <2>. QED
    BY <1>1, <1>2, <2>1 DEF Booked, InBook, Used
<1>7. /\ nextId' \in 1 .. MaxId + 1 /\ Numbered'
      /\ escrow' \in [Sides -> Nat] /\ tokens' \in [Sides -> Nat] /\ tokens' = escrow'
  <2>0. escrow \in [Sides -> Nat] /\ tokens = escrow /\ nextId \in 1 .. MaxId + 1 /\ MaxId \in Nat
    BY <1>1, BoundAssumption DEF TypeOK, TokensBackEscrow
  <2>1. CASE tx.resting = 0
    <3>1. nextId' = nextId - m /\ nextId - m >= 1 /\ Used \subseteq 1 .. nextId - m - 1
      BY <1>1, <1>2, <2>1 DEF PlaceOK
    <3>. QED
      BY <3>1, <2>0, <2>1, <1>2, <1>3, <1>6 DEF Numbered
  <2>2. CASE tx.resting # 0
    <3>1. nextId' = nextId /\ escrow' = [escrow EXCEPT ![s] = @ + tx.resting]
          /\ tokens' = [tokens EXCEPT ![s] = @ + tx.sent - (tx.sent - tx.gross) - tx.fees]
      BY <1>2, <2>2 DEF Refund
    <3>2. tx.gross - tx.fees = tx.resting
      BY <1>1 DEF PlaceOK
    <3>3. escrow[s] + tx.sent - (tx.sent - tx.gross) - tx.fees = escrow[s] + tx.resting
      BY <3>2, <2>0, <1>4
    <3>4. escrow[s] + tx.resting \in Nat
      BY <2>0, <1>4
    <3>5. Numbered'
      BY <3>1, <1>1, <1>6 DEF Numbered
    <3>. QED
      BY <3>1, <3>3, <3>4, <3>5, <2>0
  <2>. QED
    BY <2>1, <2>2
<1>8. BookInv'
  BY <1>1, <1>2, <1>6, <1>7 DEF BookInv, TypeOK, NeverInBothPlaces, TokensBackEscrow,
                               Listed, config
<1>. QED
  BY <1>2, <1>5, <1>8, MessageEnds DEF IInv

-----------------------------------------------------------------------------
(* Updating a price: out of the lists, then back in. *)
LEMMA UpdatePriceStep ==
  ASSUME IInv, NEW id \in DOMAIN orders, NEW price \in RepricePrices,
         NEW hint \in Hints, NEW max \in StepCaps, UpdatePrice(id, price, hint, max)
  PROVE  IInv'
<1>. DEFINE o == orders[id]
            hs == HeadAfterUnlink(head, orders, id)
<1>1. /\ TypeOK /\ NeverInBothPlaces /\ TokensBackEscrow /\ Listed /\ Numbered
      /\ tx.op = "idle" /\ id \in Ids /\ o \in Row
      /\ price \in Nat \ {0} /\ hint \in Nat /\ max \in Nat
  BY InputAssumption DEF IInv, BookInv, TxInv, TypeOK, UpdatePrice, Idle
<1>2. /\ tx' = [op |-> "reprice", id |-> id, price |-> price, old |-> o]
      /\ orders' = Detach(orders, id) /\ head' = hs
      /\ BeginWalk(o.side, price, SortLast, hint, max, NoCursor)
      /\ UNCHANGED <<nextId, claims, escrow, tokens, config>>
  BY DEF UpdatePrice, money
<1>3. tx' \in RepriceTx /\ tx'.op = "reprice" /\ tx'.id = id /\ tx'.price = price /\ tx'.old = o
  BY <1>1, <1>2 DEF RepriceTx
<1>4. Rows(orders) /\ head \in [Sides -> Links] /\ Booked = DOMAIN orders
  BY <1>1, RowsOfOrders
<1>5. /\ DOMAIN orders' = DOMAIN orders
      /\ \A i \in DOMAIN orders : orders'[i] \in AnyRow /\ SameOrder(orders'[i], orders[i])
      /\ \A i \in DOMAIN orders \ {id} : orders'[i] = Bypass(orders, id)[i]
      /\ orders'[id].prev = 0
  BY <1>2, <1>4, DetachRows DEF Rows
<1>6. head' \in [Sides -> Links] /\ InLists(orders', head', DOMAIN orders \ {id})
  BY <1>1, <1>2, <1>4, <1>5, UnlinkLists DEF Listed
<1>7. Booked' = DOMAIN orders \ {id} /\ Used' = Used
  BY <1>2, <1>3, <1>5 DEF Booked, InBook, Used
<1>8. \A i \in DOMAIN orders : orders'[i] \in Row
  <2>1. \A i \in DOMAIN orders : orders'[i].remaining > 0
    BY <1>1, <1>5 DEF SameOrder, TypeOK, Row
  <2>. QED
    BY <2>1, <1>5, RowOfAny
<1>9. BookInv'
  <2>1. TypeOK'
    BY <1>1, <1>2, <1>5, <1>6, <1>8 DEF TypeOK, config
  <2>2. NeverInBothPlaces' /\ TokensBackEscrow' /\ Numbered'
    BY <1>1, <1>2, <1>5, <1>7 DEF NeverInBothPlaces, TokensBackEscrow, Numbered
  <2>3. Listed'
    BY <1>6, <1>7 DEF Listed
  <2>. QED
    BY <2>1, <2>2, <2>3 DEF BookInv
<1>10. TxInv'
  <2>1. TxOK'
    BY <1>3 DEF TxOK
  <2>2. Slot(orders', head', DOMAIN orders \ {id}, o.side, o.price, o.prev, o.next)
    BY <1>1, <1>2, <1>4, DetachSlot DEF Listed
  <2>3. RepriceOK'
    BY <1>1, <1>3, <1>5, <1>7, <2>2 DEF RepriceOK
  <2>4. PlaceOK' /\ WithdrawOK' /\ CursorOK' /\ MatchOK'
    BY <1>3 DEF PlaceOK, WithdrawOK, CursorOK, MatchOK
  <2>. QED
    BY <2>1, <2>3, <2>4 DEF TxInv
<1>11. WalkInv'
  <2>1. NoCursor \in Cursor /\ o.side \in Sides /\ SortLast \in Nat
    BY <1>1, BoundAssumption DEF NoCursor, Cursor, Links, Row, SortLast
  <2>2. /\ ins' \in Walks /\ ins' # NoWalk /\ ins'.phase = "probe"
        /\ ins'.side = o.side /\ ins'.price = price /\ ins'.cursor = NoCursor
    BY <2>1, <1>1, <1>2, WalkBegins
  <2>3. Threaded(ins.side, ins.cursor)'
    BY <2>2 DEF Threaded, NoCursor
  <2>. QED
    BY <2>2, <2>3, <1>3 DEF WalkInv, InsOK, WalkFor, WalkOK
<1>. QED
  BY <1>9, <1>10, <1>11 DEF IInv

\* The order goes back in: at its new price, or at the old one.
LEMMA RelinkStep ==
  ASSUME IInv, tx.op = "reprice", NEW rec \in Row, rec.side = tx.old.side,
         NEW p \in Links, NEW n \in Links,
         Slot(orders, head, Booked, rec.side, rec.price, p, n),
         orders' = LinkIn(orders, tx.id, rec, p, n),
         head' = HeadAfterLink(head, rec.side, tx.id, p),
         tx' = Idle, ins' = NoWalk, UNCHANGED <<nextId, claims, money, config>>
  PROVE  IInv'
<1>1. /\ TypeOK /\ NeverInBothPlaces /\ TokensBackEscrow /\ Listed /\ Numbered
      /\ tx \in RepriceTx /\ RepriceOK
  BY OpOfTx DEF IInv, BookInv, TxInv
<1>2. /\ tx.id \in Ids /\ tx.id \notin Booked /\ DOMAIN orders \subseteq Booked \cup {tx.id}
      /\ tx.id \in DOMAIN orders
  BY <1>1 DEF RepriceTx, Booked, InBook, RepriceOK
<1>3. /\ DOMAIN orders' = DOMAIN orders \cup {tx.id}
      /\ DOMAIN orders' \subseteq Ids /\ \A i \in DOMAIN orders' : orders'[i] \in Row
      /\ head' \in [Sides -> Links]
      /\ InLists(orders', head', DOMAIN orders')
  BY <1>1, <1>2, BookAfterLink
<1>4. Booked' = DOMAIN orders' /\ Used' = Used
  <2>1. tx'.op = "idle"
    BY DEF Idle
  <2>. QED
    BY <2>1, <1>2, <1>3 DEF Booked, InBook, Used
<1>5. BookInv'
  <2>1. TypeOK'
    BY <1>1, <1>3 DEF TypeOK, config, money
  <2>2. NeverInBothPlaces' /\ TokensBackEscrow' /\ Numbered'
    BY <1>1, <1>2, <1>3, <1>4 DEF NeverInBothPlaces, TokensBackEscrow, Numbered, money
  <2>3. Listed'
    BY <1>3, <1>4 DEF Listed
  <2>. QED
    BY <2>1, <2>2, <2>3 DEF BookInv
<1>. QED
  BY <1>5, MessageEnds DEF IInv

LEMMA RepriceEndStep ==
  ASSUME IInv, Relink \/ RevertUpdatePrice
  PROVE  IInv'
<1>1. tx.op = "reprice" /\ tx \in RepriceTx /\ RepriceOK /\ WalkFor /\ WalkOK /\ InsOK
  BY OpOfTx DEF IInv, TxInv, WalkInv, Relink, RevertUpdatePrice
<1>2. tx.old \in Row /\ tx.price \in Nat \ {0}
  BY <1>1 DEF RepriceTx
<1>3. CASE Relink
  <2>. DEFINE rec == [tx.old EXCEPT !.price = tx.price]
  <2>1. rec \in Row /\ rec.side = tx.old.side /\ rec.price = tx.price
    BY <1>2 DEF Row
  <2>2. /\ orders' = LinkIn(orders, tx.id, rec, ins.prev, ins.next)
        /\ head' = HeadAfterLink(head, tx.old.side, tx.id, ins.prev)
        /\ tx' = Idle /\ ins' = NoWalk /\ ins.phase = "found"
        /\ UNCHANGED <<nextId, claims, money, config>>
    BY <1>3 DEF Relink
  <2>. HIDE DEF rec
  <2>3. ins \in Walks /\ ins # NoWalk
    BY <1>1, <2>2, PhaseOfIns
  <2>4. ins.prev \in Links /\ ins.next \in Links
    BY <2>3 DEF Walks
  <2>5. Slot(orders, head, Booked, rec.side, rec.price, ins.prev, ins.next)
    BY <1>1, <2>1, <2>2, <2>3 DEF WalkFor, WalkOK
  <2>. QED
    BY <1>1, <2>1, <2>2, <2>4, <2>5, RelinkStep
<1>4. CASE RevertUpdatePrice
  <2>1. tx.old.prev \in Links /\ tx.old.next \in Links
    BY <1>2 DEF Row
  <2>2. Slot(orders, head, Booked, tx.old.side, tx.old.price, tx.old.prev, tx.old.next)
    BY <1>1 DEF RepriceOK
  <2>. QED
    BY <1>1, <1>2, <1>4, <2>1, <2>2, RelinkStep DEF RevertUpdatePrice
<1>. QED
  BY <1>3, <1>4

-----------------------------------------------------------------------------
(* Cancelling and claiming. *)

\* A message that takes no order off the book and parks none.
LEMMA BookStands ==
  ASSUME IInv, UNCHANGED <<book, nextId, claims, money, config>>,
         tx.op # "reprice", tx'.op # "reprice"
  PROVE  BookInv' /\ Booked' = DOMAIN orders /\ Used' = Used
<1>1. /\ TypeOK /\ NeverInBothPlaces /\ TokensBackEscrow /\ Listed /\ Numbered
  BY DEF IInv, BookInv
<1>2. UNCHANGED <<orders, head, nextId, claims, escrow, tokens, config>>
  BY DEF book, money
<1>3. Booked = DOMAIN orders /\ Booked' = DOMAIN orders /\ Used' = Used
  BY <1>2 DEF Booked, InBook, Used
<1>. QED
  BY <1>1, <1>2, <1>3 DEF BookInv, TypeOK, NeverInBothPlaces, TokensBackEscrow, Listed,
                         Numbered, config

LEMMA WithdrawStep ==
  ASSUME IInv, NEW o \in Owners, NEW ids \in IdLists, Cancel(o, ids) \/ Claim(o, ids)
  PROVE  IInv'
<1>1. TypeOK /\ TxOK /\ InsOK /\ WalkFor
  BY DEF IInv, BookInv, TxInv, WalkInv
<1>2. PICK op \in {"cancel", "claim"} :
        /\ tx = Idle /\ tx' = [op |-> op, todo |-> ids, refund |-> [s \in Sides |-> 0]]
        /\ \A j, k \in DOMAIN ids : j # k => ids[j] # ids[k]
        /\ \A k \in DOMAIN ids :
             ids[k] \in IF op = "cancel" THEN DOMAIN orders ELSE DOMAIN claims
        /\ UNCHANGED <<book, nextId, claims, money, config, ins>>
  <2>1. CASE Cancel(o, ids)
    BY <2>1 DEF Cancel, Withdraw
  <2>2. CASE Claim(o, ids)
    BY <2>2 DEF Claim, Withdraw
  <2>. QED
    BY <2>1, <2>2
<1>3. PICK n \in 1 .. maxRungs : ids \in [1 .. n -> Ids]
  BY DEF IdLists
<1>4. n \in Nat /\ ids \in Seq(Ids) /\ Len(ids) = n /\ DOMAIN ids = 1 .. n
  BY <1>1, <1>3, InputAssumption, SeqOfFunction DEF TypeOK
<1>5. tx.op = "idle" /\ tx'.op = op /\ tx'.todo = ids /\ tx' \in WithdrawTx
  <2>1. [s \in Sides |-> 0] \in [Sides -> Nat]
    OBVIOUS
  <2>. QED
    BY <2>1, <1>2, <1>4 DEF Idle, WithdrawTx
<1>6. BookInv'
  BY <1>2, <1>5, BookStands
<1>7. TxInv'
  <2>1. TxOK'
    BY <1>5 DEF TxOK
  <2>2. orders' = orders /\ claims' = claims
    BY <1>2 DEF book
  <2>3. WithdrawOK'
    BY <1>2, <1>4, <1>5, <2>2 DEF WithdrawOK
  <2>4. PlaceOK' /\ RepriceOK' /\ CursorOK' /\ MatchOK'
    BY <1>5 DEF PlaceOK, RepriceOK, CursorOK, MatchOK
  <2>. QED
    BY <2>1, <2>3, <2>4 DEF TxInv
<1>8. WalkInv'
  <2>1. ins' = NoWalk
    BY <1>1, <1>2, <1>5 DEF WalkFor
  <2>. QED
    BY <2>1, <1>5, NoWalkRuns
<1>. QED
  BY <1>6, <1>7, <1>8 DEF IInv

\* One id is done: the others are still distinct and still in their rows.
LEMMA OneRefunded ==
  ASSUME IInv, tx.op \in {"cancel", "claim"}, tx.todo # <<>>,
         NEW row, row.side \in Sides, row.remaining \in Nat, Refunded(row)
  PROVE  /\ tx'.op = tx.op /\ tx' \in WithdrawTx
         /\ Head(tx.todo) \in IF tx.op = "cancel" THEN DOMAIN orders ELSE DOMAIN claims
         /\ \A j, l \in 1 .. Len(tx'.todo) : tx'.todo[j] = tx'.todo[l] => j = l
         /\ \A j \in 1 .. Len(tx'.todo) :
              /\ tx'.todo[j] # Head(tx.todo)
              /\ tx'.todo[j] \in IF tx.op = "cancel" THEN DOMAIN orders ELSE DOMAIN claims
<1>1. tx \in WithdrawTx /\ WithdrawOK
  BY OpOfTx DEF IInv, TxInv
<1>2. tx.todo \in Seq(Ids) /\ tx.refund \in [Sides -> Nat] /\ Len(tx.todo) \in Nat
  BY <1>1, LenProperties DEF WithdrawTx
<1>. DEFINE t == Tail(tx.todo)
            rf == [tx.refund EXCEPT ![row.side] = @ + row.remaining]
<1>3. /\ t \in Seq(Ids) /\ Len(t) = Len(tx.todo) - 1 /\ Head(tx.todo) = tx.todo[1]
      /\ Len(tx.todo) >= 1
      /\ \A j \in 1 .. Len(t) : t[j] = tx.todo[j + 1]
  BY <1>2, HeadTailProperties, EmptySeq, LenProperties
<1>4. rf \in [Sides -> Nat]
  BY <1>2
<1>5. tx' = [tx EXCEPT !.todo = t, !.refund = rf]
  BY <1>1 DEF Refunded, WithdrawTx
<1>. HIDE DEF t, rf
<1>6. tx' \in WithdrawTx /\ tx'.op = tx.op /\ tx'.todo = t
  BY <1>1, <1>3, <1>4, <1>5 DEF WithdrawTx
<1>7. /\ 1 \in 1 .. Len(tx.todo)
      /\ \A j \in 1 .. Len(t) : j + 1 \in 1 .. Len(tx.todo) /\ j + 1 # 1
  BY <1>2, <1>3
<1>8. /\ \A j, l \in 1 .. Len(tx.todo) : tx.todo[j] = tx.todo[l] => j = l
      /\ \A j \in 1 .. Len(tx.todo) :
           tx.todo[j] \in IF tx.op = "cancel" THEN DOMAIN orders ELSE DOMAIN claims
  BY <1>1 DEF WithdrawOK
<1>9. Head(tx.todo) \in IF tx.op = "cancel" THEN DOMAIN orders ELSE DOMAIN claims
  BY <1>3, <1>7, <1>8
<1>10. ASSUME NEW j \in 1 .. Len(t), NEW l \in 1 .. Len(t), t[j] = t[l]
       PROVE  j = l
  <2>1. tx.todo[j + 1] = tx.todo[l + 1]
    BY <1>3, <1>10
  <2>2. j + 1 = l + 1
    BY <2>1, <1>7, <1>8
  <2>. QED
    BY <2>2, <1>2, <1>3
<1>11. ASSUME NEW j \in 1 .. Len(t)
       PROVE  /\ t[j] # Head(tx.todo)
              /\ t[j] \in IF tx.op = "cancel" THEN DOMAIN orders ELSE DOMAIN claims
  BY <1>3, <1>7, <1>8
<1>. QED
  BY <1>6, <1>9, <1>10, <1>11

\* Rows os are the orders, but that id's remaining amount may have changed.
Kept(os, id) ==
  /\ DOMAIN os = DOMAIN orders /\ os[id] \in AnyRow
  /\ os[id].side = orders[id].side /\ os[id].price = orders[id].price
  /\ os[id].owner = orders[id].owner
  /\ os[id].prev = orders[id].prev /\ os[id].next = orders[id].next
  /\ \A i \in DOMAIN orders \ {id} : os[i] = orders[i]

\* Amounts play no part in the lists.
LEMMA KeptLists ==
  ASSUME TypeOK, Listed, tx.op # "reprice", NEW id \in DOMAIN orders, NEW os, Kept(os, id)
  PROVE  Rows(os) /\ InLists(os, head, DOMAIN orders)
<1>1. Booked = DOMAIN orders /\ Rows(orders)
  BY RowsOfOrders
<1>2. Rows(os)
  BY <1>1 DEF Rows, Kept
<1>3. PICK rank \in [Ids -> Int] : Linked(orders, head, DOMAIN orders, rank)
  BY <1>1 DEF Listed, InLists
<1>4. \A i \in DOMAIN orders :
        /\ os[i].side = orders[i].side /\ os[i].price = orders[i].price
        /\ os[i].prev = orders[i].prev /\ os[i].next = orders[i].next
  BY DEF Kept
<1>5. Linked(os, head, DOMAIN orders, rank)
  BY <1>3, <1>4 DEF Linked
<1>. QED
  BY <1>2, <1>5 DEF InLists

\* The book once an order has left it.
LEMMA BookAfterUnlink ==
  ASSUME TypeOK, Listed, tx.op # "reprice", NEW id \in DOMAIN orders, NEW os, Kept(os, id),
         orders' = Unlink(os, id), head' = HeadAfterUnlink(head, os, id)
  PROVE  /\ DOMAIN orders' = DOMAIN orders \ {id}
         /\ \A i \in DOMAIN orders' : orders'[i] \in Row
         /\ head' \in [Sides -> Links]
         /\ InLists(orders', head', DOMAIN orders')
<1>1. Rows(os) /\ InLists(os, head, DOMAIN orders) /\ head \in [Sides -> Links]
  BY KeptLists, RowsOfOrders
<1>2. DOMAIN os = DOMAIN orders /\ \A i \in DOMAIN orders \ {id} : os[i] = orders[i]
  BY DEF Kept
<1>3. /\ DOMAIN orders' = DOMAIN orders \ {id} /\ Rows(orders')
      /\ \A i \in DOMAIN orders \ {id} : /\ orders'[i] = Bypass(os, id)[i]
                                         /\ SameOrder(orders'[i], orders[i])
  <2>1. /\ DOMAIN Unlink(os, id) = DOMAIN os \ {id} /\ Rows(Unlink(os, id))
        /\ \A i \in DOMAIN os \ {id} : /\ Unlink(os, id)[i] = Bypass(os, id)[i]
                                       /\ SameOrder(Unlink(os, id)[i], os[i])
    <3>1. id \in DOMAIN os
      BY <1>2
    <3>. QED
      BY <3>1, <1>1, UnlinkRows
  <2>. QED
    BY <2>1, <1>2
<1>4. head' \in [Sides -> Links] /\ InLists(orders', head', DOMAIN orders \ {id})
  BY <1>1, <1>2, <1>3, UnlinkLists
<1>5. ASSUME NEW i \in DOMAIN orders'
      PROVE  orders'[i] \in Row
  <2>1. orders'[i] \in AnyRow /\ orders'[i].remaining > 0
    BY <1>3 DEF Rows, SameOrder, TypeOK, Row
  <2>. QED
    BY <2>1, RowOfAny
<1>. QED
  BY <1>3, <1>4, <1>5

LEMMA CancelOneStep ==
  ASSUME IInv, CancelOne
  PROVE  IInv'
<1>. DEFINE id == Head(tx.todo)
<1>1. /\ TypeOK /\ NeverInBothPlaces /\ TokensBackEscrow /\ Listed /\ Numbered
      /\ InsOK /\ WalkFor
  BY DEF IInv, BookInv, WalkInv
<1>2. /\ tx.op = "cancel" /\ tx.todo # <<>> /\ Refunded(orders[id])
      /\ orders' = Unlink(orders, id) /\ head' = HeadAfterUnlink(head, orders, id)
      /\ UNCHANGED <<nextId, claims, escrow, tokens, config, ins>>
  BY DEF CancelOne, money
<1>3. id \in DOMAIN orders
  <2>1. tx \in WithdrawTx /\ WithdrawOK
    BY <1>2, OpOfTx DEF IInv, TxInv
  <2>2. tx.todo \in Seq(Ids)
    BY <2>1 DEF WithdrawTx
  <2>3. id = tx.todo[1] /\ 1 \in 1 .. Len(tx.todo)
    BY <2>2, <1>2, EmptySeq, LenProperties
  <2>. QED
    BY <2>1, <2>3, <1>2 DEF WithdrawOK
<1>4. orders[id] \in Row /\ orders[id].side \in Sides /\ orders[id].remaining \in Nat
  BY <1>1, <1>3 DEF TypeOK, Row
<1>5. /\ tx'.op = "cancel" /\ tx' \in WithdrawTx
      /\ \A j, l \in 1 .. Len(tx'.todo) : tx'.todo[j] = tx'.todo[l] => j = l
      /\ \A j \in 1 .. Len(tx'.todo) : tx'.todo[j] # id /\ tx'.todo[j] \in DOMAIN orders
  BY <1>2, <1>4, OneRefunded
<1>. HIDE DEF id
<1>6. /\ DOMAIN orders' = DOMAIN orders \ {id}
      /\ \A i \in DOMAIN orders' : orders'[i] \in Row
      /\ head' \in [Sides -> Links]
      /\ InLists(orders', head', DOMAIN orders')
  <2>1. Kept(orders, id)
    BY <1>4 DEF Kept, Row, AnyRow
  <2>. QED
    BY <2>1, <1>1, <1>2, <1>3, BookAfterUnlink
<1>7. Booked' = DOMAIN orders'
  BY <1>5 DEF Booked, InBook
<1>8. BookInv'
  <2>1. TypeOK'
    BY <1>1, <1>2, <1>6 DEF TypeOK, config
  <2>2. NeverInBothPlaces' /\ TokensBackEscrow' /\ Numbered'
    BY <1>1, <1>2, <1>6 DEF NeverInBothPlaces, TokensBackEscrow, Numbered, Used
  <2>3. Listed'
    BY <1>6, <1>7 DEF Listed
  <2>. QED
    BY <2>1, <2>2, <2>3 DEF BookInv
<1>9. TxInv'
  <2>1. WithdrawOK'
    BY <1>5, <1>6 DEF WithdrawOK
  <2>. QED
    BY <2>1, <1>5 DEF TxInv, TxOK, PlaceOK, RepriceOK, CursorOK, MatchOK
<1>10. WalkInv'
  BY <1>1, <1>2, <1>5, NoWalkRuns DEF WalkFor
<1>. QED
  BY <1>8, <1>9, <1>10 DEF IInv

LEMMA ClaimOneStep ==
  ASSUME IInv, ClaimOne
  PROVE  IInv'
<1>. DEFINE id == Head(tx.todo)
<1>1. /\ TypeOK /\ NeverInBothPlaces /\ TokensBackEscrow /\ Listed /\ Numbered
      /\ InsOK /\ WalkFor
  BY DEF IInv, BookInv, WalkInv
<1>2. /\ tx.op = "claim" /\ tx.todo # <<>> /\ Refunded(claims[id])
      /\ claims' = [i \in DOMAIN claims \ {id} |-> claims[i]]
      /\ UNCHANGED <<orders, head, nextId, escrow, tokens, config, ins>>
  BY DEF ClaimOne, money, book
<1>3. id \in DOMAIN claims
  <2>1. tx \in WithdrawTx /\ WithdrawOK
    BY <1>2, OpOfTx DEF IInv, TxInv
  <2>2. tx.todo \in Seq(Ids)
    BY <2>1 DEF WithdrawTx
  <2>3. id = tx.todo[1] /\ 1 \in 1 .. Len(tx.todo)
    BY <2>2, <1>2, EmptySeq, LenProperties
  <2>. QED
    BY <2>1, <2>3, <1>2 DEF WithdrawOK
<1>4. claims[id].side \in Sides /\ claims[id].remaining \in Nat
  BY <1>1, <1>3 DEF TypeOK, ClaimRow
<1>5. /\ tx'.op = "claim" /\ tx' \in WithdrawTx
      /\ \A j, l \in 1 .. Len(tx'.todo) : tx'.todo[j] = tx'.todo[l] => j = l
      /\ \A j \in 1 .. Len(tx'.todo) : tx'.todo[j] # id /\ tx'.todo[j] \in DOMAIN claims
  BY <1>2, <1>4, OneRefunded
<1>. HIDE DEF id
<1>6. DOMAIN claims' = DOMAIN claims \ {id} /\ \A i \in DOMAIN claims' : claims'[i] = claims[i]
  BY <1>2
<1>7. Booked' = Booked /\ Used' \subseteq Used
  BY <1>2, <1>5, <1>6 DEF Booked, InBook, Used
<1>8. BookInv'
  <2>1. TypeOK'
    BY <1>1, <1>2, <1>6 DEF TypeOK, config
  <2>2. NeverInBothPlaces' /\ TokensBackEscrow' /\ Numbered' /\ Listed'
    BY <1>1, <1>2, <1>6, <1>7 DEF NeverInBothPlaces, TokensBackEscrow, Numbered, Listed
  <2>. QED
    BY <2>1, <2>2 DEF BookInv
<1>9. TxInv'
  <2>1. WithdrawOK'
    BY <1>5, <1>6 DEF WithdrawOK
  <2>. QED
    BY <2>1, <1>5 DEF TxInv, TxOK, PlaceOK, RepriceOK, CursorOK, MatchOK
<1>10. WalkInv'
  BY <1>1, <1>2, <1>5, NoWalkRuns DEF WalkFor
<1>. QED
  BY <1>8, <1>9, <1>10 DEF IInv

\* The message ends with its payout made: tokens and escrow fall alike.
LEMMA PaidStep ==
  ASSUME IInv, tx.op \notin {"place", "reprice"}, tx' = Idle,
         UNCHANGED <<book, nextId, claims, config, ins>>,
         escrow' \in [Sides -> Nat], tokens' = escrow'
  PROVE  IInv'
<1>1. /\ TypeOK /\ NeverInBothPlaces /\ TokensBackEscrow /\ Listed /\ Numbered
      /\ InsOK /\ WalkFor
  BY DEF IInv, BookInv, WalkInv
<1>2. UNCHANGED <<orders, head, nextId, claims, config, ins>> /\ tx'.op = "idle"
  BY DEF book, Idle
<1>3. Booked = DOMAIN orders /\ Booked' = DOMAIN orders /\ Used' = Used
  BY <1>2 DEF Booked, InBook, Used
<1>4. BookInv'
  BY <1>1, <1>2, <1>3 DEF BookInv, TypeOK, NeverInBothPlaces, TokensBackEscrow, Listed,
                         Numbered, config
<1>5. ins' = NoWalk
  BY <1>1, <1>2 DEF WalkFor
<1>. QED
  BY <1>4, <1>5, MessageEnds DEF IInv

LEMMA FinishWithdrawStep ==
  ASSUME IInv, FinishWithdraw
  PROVE  IInv'
<1>1. TypeOK /\ TokensBackEscrow /\ tx \in WithdrawTx /\ tx.op \notin {"place", "reprice"}
  BY OpOfTx DEF IInv, BookInv, TxInv, FinishWithdraw
<1>2. /\ escrow' = [s \in Sides |-> escrow[s] - tx.refund[s]]
      /\ tokens' = [s \in Sides |-> tokens[s] - tx.refund[s]]
      /\ \A s \in Sides : escrow[s] >= tx.refund[s]
      /\ tx' = Idle /\ UNCHANGED <<book, nextId, claims, config, ins>>
  BY DEF FinishWithdraw
<1>3. tx.refund \in [Sides -> Nat] /\ escrow \in [Sides -> Nat] /\ tokens = escrow
  BY <1>1 DEF WithdrawTx, TypeOK, TokensBackEscrow
<1>4. escrow' \in [Sides -> Nat] /\ tokens' = escrow'
  BY <1>2, <1>3
<1>. QED
  BY <1>1, <1>2, <1>4, PaidStep

-----------------------------------------------------------------------------
(* Cleaning and matching. *)

\* An order leaves the book for the claims.
LEMMA ParkKeeps ==
  ASSUME BookInv, tx.op # "reprice", tx'.op # "reprice", NEW id \in DOMAIN orders,
         NEW os, Kept(os, id), os[id].remaining > 0, NEW reason \in Reasons,
         Park(os, id, reason), UNCHANGED <<nextId, money, config>>
  PROVE  BookInv' /\ DOMAIN orders' = DOMAIN orders \ {id}
<1>1. /\ TypeOK /\ NeverInBothPlaces /\ TokensBackEscrow /\ Listed /\ Numbered
  BY DEF BookInv
<1>2. /\ orders' = Unlink(os, id) /\ head' = HeadAfterUnlink(head, os, id)
      /\ claims' = [i \in DOMAIN claims \cup {id} |->
           IF i = id THEN [owner |-> os[id].owner, side |-> os[id].side,
                           remaining |-> os[id].remaining, reason |-> reason]
           ELSE claims[i]]
      /\ UNCHANGED <<nextId, escrow, tokens, config>>
  BY DEF Park, money
<1>3. /\ DOMAIN orders' = DOMAIN orders \ {id}
      /\ \A i \in DOMAIN orders' : orders'[i] \in Row
      /\ head' \in [Sides -> Links]
      /\ InLists(orders', head', DOMAIN orders')
  BY <1>1, <1>2, BookAfterUnlink
<1>4. Booked' = DOMAIN orders' /\ Used' = Used
  BY <1>2, <1>3 DEF Booked, InBook, Used
<1>5. DOMAIN claims' \subseteq Ids /\ \A i \in DOMAIN claims' : claims'[i] \in ClaimRow
  <2>1. [owner |-> os[id].owner, side |-> os[id].side,
         remaining |-> os[id].remaining, reason |-> reason] \in ClaimRow
    BY DEF Kept, AnyRow, ClaimRow
  <2>. QED
    BY <2>1, <1>1, <1>2 DEF TypeOK
<1>6. TypeOK'
  BY <1>1, <1>2, <1>3, <1>5 DEF TypeOK, config
<1>7. NeverInBothPlaces' /\ TokensBackEscrow' /\ Numbered' /\ Listed'
  BY <1>1, <1>2, <1>3, <1>4 DEF NeverInBothPlaces, TokensBackEscrow, Numbered, Listed
<1>. QED
  BY <1>3, <1>6, <1>7 DEF BookInv

\* A spent order leaves the book for good.
LEMMA SpentKeeps ==
  ASSUME BookInv, tx.op # "reprice", tx'.op # "reprice", NEW id \in DOMAIN orders,
         NEW os, Kept(os, id), orders' = Unlink(os, id),
         head' = HeadAfterUnlink(head, os, id), UNCHANGED <<nextId, claims, money, config>>
  PROVE  BookInv' /\ DOMAIN orders' = DOMAIN orders \ {id}
<1>1. /\ TypeOK /\ NeverInBothPlaces /\ TokensBackEscrow /\ Listed /\ Numbered
  BY DEF BookInv
<1>2. UNCHANGED <<nextId, claims, escrow, tokens, config>>
  BY DEF money
<1>3. /\ DOMAIN orders' = DOMAIN orders \ {id}
      /\ \A i \in DOMAIN orders' : orders'[i] \in Row
      /\ head' \in [Sides -> Links]
      /\ InLists(orders', head', DOMAIN orders')
  BY <1>1, BookAfterUnlink
<1>4. Booked' = DOMAIN orders' /\ Used' \subseteq Used
  BY <1>2, <1>3 DEF Booked, InBook, Used
<1>5. TypeOK'
  BY <1>1, <1>2, <1>3 DEF TypeOK, config
<1>6. NeverInBothPlaces' /\ TokensBackEscrow' /\ Numbered' /\ Listed'
  BY <1>1, <1>2, <1>3, <1>4 DEF NeverInBothPlaces, TokensBackEscrow, Numbered, Listed
<1>. QED
  BY <1>3, <1>5, <1>6 DEF BookInv

\* A partly filled order stays where it is.
LEMMA PartlyFilledKeeps ==
  ASSUME BookInv, tx.op # "reprice", tx'.op # "reprice", NEW id \in DOMAIN orders,
         NEW os, Kept(os, id), os[id].remaining > 0, orders' = os,
         UNCHANGED <<head, nextId, claims, money, config>>
  PROVE  BookInv' /\ DOMAIN orders' = DOMAIN orders
<1>1. /\ TypeOK /\ NeverInBothPlaces /\ TokensBackEscrow /\ Listed /\ Numbered
  BY DEF BookInv
<1>2. UNCHANGED <<head, nextId, claims, escrow, tokens, config>> /\ DOMAIN orders' = DOMAIN orders
  BY DEF money, Kept
<1>3. InLists(orders', head', DOMAIN orders)
  BY <1>1, <1>2, KeptLists
<1>4. \A i \in DOMAIN orders : orders'[i] \in Row
  BY <1>1, RowOfAny DEF Kept, TypeOK
<1>5. Booked' = DOMAIN orders /\ Used' = Used
  BY <1>2 DEF Booked, InBook, Used
<1>6. TypeOK'
  BY <1>1, <1>2, <1>4 DEF TypeOK, config
<1>7. NeverInBothPlaces' /\ TokensBackEscrow' /\ Numbered' /\ Listed'
  BY <1>1, <1>2, <1>3, <1>5 DEF NeverInBothPlaces, TokensBackEscrow, Numbered, Listed
<1>. QED
  BY <1>2, <1>6, <1>7 DEF BookInv

LEMMA FinalizeKeeps ==
  ASSUME BookInv, tx.op # "reprice", tx'.op # "reprice", NEW id \in DOMAIN orders,
         NEW rem \in Int, Finalize(id, rem), UNCHANGED <<nextId, money, config>>
  PROVE  BookInv' /\ DOMAIN orders \ {id} \subseteq DOMAIN orders'
<1>. DEFINE os == [orders EXCEPT ![id].remaining = rem]
<1>1. orders[id] \in Row /\ DUST \in Nat \ {0}
  BY UnitAssumption DEF BookInv, TypeOK
<1>2. os[id].remaining = rem /\ Kept(os, id)
  BY <1>1 DEF Kept, Row, AnyRow
<1>3. \/ /\ rem = 0
         /\ orders' = Unlink(os, id) /\ head' = HeadAfterUnlink(head, os, id)
         /\ UNCHANGED claims
      \/ rem \in 1 .. DUST - 1 /\ Park(os, id, "dust_filled")
      \/ rem >= DUST /\ Park(os, id, "unfillable")
      \/ rem >= DUST /\ orders' = os /\ UNCHANGED <<head, claims>>
  BY DEF Finalize
<1>. HIDE DEF os
<1>4. "dust_filled" \in Reasons /\ "unfillable" \in Reasons
  BY DEF Reasons
<1>5. CASE /\ rem = 0
           /\ orders' = Unlink(os, id) /\ head' = HeadAfterUnlink(head, os, id)
           /\ UNCHANGED claims
  BY <1>2, <1>5, SpentKeeps
<1>6. ASSUME NEW reason \in Reasons, rem > 0, Park(os, id, reason)
      PROVE  BookInv' /\ DOMAIN orders \ {id} \subseteq DOMAIN orders'
  <2>1. os[id].remaining > 0 /\ Kept(os, id)
    BY <1>2, <1>6
  <2>2. BookInv' /\ DOMAIN orders' = DOMAIN orders \ {id}
    BY <2>1, <1>6, ParkKeeps
  <2>. QED
    BY <2>2
<1>7. rem \in 1 .. DUST - 1 \/ rem >= DUST => rem > 0
  BY <1>1
<1>8. CASE rem >= DUST /\ orders' = os /\ UNCHANGED <<head, claims>>
  BY <1>1, <1>2, <1>8, PartlyFilledKeeps
<1>. QED
  BY <1>3, <1>4, <1>5, <1>6, <1>7, <1>8

\* The successor is another order, so it is still there after this one left.
LEMMA NextIsAnother ==
  ASSUME TypeOK, Listed, NEW i \in Booked
  PROVE  /\ orders[i].next \in Links
         /\ orders[i].next # 0 => orders[i].next \in Booked \ {i}
<1>1. PICK rank \in [Ids -> Int] : Linked(orders, head, Booked, rank)
  BY DEF Listed, InLists
<1>2. orders[i] \in Row /\ i \in Ids
  BY DEF TypeOK, Booked
<1>. QED
  BY <1>1, <1>2 DEF Linked, Row

\* A clean or match walk does nothing to the other parts of the invariant.
LEMMA BookWalkStep ==
  ASSUME IInv, BookInv', tx.op \in {"idle", "clean", "match"},
         tx' \in CleanTx \cup MatchTx,
         tx'.cur # 0 => tx'.cur \in DOMAIN orders',
         MatchOK', UNCHANGED ins
  PROVE  IInv'
<1>1. tx'.op \in {"clean", "match"}
  BY DEF CleanTx, MatchTx
<1>2. ins' = NoWalk
  BY DEF IInv, WalkInv, WalkFor
<1>3. TxInv'
  BY <1>1 DEF TxInv, TxOK, PlaceOK, RepriceOK, WithdrawOK, CursorOK
<1>. QED
  BY <1>1, <1>2, <1>3, NoWalkRuns DEF IInv

LEMMA StartIsLive ==
  ASSUME TypeOK, Listed, NEW s \in Sides, NEW hint
  PROVE  StartAt(hint, s) \in Links /\ (StartAt(hint, s) # 0 => StartAt(hint, s) \in DOMAIN orders)
<1>1. DOMAIN orders \subseteq Links /\ head[s] \in Links
  BY RowsOfOrders DEF TypeOK
<1>2. head[s] # 0 => head[s] \in DOMAIN orders
  BY HeadIsListed DEF Booked
<1>. QED
  BY <1>1, <1>2 DEF StartAt, OnSide

LEMMA CleanStep ==
  ASSUME IInv, Clean
  PROVE  IInv'
<1>1. PICK s \in Sides, caps \in CleanCaps, h \in Hints : CleanBook(s, caps, h)
  BY DEF Clean
<1>. DEFINE cur == StartAt(h, s)
            whole == (cur = head[s])
<1>2. /\ tx = Idle /\ UNCHANGED <<book, nextId, claims, money, config, ins>>
      /\ tx' = [op |-> "clean", side |-> s, cur |-> cur, cleaned |-> 0,
                steps |-> 0, caps |-> caps, whole |-> whole]
  BY <1>1 DEF CleanBook
<1>3. cur \in Links /\ (cur # 0 => cur \in DOMAIN orders) /\ whole \in BOOLEAN /\ caps \in Nat \X Nat
  BY StartIsLive, InputAssumption DEF IInv, BookInv
<1>. HIDE DEF cur, whole
<1>4. tx.op = "idle" /\ tx'.op = "clean" /\ tx'.cur = cur /\ tx' \in CleanTx
  BY <1>2, <1>3 DEF Idle, CleanTx
<1>5. BookInv' /\ orders' = orders
  BY <1>2, <1>4, BookStands DEF book
<1>6. MatchOK' /\ UNCHANGED ins
  BY <1>2, <1>4 DEF MatchOK
<1>. QED
  BY <1>3, <1>4, <1>5, <1>6, BookWalkStep

LEMMA CleanVisitStep ==
  ASSUME IInv, CleanVisit
  PROVE  IInv'
<1>. DEFINE id == tx.cur
            o == orders[tx.cur]
<1>1. BookInv /\ TypeOK /\ Listed /\ tx.op = "clean" /\ tx \in CleanTx /\ CursorOK /\ id # 0
  BY OpOfTx DEF IInv, BookInv, TxInv, CleanVisit, CleanOn
<1>2. id \in DOMAIN orders /\ id \in Booked /\ o \in Row
  BY <1>1, RowsOfOrders DEF CursorOK, TypeOK
<1>3. o.next \in Links /\ (o.next # 0 => o.next \in DOMAIN orders \ {id})
  BY <1>1, <1>2, NextIsAnother, RowsOfOrders
<1>4. UNCHANGED <<nextId, money, config, ins>>
  BY DEF CleanVisit
<1>5. tx.steps + 1 \in Nat /\ tx.cleaned + 1 \in Nat
  BY <1>1 DEF CleanTx
<1>6. CASE CleanReason(o) # "none" /\ Park(orders, id, CleanReason(o))
           /\ tx' = [Passed(o) EXCEPT !.cleaned = @ + 1]
  <2>1. tx' \in CleanTx /\ tx'.op = "clean" /\ tx'.cur = o.next
    BY <1>1, <1>3, <1>5, <1>6 DEF CleanTx, Passed
  <2>2. CleanReason(o) \in Reasons
    BY <1>6 DEF CleanReason, Reasons
  <2>3. Kept(orders, id) /\ orders[id].remaining > 0
    BY <1>2 DEF Kept, Row, AnyRow
  <2>4. BookInv' /\ DOMAIN orders' = DOMAIN orders \ {id}
    BY <1>1, <1>2, <1>4, <1>6, <2>1, <2>2, <2>3, ParkKeeps
  <2>5. MatchOK'
    BY <2>1 DEF MatchOK
  <2>. QED
    BY <1>1, <1>3, <1>4, <2>1, <2>4, <2>5, BookWalkStep
<1>7. CASE tx' = Passed(o) /\ UNCHANGED <<book, claims>>
  <2>1. tx' \in CleanTx /\ tx'.op = "clean" /\ tx'.cur = o.next
    BY <1>1, <1>3, <1>5, <1>7 DEF CleanTx, Passed
  <2>2. BookInv' /\ orders' = orders
    BY <1>1, <1>4, <1>7, <2>1, BookStands DEF book
  <2>3. MatchOK'
    BY <2>1 DEF MatchOK
  <2>. QED
    BY <1>1, <1>3, <1>4, <2>1, <2>2, <2>3, BookWalkStep
<1>. QED
  BY <1>6, <1>7 DEF CleanVisit

LEMMA FinishCleanStep ==
  ASSUME IInv, FinishClean
  PROVE  IInv'
<1>1. escrow' \in [Sides -> Nat] /\ tokens' = escrow'
  BY DEF IInv, BookInv, TypeOK, TokensBackEscrow, FinishClean, money
<1>. QED
  BY <1>1, PaidStep DEF FinishClean

LEMMA MatchStep ==
  ASSUME IInv, Match
  PROVE  IInv'
<1>1. PICK s \in Sides, b \in Budgets, c \in MakerCaps, h \in Hints,
           bps \in FeeRates, pool \in Pools : MatchBook(s, b, c, h, bps, pool)
  BY DEF Match
<1>. DEFINE cur == StartAt(h, s)
            whole == (cur = head[s])
<1>2. /\ tx = Idle /\ UNCHANGED <<book, nextId, claims, money, config, ins>>
      /\ tx' = [op |-> "match", side |-> s, cur |-> cur, left |-> b, used |-> 0,
                cap |-> c, parks |-> 0, scans |-> 0, bps |-> bps, pool |-> pool,
                debit |-> 0, net |-> 0, fees |-> 0, whole |-> whole]
  BY <1>1 DEF MatchBook
<1>3. /\ cur \in Links /\ (cur # 0 => cur \in DOMAIN orders) /\ whole \in BOOLEAN
      /\ b \in Int /\ c \in Nat /\ pool \in [rin : Nat, rout : Nat]
  BY StartIsLive, InputAssumption DEF IInv, BookInv
<1>. HIDE DEF cur, whole
<1>4. /\ tx.op = "idle" /\ tx'.op = "match" /\ tx'.cur = cur /\ tx' \in MatchTx
      /\ tx'.net + tx'.fees = tx'.debit
  BY <1>2, <1>3 DEF Idle, MatchTx
<1>5. BookInv' /\ orders' = orders
  BY <1>2, <1>4, BookStands DEF book
<1>6. MatchOK' /\ UNCHANGED ins
  BY <1>2, <1>4 DEF MatchOK
<1>. QED
  BY <1>3, <1>4, <1>5, <1>6, BookWalkStep

\* The order under the match cursor and its successor.
LEMMA MatchCursor ==
  ASSUME IInv, tx.op = "match", tx.cur # 0
  PROVE  /\ BookInv /\ tx \in MatchTx /\ tx.net + tx.fees = tx.debit
         /\ tx.cur \in DOMAIN orders /\ orders[tx.cur] \in Row
         /\ orders[tx.cur].next \in Links
         /\ orders[tx.cur].next # 0 => orders[tx.cur].next \in DOMAIN orders \ {tx.cur}
<1>1. BookInv /\ TypeOK /\ Listed /\ tx \in MatchTx /\ CursorOK /\ MatchOK
  BY OpOfTx DEF IInv, BookInv, TxInv
<1>2. tx.cur \in DOMAIN orders /\ tx.cur \in Booked /\ orders[tx.cur] \in Row
  BY <1>1, RowsOfOrders DEF CursorOK, TypeOK
<1>3. /\ orders[tx.cur].next \in Links
      /\ orders[tx.cur].next # 0 => orders[tx.cur].next \in DOMAIN orders \ {tx.cur}
  BY <1>1, <1>2, NextIsAnother, RowsOfOrders
<1>. QED
  BY <1>1, <1>2, <1>3 DEF MatchOK

LEMMA MatchDeadStep ==
  ASSUME IInv, MatchDead
  PROVE  IInv'
<1>. DEFINE id == tx.cur
            o == orders[tx.cur]
<1>1. /\ tx.op = "match" /\ id # 0
      /\ BookInv /\ tx \in MatchTx /\ tx.net + tx.fees = tx.debit
      /\ id \in DOMAIN orders /\ o \in Row /\ o.next \in Links
      /\ o.next # 0 => o.next \in DOMAIN orders \ {id}
  BY MatchCursor DEF MatchDead, MatchOn
<1>2. UNCHANGED <<nextId, money, config, ins>>
  BY DEF MatchDead
<1>3. tx.scans + 1 \in Nat /\ tx.parks + 1 \in Nat
  BY <1>1 DEF MatchTx
<1>4. CASE /\ DeadReason(o) # "none" /\ Park(orders, id, DeadReason(o))
           /\ tx' = [Advance(o) EXCEPT !.parks = @ + 1]
  <2>1. /\ tx' \in MatchTx /\ tx'.op = "match" /\ tx'.cur = o.next
        /\ tx'.net = tx.net /\ tx'.fees = tx.fees /\ tx'.debit = tx.debit
    BY <1>1, <1>3, <1>4 DEF MatchTx, Advance
  <2>2. DeadReason(o) \in Reasons
    BY <1>4 DEF DeadReason, Reasons
  <2>3. Kept(orders, id) /\ orders[id].remaining > 0
    BY <1>1 DEF Kept, Row, AnyRow
  <2>4. BookInv' /\ DOMAIN orders' = DOMAIN orders \ {id}
    BY <1>1, <1>2, <1>4, <2>1, <2>2, <2>3, ParkKeeps
  <2>5. MatchOK'
    BY <1>1, <2>1 DEF MatchOK
  <2>. QED
    BY <1>1, <1>2, <2>1, <2>4, <2>5, BookWalkStep
<1>5. CASE tx' = Advance(o) /\ UNCHANGED <<book, claims>>
  <2>1. /\ tx' \in MatchTx /\ tx'.op = "match" /\ tx'.cur = o.next
        /\ tx'.net = tx.net /\ tx'.fees = tx.fees /\ tx'.debit = tx.debit
    BY <1>1, <1>3, <1>5 DEF MatchTx, Advance
  <2>2. BookInv' /\ orders' = orders
    BY <1>1, <1>2, <1>5, <2>1, BookStands DEF book
  <2>3. MatchOK'
    BY <1>1, <2>1 DEF MatchOK
  <2>. QED
    BY <1>1, <1>2, <2>1, <2>2, <2>3, BookWalkStep
<1>. QED
  BY <1>4, <1>5 DEF MatchDead

LEMMA MatchPassStep ==
  ASSUME IInv, MatchPass
  PROVE  IInv'
<1>. DEFINE id == tx.cur
            o == orders[tx.cur]
<1>1. /\ tx.op = "match" /\ id # 0
      /\ BookInv /\ tx \in MatchTx /\ tx.net + tx.fees = tx.debit
      /\ o.next \in Links /\ (o.next # 0 => o.next \in DOMAIN orders \ {id})
  BY MatchCursor DEF MatchPass, MatchOn
<1>2. tx' = Advance(o) /\ UNCHANGED <<book, nextId, claims, money, config, ins>>
  BY DEF MatchPass
<1>3. tx.scans + 1 \in Nat
  BY <1>1 DEF MatchTx
<1>4. /\ tx' \in MatchTx /\ tx'.op = "match" /\ tx'.cur = o.next
      /\ tx'.net = tx.net /\ tx'.fees = tx.fees /\ tx'.debit = tx.debit
  BY <1>1, <1>2, <1>3 DEF MatchTx, Advance
<1>5. BookInv' /\ orders' = orders
  BY <1>1, <1>2, <1>4, BookStands DEF book
<1>6. MatchOK'
  BY <1>1, <1>4 DEF MatchOK
<1>. QED
  BY <1>1, <1>2, <1>4, <1>5, <1>6, BookWalkStep

\* What a trade moves is a whole number of tokens.
LEMMA TradeIsInt ==
  ASSUME NEW o \in Row, NEW left \in Int
  PROVE  Trade(o, left).fill \in Int /\ Trade(o, left).cost \in Int
<1>1. ONE \in Int /\ ONE > 0 /\ o.price \in Int /\ o.price > 0 /\ o.remaining \in Int
  BY UnitAssumption DEF Row
<1>2. \A x, y \in Int : x * y \in Int
  OBVIOUS
<1>3. \A x \in Int : x \div ONE \in Int /\ x \div o.price \in Int
  BY <1>1
<1>4. \A x, y \in Int : MulFloor(x, y) \in Int
  BY <1>2, <1>3 DEF MulFloor
<1>5. PriceInverse(o.price) \in Int
  BY <1>1, <1>2, <1>3 DEF PriceInverse
<1>6. \A x \in Int : BidCapacity(x, o.price) \in Int
  BY <1>4, <1>5 DEF BidCapacity
<1>7. \A n, limit \in Int : Affordable(n, o.price, limit) \in Int
  <2>. TAKE n, limit \in Int
  <2>. DEFINE room == (limit + 1) * ONE
  <2>1. limit + 1 \in Int
    OBVIOUS
  <2>2. room \in Int
    BY <2>1, <1>1, <1>2
  <2>. HIDE DEF room
  <2>3. (room - 1) \div o.price \in Int
    BY <2>2, <1>3
  <2>. QED
    BY <2>3 DEF Affordable, room
<1>. DEFINE cap == BidCapacity(IF o.side = "bid" THEN o.remaining ELSE left, o.price)
            most == IF o.side = "bid" THEN left ELSE o.remaining
            least == IF cap < most THEN cap ELSE most
            limit == IF o.side = "bid" THEN o.remaining ELSE left
            fill == Affordable(least, o.price, limit)
<1>8. fill \in Int
  <2>1. cap \in Int /\ most \in Int /\ limit \in Int
    BY <1>1, <1>6
  <2>. HIDE DEF cap, most, limit
  <2>2. least \in Int
    BY <2>1
  <2>. HIDE DEF least
  <2>. QED
    BY <2>1, <2>2, <1>7
<1>9. MulFloor(fill, o.price) \in Int
  <2>. HIDE DEF fill
  <2>. QED
    BY <1>1, <1>4, <1>8
<1>10. Trade(o, left) = [fill |-> fill, cost |-> MulFloor(fill, o.price)]
  BY DEF Trade
<1>. HIDE DEF fill
<1>. QED
  BY <1>8, <1>9, <1>10

LEMMA MatchFillStep ==
  ASSUME IInv, MatchFill
  PROVE  IInv'
<1>. DEFINE id == tx.cur
            o == orders[tx.cur]
            t == Trade(o, tx.left)
            out == IF o.side = "bid" THEN t.cost ELSE t.fill
            in == IF o.side = "bid" THEN t.fill ELSE t.cost
            commission == (out * TakerBps(tx.bps)) \div BPS
<1>1. /\ tx.op = "match" /\ id # 0
      /\ BookInv /\ tx \in MatchTx /\ tx.net + tx.fees = tx.debit
      /\ id \in DOMAIN orders /\ o \in Row /\ o.next \in Links
      /\ o.next # 0 => o.next \in DOMAIN orders \ {id}
  BY MatchCursor DEF MatchFill, MatchOn
<1>2. /\ Finalize(id, o.remaining - out)
      /\ tx' = [Advance(o) EXCEPT !.used = @ + 1, !.left = @ - in,
                  !.debit = @ + out, !.net = @ + (out - commission),
                  !.fees = @ + commission]
      /\ UNCHANGED <<nextId, money, config, ins>>
  BY DEF MatchFill
<1>3. /\ tx.left \in Int /\ tx.net \in Int /\ tx.fees \in Int /\ tx.debit \in Int
      /\ tx.used \in Nat /\ tx.scans \in Nat /\ tx.bps \in FeeRates
  BY <1>1 DEF MatchTx
<1>4. t.fill \in Int /\ t.cost \in Int
  BY <1>1, <1>3, TradeIsInt
<1>. HIDE DEF t
<1>5. out \in Int /\ in \in Int /\ o.remaining \in Int
  BY <1>1, <1>4 DEF Row
<1>. HIDE DEF out, in
<1>6. commission \in Int
  BY <1>3, <1>5, FeesAreInt
<1>. HIDE DEF commission
<1>. DEFINE left == tx.left - in
            debit == tx.debit + out
            net == tx.net + (out - commission)
            fees == tx.fees + commission
            rem == o.remaining - out
<1>7. /\ left \in Int /\ debit \in Int /\ net \in Int /\ fees \in Int /\ rem \in Int
      /\ net + fees = debit /\ tx.used + 1 \in Nat /\ tx.scans + 1 \in Nat
  BY <1>1, <1>3, <1>5, <1>6
<1>8. tx' = [tx EXCEPT !.cur = o.next, !.scans = tx.scans + 1, !.used = tx.used + 1,
                       !.left = left, !.debit = debit, !.net = net, !.fees = fees]
  BY <1>1, <1>2 DEF Advance, MatchTx
<1>9. Finalize(id, rem)
  BY <1>2
<1>. HIDE DEF left, debit, net, fees, rem
<1>10. /\ tx' \in MatchTx /\ tx'.op = "match" /\ tx'.cur = o.next
       /\ tx'.net + tx'.fees = tx'.debit
  BY <1>1, <1>7, <1>8 DEF MatchTx
<1>11. BookInv' /\ DOMAIN orders \ {id} \subseteq DOMAIN orders'
  BY <1>1, <1>2, <1>7, <1>9, <1>10, FinalizeKeeps
<1>12. MatchOK'
  BY <1>10 DEF MatchOK
<1>. QED
  BY <1>1, <1>2, <1>10, <1>11, <1>12, BookWalkStep

LEMMA FinishMatchStep ==
  ASSUME IInv, FinishMatch
  PROVE  IInv'
<1>1. TypeOK /\ TokensBackEscrow /\ tx.op = "match" /\ tx \in MatchTx /\ MatchOK
  BY OpOfTx DEF IInv, BookInv, TxInv, FinishMatch
<1>2. PICK s \in Sides : s = tx.side
  BY <1>1 DEF MatchTx
<1>3. /\ escrow' = [escrow EXCEPT ![s] = @ - tx.debit] /\ escrow[s] >= tx.debit
      /\ tokens' = [tokens EXCEPT ![s] = @ - (tx.net + tx.fees)]
      /\ tx' = Idle /\ UNCHANGED <<book, nextId, claims, config, ins>>
  BY <1>2 DEF FinishMatch, PaidOut
<1>4. /\ escrow \in [Sides -> Nat] /\ tokens = escrow
      /\ tx.debit \in Int /\ tx.net + tx.fees = tx.debit
  BY <1>1 DEF TypeOK, TokensBackEscrow, MatchTx, MatchOK
<1>5. escrow' \in [Sides -> Nat] /\ tokens' = escrow'
  <2>. DEFINE rest == escrow[s] - tx.debit
  <2>1. rest \in Nat /\ escrow[s] - (tx.net + tx.fees) = rest
    BY <1>3, <1>4
  <2>2. escrow' = [escrow EXCEPT ![s] = rest] /\ tokens' = [escrow EXCEPT ![s] = rest]
    BY <2>1, <1>3, <1>4
  <2>. HIDE DEF rest
  <2>. QED
    BY <2>1, <2>2, <1>4
<1>. QED
  BY <1>1, <1>3, <1>5, PaidStep

-----------------------------------------------------------------------------
(* Together. *)
LEMMA InitIInv ==
  ASSUME Init
  PROVE  IInv
<1>1. tx.op = "idle" /\ ins = NoWalk /\ claims = <<>> /\ tx = Idle /\ tokens = escrow
  BY DEF Init, Idle
<1>2. TxInv /\ WalkInv
  BY <1>1 DEF TxInv, TxOK, PlaceOK, RepriceOK, WithdrawOK, CursorOK, MatchOK,
              WalkInv, InsOK, WalkFor, WalkOK
<1>3. DOMAIN claims = {}
  BY <1>1
<1>4. Booked = DOMAIN orders /\ Used = DOMAIN orders
  BY <1>1, <1>3 DEF Booked, InBook, Used
<1>5. /\ 0 \in Links /\ 1 \in Ids /\ 1 \in 1 .. MaxId + 1 /\ 2 \in 1 .. MaxId + 1
      /\ NoEscrow \in [Sides -> Nat] /\ NoHead \in [Sides -> Links]
  BY BoundAssumption DEF Links, Ids, NoEscrow, NoHead
<1>. DEFINE StartBook ==
       /\ DOMAIN orders \subseteq Ids /\ \A i \in DOMAIN orders : orders[i] \in Row
       /\ DOMAIN orders \subseteq 1 .. nextId - 1 /\ nextId \in 1 .. MaxId + 1
       /\ head \in [Sides -> Links] /\ escrow \in [Sides -> Nat]
       /\ InLists(orders, head, DOMAIN orders)
<1>6. StartBook
  <2>. DEFINE rank == [i \in Ids |-> 0]
  <2>0. rank \in [Ids -> Int]
    OBVIOUS
  <2>1. CASE EmptyBook
    <3>1. DOMAIN orders = {} /\ \A s \in Sides : head[s] = 0
      BY <2>1 DEF EmptyBook, NoHead
    <3>2. Linked(orders, head, DOMAIN orders, rank)
      BY <3>1 DEF Linked
    <3>. QED
      BY <2>0, <2>1, <3>1, <3>2, <1>5 DEF EmptyBook, InLists
  <2>2. ASSUME NEW o \in Owners, NEW r \in Legacy, LegacyBook(o, r)
        PROVE  StartBook
    <3>. DEFINE row == [owner |-> o, side |-> r.side, price |-> r.price,
                        remaining |-> r.amount, expires |-> r.expires,
                        prev |-> 0, next |-> 0]
    <3>1. r.side \in Sides /\ r.price \in Nat \ {0} /\ r.amount \in Nat \ {0} /\ r.expires \in Nat
      BY InputAssumption DEF Rung
    <3>2. row \in Row /\ row.side = r.side /\ row.prev = 0 /\ row.next = 0
      BY <3>1, <1>5 DEF Row
    <3>3. /\ orders = [i \in {1} |-> row] /\ nextId = 2
          /\ head = [NoHead EXCEPT ![r.side] = 1]
          /\ escrow = [NoEscrow EXCEPT ![r.side] = r.amount]
      BY <2>2 DEF LegacyBook
    <3>. HIDE DEF row
    <3>4. DOMAIN orders = {1} /\ orders[1] = row
      BY <3>3
    <3>5. head \in [Sides -> Links] /\ \A s \in Sides : head[s] = IF s = r.side THEN 1 ELSE 0
      BY <3>1, <3>3, <1>5 DEF NoHead, Links, Ids
    <3>6. escrow \in [Sides -> Nat]
      BY <3>1, <3>3, <1>5
    <3>7. Linked(orders, head, DOMAIN orders, rank)
      BY <3>1, <3>2, <3>4, <3>5 DEF Linked
    <3>8. InLists(orders, head, DOMAIN orders)
      BY <2>0, <3>7 DEF InLists
    <3>. QED
      <4>1. \A i \in DOMAIN orders : orders[i] \in Row
        BY <3>2, <3>4
      <4>2. DOMAIN orders \subseteq Ids /\ DOMAIN orders \subseteq 1 .. nextId - 1
            /\ nextId \in 1 .. MaxId + 1
        BY <3>3, <3>4, <1>5
      <4>. QED
        BY <4>1, <4>2, <3>5, <3>6, <3>8
  <2>. QED
    BY <2>1, <2>2 DEF Init
<1>7. TypeOK
  <2>1. /\ now \in Nat /\ paused \in BOOLEAN /\ drifted \in BOOLEAN
        /\ blacklisted \subseteq Blacklistable
        /\ minRemaining \in [Sides -> Nat] /\ maxRungs \in RungCaps
    BY DEF Init
  <2>. QED
    BY <2>1, <1>1, <1>3, <1>6 DEF TypeOK
<1>8. NeverInBothPlaces /\ TokensBackEscrow /\ Listed /\ Numbered
  BY <1>1, <1>3, <1>4, <1>6 DEF NeverInBothPlaces, TokensBackEscrow, Listed, Numbered
<1>. QED
  BY <1>2, <1>7, <1>8 DEF IInv, BookInv

LEMMA NextIInv ==
  ASSUME IInv, [Next]_vars
  PROVE  IInv'
<1>1. CASE Message
  <2>1. CASE Reprice
    BY <2>1, UpdatePriceStep DEF Reprice
  <2>2. CASE Exit
    BY <2>2, WithdrawStep DEF Exit
  <2>. QED
    BY <1>1, <2>1, <2>2, PlaceStep, CleanStep, MatchStep DEF Message
<1>2. CASE TxStep
  <2>1. CASE Probe \/ WalkForward \/ WalkBack
    BY <2>1, ProbeStep, WalkForwardStep, WalkBackStep
  <2>2. CASE PlaceRung \/ SkipRung \/ FinishPlace
    BY <2>2, PlaceRungStep, SkipRungStep, FinishPlaceStep
  <2>3. CASE Relink \/ RevertUpdatePrice
    BY <2>3, RepriceEndStep
  <2>4. CASE CancelOne \/ ClaimOne \/ FinishWithdraw
    BY <2>4, CancelOneStep, ClaimOneStep, FinishWithdrawStep
  <2>5. CASE CleanVisit \/ FinishClean
    BY <2>5, CleanVisitStep, FinishCleanStep
  <2>6. CASE MatchDead \/ MatchFill \/ MatchPass \/ FinishMatch
    BY <2>6, MatchDeadStep, MatchFillStep, MatchPassStep, FinishMatchStep
  <2>. QED
    BY <1>2, <2>1, <2>2, <2>3, <2>4, <2>5, <2>6 DEF TxStep
<1>3. CASE Environment
  BY <1>3, EnvironmentStep
<1>4. CASE UNCHANGED vars
  BY <1>4, ConfigStep DEF vars, book, money, IInv, BookInv, TypeOK
<1>. QED
  BY <1>1, <1>2, <1>3, <1>4 DEF Next

\* The inductive invariant holds in every reachable state.
THEOREM AlwaysIInv == Spec => []IInv
<1>. QED
  BY InitIInv, NextIInv, PTL DEF Spec

\* In every state storage holds what its items can: no resting order and no
\* claim is empty, no escrow negative, no id beyond those assigned.
THEOREM AlwaysTypeOK == Spec => []TypeOK
<1>1. IInv => TypeOK
  BY DEF IInv, BookInv
<1>. QED
  BY <1>1, AlwaysIInv, PTL

\* Inserting, unlinking, detaching and relinking keep both lists sound, whatever
\* the hints, cursors and step limits.
THEOREM AlwaysBookLinked == Spec => []BookLinked
<1>1. ASSUME IInv PROVE BookLinked
  <2>1. TypeOK /\ Listed
    BY <1>1 DEF IInv, BookInv
  <2>2. PICK rank \in [Ids -> Int] : Linked(orders, head, Booked, rank)
    BY <2>1 DEF Listed, InLists
  <2>3. ASSUME NEW s \in Sides, head[s] # 0
        PROVE  InBook(head[s]) /\ orders[head[s]].side = s /\ orders[head[s]].prev = 0
    BY <2>2, <2>3 DEF Linked, Booked
  <2>4. ASSUME NEW i \in DOMAIN orders, InBook(i)
        PROVE  LET o == orders[i] IN
               /\ o.prev = 0 => head[o.side] = i
               /\ o.prev # 0 => InBook(o.prev) /\ orders[o.prev].next = i
               /\ o.next # 0 => /\ InBook(o.next) /\ orders[o.next].prev = i
                                /\ orders[o.next].side = o.side
                                /\ ~Better(o.side, orders[o.next].price, o.price)
    <3>1. i \in Booked
      BY <2>4 DEF Booked
    <3>. QED
      BY <2>2, <3>1 DEF Linked, Booked
  <2>. QED
    BY <2>3, <2>4 DEF BookLinked
<1>. QED
  BY <1>1, AlwaysIInv, PTL

\* No order is ever both on the book and claimable: parking, filling, cancelling
\* and claiming never let one amount be paid out twice.
THEOREM AlwaysInOnePlace == Spec => []NeverInBothPlaces
<1>1. IInv => NeverInBothPlaces
  BY DEF IInv, BookInv
<1>. QED
  BY <1>1, AlwaysIInv, PTL

\* After every message the tokens beyond the reserves are the pending escrow:
\* refunds, maker fees, fills, commissions and withdrawals leave no remainder.
THEOREM AlwaysBacked == Spec => []TokensBackEscrow
<1>1. IInv => TokensBackEscrow
  BY DEF IInv, BookInv
<1>. QED
  BY <1>1, AlwaysIInv, PTL

-----------------------------------------------------------------------------
(***************************************************************************)
(* What the limit order book promises about orders that are no longer on   *)
(* it, for any number of orders and in the middle of every message too:    *)
(*                                                                         *)
(*   - the pending escrow of each side is, to the unit, what the resting   *)
(*     and the parked orders of that side are owed (L1 of the docs);       *)
(*   - the id of an order that was paid out is never given to another;     *)
(*   - a clean that began at the head has left nothing behind to clean.    *)
(*                                                                         *)
(* What is owed is a sum over the rows of two storage maps.  The ledger    *)
(* lists the same amounts by id: an order that is parked moves from one    *)
(* map to the other and leaves the ledger as it is, and every step of the  *)
(* contract changes it at one id at most.                                  *)
(***************************************************************************)
\* What order i is owed on side s, with rows os on the book and cs parked.
AmountIn(os, cs, s, i) ==
  IF i \in DOMAIN os /\ os[i].side = s THEN os[i].remaining
  ELSE IF i \in DOMAIN cs /\ cs[i].side = s THEN cs[i].remaining ELSE 0

LedgerOf(os, cs, s) == [i \in Ids |-> AmountIn(os, cs, s, i)]

Accounts(os, cs) ==
  /\ DOMAIN os \subseteq Ids /\ DOMAIN cs \subseteq Ids /\ DOMAIN os \cap DOMAIN cs = {}
  /\ \A i \in DOMAIN os : os[i].remaining \in Int
  /\ \A i \in DOMAIN cs : cs[i].remaining \in Int

LEMMA IdsFinite == IsFiniteSet(Ids) /\ 1 \in Ids
  BY FS_Interval, BoundAssumption DEF Ids

LEMMA LedgerIsInt ==
  ASSUME NEW os, NEW cs, Accounts(os, cs), NEW s
  PROVE  \A i \in Ids : LedgerOf(os, cs, s)[i] \in Int
  BY DEF LedgerOf, AmountIn, Accounts

\* The ledger adds up to what is owed.
LEMMA OwedIsLedger ==
  ASSUME NEW os, NEW cs, Accounts(os, cs), NEW s
  PROVE  TotalOn(os, s) + TotalOn(cs, s) = SumFunctionOnSet(LedgerOf(os, cs, s), Ids)
<1>. DEFINE A == {i \in DOMAIN os : os[i].side = s}
            B == {i \in DOMAIN cs : cs[i].side = s}
            R == Ids \ (A \cup B)
            f == [i \in DOMAIN os |-> os[i].remaining]
            g == [i \in DOMAIN cs |-> cs[i].remaining]
            l == LedgerOf(os, cs, s)
<1>1. A \subseteq Ids /\ B \subseteq Ids /\ R \subseteq Ids /\ A \cap B = {}
  BY DEF Accounts
<1>2. IsFiniteSet(A) /\ IsFiniteSet(B) /\ IsFiniteSet(R) /\ IsFiniteSet(A \cup B)
  BY <1>1, IdsFinite, FS_Subset, FS_Union
<1>3. /\ \A i \in A : l[i] = f[i]
      /\ \A i \in B : l[i] = g[i]
      /\ \A i \in R : l[i] = 0
  BY <1>1 DEF LedgerOf, AmountIn, Accounts
<1>4. \A i \in Ids : l[i] \in Int
  BY LedgerIsInt
<1>5. TotalOn(os, s) + TotalOn(cs, s) = SumFunctionOnSet(f, A) + SumFunctionOnSet(g, B)
  BY DEF TotalOn
<1>6. Ids = (A \cup B) \cup R /\ (A \cup B) \cap R = {}
  BY <1>1
<1>. HIDE DEF A, B, R, f, g, l
<1>7. /\ SumFunctionOnSet(l, A) = SumFunctionOnSet(f, A)
      /\ SumFunctionOnSet(l, B) = SumFunctionOnSet(g, B)
      /\ SumFunctionOnSet(l, R) = 0
  BY <1>2, <1>3, SumOfEqual, SumOfZeros
<1>8. SumFunctionOnSet(l, A \cup B) = SumFunctionOnSet(l, A) + SumFunctionOnSet(l, B)
  BY <1>1, <1>2, <1>4, SumOfBoth
<1>9. SumFunctionOnSet(l, (A \cup B) \cup R)
        = SumFunctionOnSet(l, A \cup B) + SumFunctionOnSet(l, R)
  BY <1>2, <1>4, <1>6, SumOfBoth
<1>10. SumFunctionOnSet(l, A) \in Int /\ SumFunctionOnSet(l, B) \in Int
  BY <1>1, <1>2, <1>4, SumIsInt
<1>. QED
  BY <1>5, <1>6, <1>7, <1>8, <1>9, <1>10 DEF l

\* When only what order id is owed changes, the total changes by as much.
LEMMA OneAccountChanges ==
  ASSUME NEW os, NEW cs, NEW ns, NEW ds, Accounts(os, cs), Accounts(ns, ds),
         NEW s, NEW id \in Ids,
         \A i \in Ids \ {id} : AmountIn(ns, ds, s, i) = AmountIn(os, cs, s, i)
  PROVE  TotalOn(ns, s) + TotalOn(ds, s)
           = TotalOn(os, s) + TotalOn(cs, s)
               + (AmountIn(ns, ds, s, id) - AmountIn(os, cs, s, id))
<1>. DEFINE f == LedgerOf(os, cs, s)
            e == LedgerOf(ns, ds, s)
<1>1. \A i \in Ids : f[i] \in Int /\ e[i] \in Int
  BY LedgerIsInt
<1>2. \A i \in Ids \ {id} : f[i] = e[i]
  BY DEF LedgerOf
<1>3. f[id] = AmountIn(os, cs, s, id) /\ e[id] = AmountIn(ns, ds, s, id)
  BY DEF LedgerOf
<1>4. /\ TotalOn(os, s) + TotalOn(cs, s) = SumFunctionOnSet(f, Ids)
      /\ TotalOn(ns, s) + TotalOn(ds, s) = SumFunctionOnSet(e, Ids)
  BY OwedIsLedger
<1>. HIDE DEF f, e
<1>5. SumFunctionOnSet(e, Ids) = SumFunctionOnSet(f, Ids) + (e[id] - f[id])
  BY <1>1, <1>2, IdsFinite, SumAfterChange
<1>. QED
  BY <1>3, <1>4, <1>5

LEMMA TotalIsInt ==
  ASSUME NEW os, NEW cs, Accounts(os, cs), NEW s
  PROVE  TotalOn(os, s) + TotalOn(cs, s) \in Int
  BY OwedIsLedger, LedgerIsInt, IdsFinite, SumIsInt

-----------------------------------------------------------------------------
(* One step of the contract. *)
Amount(s, i) == AmountIn(orders, claims, s, i)

\* The step leaves every order but id as it is, its links aside.
BesidesStand(id) ==
  \A i \in Ids \ {id} :
    /\ i \in DOMAIN orders' <=> i \in DOMAIN orders
    /\ i \in DOMAIN orders => SameOrder(orders'[i], orders[i])
    /\ i \in DOMAIN claims' <=> i \in DOMAIN claims
    /\ i \in DOMAIN claims => claims'[i] = claims[i]

LEMMA AccountsOfBook ==
  ASSUME BookInv
  PROVE  Accounts(orders, claims)
  BY DEF BookInv, TypeOK, NeverInBothPlaces, Accounts, Row, ClaimRow

LEMMA AccountsAfter ==
  ASSUME BookInv'
  PROVE  Accounts(orders', claims')
  BY DEF BookInv, TypeOK, NeverInBothPlaces, Accounts, Row, ClaimRow

LEMMA OwedChanges ==
  ASSUME BookInv, BookInv', NEW id \in Ids, BesidesStand(id), NEW s \in Sides
  PROVE  /\ OwedTo(s)' = OwedTo(s) + (Amount(s, id)' - Amount(s, id))
         /\ OwedTo(s) \in Int
<1>1. Accounts(orders, claims) /\ Accounts(orders', claims')
  BY AccountsOfBook, AccountsAfter
<1>2. \A i \in Ids \ {id} :
        AmountIn(orders', claims', s, i) = AmountIn(orders, claims, s, i)
  BY DEF AmountIn, BesidesStand, SameOrder
<1>. QED
  BY <1>1, <1>2, OneAccountChanges, TotalIsInt DEF OwedTo, Amount

LEMMA UnbookedIsInt ==
  ASSUME TxOK, NEW s \in Sides
  PROVE  Unbooked(s) \in Int
  BY OpOfTx DEF Unbooked, PlaceTx, MatchTx, WithdrawTx

\* A match or a withdrawal has yet to take away what its loop has added up.
LEMMA UnbookedBefore ==
  ASSUME TxOK, NEW s \in Sides
  PROVE  /\ tx.op = "match" => Unbooked(s) = IF tx.side = s THEN 0 - tx.debit ELSE 0
         /\ tx.op \in {"cancel", "claim"} => Unbooked(s) = 0 - tx.refund[s]
<1>1. \A x \in Int : -x = 0 - x
  OBVIOUS
<1>2. tx.op = "match" => tx.debit \in Int
  BY OpOfTx DEF MatchTx
<1>3. tx.op \in {"cancel", "claim"} => tx.refund[s] \in Int
  BY OpOfTx DEF WithdrawTx
<1>. QED
  BY <1>1, <1>2, <1>3 DEF Unbooked

LEMMA UnbookedAfter ==
  ASSUME TxOK', NEW s \in Sides
  PROVE  /\ tx'.op = "match" => Unbooked(s)' = IF tx'.side = s THEN 0 - tx'.debit ELSE 0
         /\ tx'.op \in {"cancel", "claim"} => Unbooked(s)' = 0 - tx'.refund[s]
<1>1. \A x \in Int : -x = 0 - x
  OBVIOUS
<1>2. tx'.op = "match" => tx'.debit \in Int
  BY DEF TxOK, Idle, PlaceTx, RepriceTx, WithdrawTx, CleanTx, MatchTx
<1>3. tx'.op \in {"cancel", "claim"} => tx'.refund[s] \in Int
  BY DEF TxOK, Idle, PlaceTx, RepriceTx, WithdrawTx, CleanTx, MatchTx
<1>. QED
  BY <1>1, <1>2, <1>3 DEF Unbooked

\* The books stay balanced when escrow, with what the message has yet to book,
\* moves by what order id gains or loses.
LEMMA BooksMove ==
  ASSUME BookInv, BookInv', TxOK, TxOK', EscrowIsOwed, NEW id \in Ids, BesidesStand(id),
         \A s \in Sides : escrow'[s] + Unbooked(s)'
                            = escrow[s] + Unbooked(s) + (Amount(s, id)' - Amount(s, id))
  PROVE  EscrowIsOwed'
  BY OwedChanges DEF EscrowIsOwed

\* ... and when neither of the two maps changes.
LEMMA BooksStand ==
  ASSUME EscrowIsOwed, UNCHANGED <<orders, claims>>,
         \A s \in Sides : escrow'[s] + Unbooked(s)' = escrow[s] + Unbooked(s)
  PROVE  EscrowIsOwed'
  BY DEF EscrowIsOwed, OwedTo, TotalOn

\* A walk over a side stays on it.
OnItsSide == tx.op \in {"clean", "match"} /\ tx.cur # 0 => orders[tx.cur].side = tx.side

-----------------------------------------------------------------------------
(* What the operators on the book do to the accounts. *)
LEMMA UnlinkBesides ==
  ASSUME BookInv, tx.op # "reprice", NEW id \in DOMAIN orders, NEW os, Kept(os, id),
         orders' = Unlink(os, id), UNCHANGED claims
  PROVE  BesidesStand(id) /\ DOMAIN orders' = DOMAIN orders \ {id}
<1>1. Rows(os) /\ DOMAIN os = DOMAIN orders /\ \A i \in DOMAIN orders \ {id} : os[i] = orders[i]
  BY KeptLists DEF BookInv, Kept
<1>2. /\ DOMAIN orders' = DOMAIN orders \ {id}
      /\ \A i \in DOMAIN orders \ {id} : SameOrder(orders'[i], orders[i])
  BY <1>1, UnlinkRows
<1>. QED
  BY <1>2 DEF BesidesStand

LEMMA ParkBesides ==
  ASSUME BookInv, tx.op # "reprice", NEW id \in DOMAIN orders, NEW os, Kept(os, id),
         NEW reason, Park(os, id, reason)
  PROVE  /\ BesidesStand(id) /\ DOMAIN orders' = DOMAIN orders \ {id}
         /\ id \in DOMAIN claims' /\ claims'[id].side = orders[id].side
         /\ claims'[id].remaining = os[id].remaining
<1>1. Rows(os) /\ DOMAIN os = DOMAIN orders /\ \A i \in DOMAIN orders \ {id} : os[i] = orders[i]
  BY KeptLists DEF BookInv, Kept
<1>2. /\ orders' = Unlink(os, id)
      /\ claims' = [i \in DOMAIN claims \cup {id} |->
           IF i = id THEN [owner |-> os[id].owner, side |-> os[id].side,
                           remaining |-> os[id].remaining, reason |-> reason]
           ELSE claims[i]]
  BY DEF Park
<1>3. /\ DOMAIN orders' = DOMAIN orders \ {id}
      /\ \A i \in DOMAIN orders \ {id} : SameOrder(orders'[i], orders[i])
  BY <1>1, <1>2, UnlinkRows
<1>. QED
  BY <1>2, <1>3 DEF BesidesStand, Kept

\* A trade leaves the order what it did not sell, on the book or parked.
LEMMA FinalizeBesides ==
  ASSUME BookInv, tx.op # "reprice", NEW id \in DOMAIN orders, NEW rem \in Int,
         Finalize(id, rem)
  PROVE  /\ BesidesStand(id)
         /\ \A s \in Sides : Amount(s, id)' = IF orders[id].side = s THEN rem ELSE 0
<1>. DEFINE os == [orders EXCEPT ![id].remaining = rem]
<1>1. orders[id] \in Row /\ id \notin DOMAIN claims
  BY DEF BookInv, TypeOK, NeverInBothPlaces
<1>2. os[id].remaining = rem /\ os[id].side = orders[id].side /\ Kept(os, id)
  BY <1>1 DEF Kept, Row, AnyRow
<1>3. \/ rem = 0 /\ orders' = Unlink(os, id) /\ UNCHANGED claims
      \/ Park(os, id, "dust_filled")
      \/ Park(os, id, "unfillable")
      \/ orders' = os /\ UNCHANGED claims
  BY DEF Finalize
<1>. HIDE DEF os
<1>4. CASE rem = 0 /\ orders' = Unlink(os, id) /\ UNCHANGED claims
  <2>1. BesidesStand(id) /\ DOMAIN orders' = DOMAIN orders \ {id}
    BY <1>2, <1>4, UnlinkBesides
  <2>. QED
    BY <2>1, <1>1, <1>4 DEF Amount, AmountIn
<1>5. ASSUME NEW reason, Park(os, id, reason)
      PROVE  /\ BesidesStand(id)
             /\ \A s \in Sides : Amount(s, id)' = IF orders[id].side = s THEN rem ELSE 0
  <2>1. /\ BesidesStand(id) /\ DOMAIN orders' = DOMAIN orders \ {id}
        /\ id \in DOMAIN claims' /\ claims'[id].side = orders[id].side
        /\ claims'[id].remaining = os[id].remaining
    BY <1>2, <1>5, ParkBesides
  <2>. QED
    BY <2>1, <1>2 DEF Amount, AmountIn
<1>6. CASE orders' = os /\ UNCHANGED claims
  BY <1>1, <1>2, <1>6 DEF Kept, BesidesStand, SameOrder, Amount, AmountIn
<1>. QED
  BY <1>3, <1>4, <1>5, <1>6

-----------------------------------------------------------------------------
(* Every step keeps the books balanced and a walk on its side. *)
Balanced == OnItsSide /\ EscrowIsOwed

LEMMA WalkGoesOn ==
  ASSUME IInv, OnItsSide, tx.op \in {"clean", "match"}, tx.cur # 0,
         tx'.side = tx.side, tx'.cur = orders[tx.cur].next, BesidesStand(tx.cur)
  PROVE  OnItsSide'
<1>1. TypeOK /\ Listed /\ tx.cur \in Booked
  BY RowsOfOrders DEF IInv, BookInv, TxInv, CursorOK
<1>. DEFINE n == orders[tx.cur].next
<1>2. n # 0 => n \in Booked \ {tx.cur} /\ orders[n].side = orders[tx.cur].side
  BY <1>1, Neighbours, NextIsAnother
<1>3. orders[tx.cur].side = tx.side
  BY DEF OnItsSide
<1>4. n # 0 => n \in Ids \ {tx.cur} /\ n \in DOMAIN orders
  BY <1>1, <1>2 DEF Booked, TypeOK
<1>. QED
  BY <1>2, <1>3, <1>4 DEF OnItsSide, BesidesStand, SameOrder

\* The step touches neither the accounts nor the message.
LEMMA AsideStep ==
  ASSUME Balanced, UNCHANGED <<orders, claims, escrow, tx>>
  PROVE  Balanced'
<1>1. \A s \in Sides : escrow'[s] + Unbooked(s)' = escrow[s] + Unbooked(s)
  BY DEF Unbooked
<1>. QED
  BY <1>1, BooksStand DEF Balanced, OnItsSide

\* A message begins: nothing booked yet, nothing owed anew.
LEMMA BeginStep ==
  ASSUME IInv, IInv', Balanced, Message
  PROVE  Balanced'
<1>0. TypeOK /\ Listed /\ TxOK /\ TxOK'
  BY DEF IInv, BookInv, TxInv
<1>1. CASE Place
  <2>1. /\ tx = Idle /\ UNCHANGED <<orders, claims, escrow>>
        /\ tx'.op = "place" /\ tx'.resting = 0
    BY <1>1 DEF Place, PlaceBatch, book, money
  <2>2. \A s \in Sides : Unbooked(s) = 0 /\ Unbooked(s)' = 0
    BY <2>1 DEF Unbooked, Idle
  <2>. QED
    BY <2>1, <2>2, BooksStand DEF Balanced, OnItsSide
<1>2. CASE Reprice
  <2>1. PICK id \in DOMAIN orders, p \in RepricePrices, h \in Hints, m \in StepCaps :
          UpdatePrice(id, p, h, m)
    BY <1>2 DEF Reprice
  <2>2. /\ tx = Idle /\ UNCHANGED <<claims, escrow>> /\ orders' = Detach(orders, id)
        /\ tx'.op = "reprice"
    BY <2>1 DEF UpdatePrice, money
  <2>3. /\ DOMAIN orders' = DOMAIN orders
        /\ \A i \in DOMAIN orders : SameOrder(orders'[i], orders[i])
    BY <1>0, <2>2, RowsOfOrders, DetachRows
  <2>4. id \in Ids /\ BesidesStand(id)
    BY <1>0, <2>2, <2>3 DEF TypeOK, BesidesStand
  <2>5. \A s \in Sides : Unbooked(s) = 0 /\ Unbooked(s)' = 0
    BY <2>2 DEF Unbooked, Idle
  <2>6. \A s \in Sides : Amount(s, id)' = Amount(s, id) /\ Amount(s, id) \in Int
    BY <1>0, <2>2, <2>3 DEF Amount, AmountIn, SameOrder, TypeOK, Row, ClaimRow
  <2>7. \A s \in Sides : escrow[s] \in Int
    BY <1>0 DEF TypeOK
  <2>8. EscrowIsOwed'
    BY <1>0, <2>2, <2>4, <2>5, <2>6, <2>7, BooksMove DEF Balanced, IInv
  <2>. QED
    BY <2>2, <2>8 DEF Balanced, OnItsSide
<1>3. CASE Exit
  <2>1. /\ tx = Idle /\ UNCHANGED <<orders, claims, escrow>>
        /\ tx'.op \in {"cancel", "claim"} /\ tx'.refund = [s \in Sides |-> 0]
    BY <1>3 DEF Exit, Cancel, Claim, Withdraw, book, money
  <2>2. \A s \in Sides : Unbooked(s) = 0 /\ Unbooked(s)' = 0
    BY <1>0, <2>1, UnbookedAfter DEF Unbooked, Idle
  <2>. QED
    BY <2>1, <2>2, BooksStand DEF Balanced, OnItsSide
<1>4. ASSUME NEW s \in Sides, NEW h, tx'.side = s, tx'.cur = StartAt(h, s),
             UNCHANGED orders
      PROVE  OnItsSide'
  <2>1. StartAt(h, s) # 0 => orders[StartAt(h, s)].side = s
    BY <1>0, HeadIsListed DEF StartAt, OnSide
  <2>. QED
    BY <1>4, <2>1 DEF OnItsSide
<1>5. CASE Clean
  <2>1. PICK s \in Sides, caps \in CleanCaps, h \in Hints : CleanBook(s, caps, h)
    BY <1>5 DEF Clean
  <2>2. /\ tx = Idle /\ UNCHANGED <<orders, claims, escrow>>
        /\ tx'.op = "clean" /\ tx'.side = s /\ tx'.cur = StartAt(h, s)
    BY <2>1 DEF CleanBook, book, money
  <2>3. \A r \in Sides : Unbooked(r) = 0 /\ Unbooked(r)' = 0
    BY <1>0, <2>2, UnbookedAfter DEF Unbooked, Idle
  <2>. QED
    BY <1>4, <2>2, <2>3, BooksStand DEF Balanced
<1>6. CASE Match
  <2>1. PICK s \in Sides, b \in Budgets, c \in MakerCaps, h \in Hints,
             bps \in FeeRates, pool \in Pools : MatchBook(s, b, c, h, bps, pool)
    BY <1>6 DEF Match
  <2>2. /\ tx = Idle /\ UNCHANGED <<orders, claims, escrow>>
        /\ tx'.op = "match" /\ tx'.side = s /\ tx'.cur = StartAt(h, s) /\ tx'.debit = 0
    BY <2>1 DEF MatchBook, book, money
  <2>3. \A r \in Sides : Unbooked(r) = 0 /\ Unbooked(r)' = 0
    BY <1>0, <2>2, UnbookedAfter DEF Unbooked, Idle
  <2>. QED
    BY <1>4, <2>2, <2>3, BooksStand DEF Balanced
<1>. QED
  BY <1>1, <1>2, <1>3, <1>5, <1>6 DEF Message

\* Row rec is linked in under id: the others keep all but their links.
LEMMA LinkBesides ==
  ASSUME TypeOK, NEW id \in Ids, NEW rec \in Row, NEW p \in Links, NEW n \in Links,
         orders' = LinkIn(orders, id, rec, p, n), UNCHANGED claims
  PROVE  /\ BesidesStand(id) /\ id \in DOMAIN orders'
         /\ orders'[id].side = rec.side /\ orders'[id].remaining = rec.remaining
<1>1. Rows(orders) /\ rec \in AnyRow
  BY RowsOfOrders DEF Row, AnyRow
<1>2. PutBetween(orders', orders, id, rec, p, n) /\ DOMAIN orders' = DOMAIN orders \cup {id}
  <2>. DEFINE cs == LinkIn(orders, id, rec, p, n)
  <2>1. DOMAIN cs = DOMAIN orders \cup {id}
    BY DEF LinkIn
  <2>2. PutBetween(cs, orders, id, rec, p, n)
    BY <1>1, LinkInRows
  <2>. QED
    BY <2>1, <2>2
<1>. QED
  BY <1>2 DEF PutBetween, BesidesStand, SameOrder

LEMMA PlaceStepBalanced ==
  ASSUME IInv, IInv', Balanced, PlaceRung \/ SkipRung \/ FinishPlace
  PROVE  Balanced'
<1>1. /\ BookInv /\ BookInv' /\ TypeOK /\ TxOK /\ TxOK' /\ EscrowIsOwed
      /\ tx.op = "place" /\ tx \in PlaceTx /\ PlaceOK /\ WalkFor /\ InsOK
  BY OpOfTx DEF IInv, BookInv, TxInv, WalkInv, Balanced, PlaceRung, SkipRung, FinishPlace
<1>2. \A s \in Sides : escrow[s] \in Int /\ tx.resting \in Nat
  BY <1>1 DEF TypeOK, PlaceTx
<1>3. CASE PlaceRung
  <2>. DEFINE k == tx.k
              id == tx.plan[tx.k].id
              r == tx.plan[tx.k].rung
              new == ForBook(r, tx.bps)
              rec == [owner |-> tx.owner, side |-> tx.side, price |-> r.price,
                      remaining |-> new, expires |-> r.expires, prev |-> 0, next |-> 0]
              cursor == [after |-> id, next |-> ins.next]
  <2>1. /\ orders' = LinkIn(orders, id, rec, ins.prev, ins.next)
        /\ tx' = [tx EXCEPT !.k = @ + 1, !.cursor = cursor, !.gross = @ + r.amount,
                            !.fees = @ + MakerFee(r.amount, tx.bps),
                            !.resting = @ + new]
        /\ UNCHANGED <<claims, escrow>> /\ ins.phase = "found"
    BY <1>3 DEF PlaceRung, money
  <2>2. ins # NoWalk /\ ins.prev \in Links /\ ins.next \in Links
    BY <1>1, <2>1, PhaseOfIns DEF Walks
  <2>3. tx.plan \in Seq(PlanRow) /\ Len(tx.plan) \in Nat /\ k \in 1 .. Len(tx.plan)
    <3>1. tx.plan \in Seq(PlanRow)
      BY <1>1 DEF PlaceTx
    <3>. QED
      BY <3>1, <1>1, <2>2, LenProperties DEF WalkFor, PlaceOK
  <2>4. id \in Ids /\ r \in InputRung
    <3>1. tx.plan[k] \in PlanRow
      BY <2>3, ElementOfSeq
    <3>. QED
      BY <3>1 DEF PlanRow
  <2>5. tx.side \in Sides /\ tx.owner \in Owners /\ tx.bps \in FeeRates
        /\ r.price \in Nat \ {0} /\ r.amount \in Nat /\ r.expires \in Nat /\ 0 \in Links
    BY <1>1, <2>4, RowsOfOrders DEF PlaceTx, InputRung
  <2>6. new \in Int /\ new > 0
    <3>1. MakerFee(r.amount, tx.bps) \in Int
      BY <2>5, FeesAreInt
    <3>2. \A j \in 1 .. Len(tx.plan) : ForBook(tx.plan[j].rung, tx.bps) > 0
      BY <1>1 DEF PlaceOK
    <3>3. new > 0
      BY <2>3, <3>2
    <3>4. new = r.amount - MakerFee(r.amount, tx.bps)
      BY DEF ForBook
    <3>. HIDE DEF new, r
    <3>. QED
      BY <2>5, <3>1, <3>3, <3>4
  <2>7. id \notin DOMAIN orders /\ id \notin DOMAIN claims
    BY <1>1, <2>3 DEF PlaceOK, Used
  <2>. HIDE DEF new, r, id
  <2>8. rec \in Row /\ rec.side = tx.side /\ rec.remaining = new
    BY <2>5, <2>6 DEF Row
  <2>9. /\ tx'.op = "place" /\ tx'.side = tx.side /\ tx'.resting = tx.resting + new
    BY <1>1, <2>1 DEF PlaceTx
  <2>. HIDE DEF rec
  <2>13. PICK i \in Ids : i = id
    BY <2>4
  <2>10. /\ BesidesStand(i) /\ i \in DOMAIN orders'
         /\ orders'[i].side = tx.side /\ orders'[i].remaining = new
    BY <1>1, <2>1, <2>2, <2>8, <2>13, LinkBesides
  <2>11. ASSUME NEW s \in Sides
         PROVE  escrow'[s] + Unbooked(s)'
                  = escrow[s] + Unbooked(s) + (Amount(s, i)' - Amount(s, i))
    <3>1. /\ Unbooked(s) = IF tx.side = s THEN tx.resting ELSE 0
          /\ Unbooked(s)' = IF tx.side = s THEN tx.resting + new ELSE 0
      BY <1>1, <2>9 DEF Unbooked
    <3>2. /\ Amount(s, i) = 0
          /\ Amount(s, i)' = IF tx.side = s THEN new ELSE 0
      BY <2>1, <2>7, <2>10, <2>13 DEF Amount, AmountIn
    <3>. QED
      BY <3>1, <3>2, <1>2, <2>1, <2>6
  <2>12. EscrowIsOwed'
    BY <1>1, <2>10, <2>11, BooksMove
  <2>. QED
    BY <2>9, <2>12 DEF Balanced, OnItsSide
<1>4. CASE SkipRung
  <2>1. /\ tx' = [tx EXCEPT !.k = @ + 1] /\ UNCHANGED <<orders, claims, escrow>>
    BY <1>4 DEF SkipRung, book, money
  <2>2. tx'.op = "place" /\ tx'.side = tx.side /\ tx'.resting = tx.resting
    BY <1>1, <2>1 DEF PlaceTx
  <2>3. \A s \in Sides : Unbooked(s)' = Unbooked(s)
    BY <1>1, <2>2 DEF Unbooked
  <2>. QED
    BY <1>1, <2>1, <2>2, <2>3, BooksStand DEF Balanced, OnItsSide
<1>5. CASE FinishPlace
  <2>1. /\ tx' = Idle /\ UNCHANGED <<orders, claims>>
        /\ escrow' = IF tx.resting = 0 THEN escrow
                     ELSE [escrow EXCEPT ![tx.side] = @ + tx.resting]
    BY <1>5 DEF FinishPlace, book, money
  <2>2. \A s \in Sides : /\ Unbooked(s)' = 0
                         /\ Unbooked(s) = IF tx.side = s THEN tx.resting ELSE 0
    BY <1>1, <2>1 DEF Unbooked, Idle
  <2>3. escrow \in [Sides -> Nat]
    BY <1>1 DEF TypeOK
  <2>4. \A s \in Sides : escrow'[s] + Unbooked(s)' = escrow[s] + Unbooked(s)
    BY <1>2, <2>1, <2>2, <2>3
  <2>. QED
    BY <1>1, <2>1, <2>4, BooksStand DEF Balanced, OnItsSide, Idle
<1>. QED
  BY <1>3, <1>4, <1>5

LEMMA RepriceEndBalanced ==
  ASSUME IInv, IInv', Balanced, Relink \/ RevertUpdatePrice
  PROVE  Balanced'
<1>1. /\ BookInv /\ BookInv' /\ TypeOK /\ NeverInBothPlaces /\ TxOK /\ TxOK' /\ EscrowIsOwed
      /\ tx.op = "reprice" /\ tx \in RepriceTx /\ RepriceOK /\ InsOK
  BY OpOfTx DEF IInv, BookInv, TxInv, WalkInv, Balanced, Relink, RevertUpdatePrice
<1>2. tx.id \in Ids /\ tx.id \in DOMAIN orders /\ tx.old \in Row /\ tx.price \in Nat \ {0}
      /\ orders[tx.id] \in Row
      /\ orders[tx.id].side = tx.old.side /\ orders[tx.id].remaining = tx.old.remaining
  BY <1>1 DEF RepriceTx, RepriceOK, SameOrder, TypeOK
<1>3. /\ tx' = Idle /\ UNCHANGED <<claims, escrow>>
      /\ \E rec \in Row, p \in Links, n \in Links :
           /\ rec.side = tx.old.side /\ rec.remaining = tx.old.remaining
           /\ orders' = LinkIn(orders, tx.id, rec, p, n)
  <2>1. CASE Relink
    <3>. DEFINE rec == [tx.old EXCEPT !.price = tx.price]
    <3>1. /\ rec \in Row /\ rec.side = tx.old.side /\ rec.remaining = tx.old.remaining
      BY <1>2 DEF Row
    <3>2. ins.prev \in Links /\ ins.next \in Links
      BY <1>1, <2>1, PhaseOfIns DEF Relink, Walks
    <3>3. /\ tx' = Idle /\ UNCHANGED <<claims, escrow>>
          /\ orders' = LinkIn(orders, tx.id, rec, ins.prev, ins.next)
      BY <2>1 DEF Relink, money
    <3>. HIDE DEF rec
    <3>. QED
      BY <3>1, <3>2, <3>3
  <2>2. CASE RevertUpdatePrice
    <3>1. tx.old.prev \in Links /\ tx.old.next \in Links
      BY <1>2 DEF Row
    <3>2. /\ tx' = Idle /\ UNCHANGED <<claims, escrow>>
          /\ orders' = LinkIn(orders, tx.id, tx.old, tx.old.prev, tx.old.next)
      BY <2>2 DEF RevertUpdatePrice, money
    <3>. QED
      BY <1>2, <3>1, <3>2
  <2>. QED
    BY <2>1, <2>2
<1>4. PICK rec \in Row, p \in Links, n \in Links :
        /\ rec.side = tx.old.side /\ rec.remaining = tx.old.remaining
        /\ orders' = LinkIn(orders, tx.id, rec, p, n)
  BY <1>3
<1>5. /\ BesidesStand(tx.id) /\ tx.id \in DOMAIN orders'
      /\ orders'[tx.id].side = orders[tx.id].side
      /\ orders'[tx.id].remaining = orders[tx.id].remaining
  BY <1>1, <1>2, <1>3, <1>4, LinkBesides
<1>6. \A s \in Sides : /\ Amount(s, tx.id) = IF tx.old.side = s THEN tx.old.remaining ELSE 0
                       /\ AmountIn(orders', claims', s, tx.id) = Amount(s, tx.id)
  BY <1>1, <1>2, <1>3, <1>5 DEF Amount, AmountIn, NeverInBothPlaces
<1>7. \A s \in Sides : Unbooked(s) = 0 /\ Unbooked(s)' = 0
  BY <1>1, <1>3 DEF Unbooked, Idle
<1>8. tx.old.remaining \in Int /\ \A s \in Sides : escrow[s] \in Int
  BY <1>1, <1>2 DEF Row, TypeOK
<1>9. PICK id \in Ids : id = tx.id
  BY <1>2
<1>10. BesidesStand(id)
  BY <1>5, <1>9
<1>11. \A s \in Sides : Amount(s, id)' = Amount(s, id) /\ Amount(s, id) \in Int
  BY <1>6, <1>8, <1>9 DEF Amount
<1>12. EscrowIsOwed'
  BY <1>1, <1>3, <1>7, <1>8, <1>10, <1>11, BooksMove
<1>. QED
  BY <1>3, <1>12 DEF Balanced, OnItsSide, Idle

\* The message pays what its loop has added up.
LEMMA PaidBalanced ==
  ASSUME IInv, Balanced, tx' = Idle, UNCHANGED <<orders, claims>>,
         \A s \in Sides : escrow'[s] = escrow[s] + Unbooked(s)
  PROVE  Balanced'
<1>1. \A s \in Sides : Unbooked(s)' = 0 /\ Unbooked(s) \in Int /\ escrow[s] \in Int
  BY UnbookedIsInt DEF Unbooked, Idle, IInv, BookInv, TxInv, TypeOK
<1>. QED
  BY <1>1, BooksStand DEF Balanced, OnItsSide, Idle

LEMMA WithdrawBalanced ==
  ASSUME IInv, IInv', Balanced, CancelOne \/ ClaimOne
  PROVE  Balanced'
<1>. DEFINE rows == IF tx.op = "cancel" THEN orders ELSE claims
            id == Head(tx.todo)
            row == rows[id]
            rf == [tx.refund EXCEPT ![row.side] = @ + row.remaining]
<1>1. /\ BookInv /\ BookInv' /\ TypeOK /\ NeverInBothPlaces /\ TxOK /\ TxOK' /\ EscrowIsOwed
      /\ tx.op \in {"cancel", "claim"} /\ tx \in WithdrawTx /\ WithdrawOK
  BY OpOfTx DEF IInv, BookInv, TxInv, Balanced, CancelOne, ClaimOne
<1>2. id \in DOMAIN rows /\ id \in Ids
  <2>1. tx.todo \in Seq(Ids) /\ tx.todo # <<>>
    BY <1>1 DEF WithdrawTx, CancelOne, ClaimOne
  <2>2. id = tx.todo[1] /\ 1 \in 1 .. Len(tx.todo)
    BY <2>1, EmptySeq, LenProperties
  <2>. QED
    BY <2>2, <1>1 DEF WithdrawOK, TypeOK
<1>3. row.side \in Sides /\ row.remaining \in Nat
  BY <1>1, <1>2 DEF TypeOK, Row, ClaimRow
<1>4. /\ tx' = [tx EXCEPT !.todo = Tail(tx.todo), !.refund = rf]
      /\ UNCHANGED escrow
  <2>1. tx' = [tx EXCEPT !.todo = Tail(@), !.refund[row.side] = @ + row.remaining]
        /\ UNCHANGED escrow
    BY DEF CancelOne, ClaimOne, Refunded, money
  <2>. QED
    BY <2>1, <1>1 DEF WithdrawTx
<1>5. tx'.op = tx.op /\ tx'.refund = rf
  <2>. HIDE DEF rf
  <2>. QED
    BY <1>1, <1>4 DEF WithdrawTx
<1>6. /\ tx.refund \in [Sides -> Nat]
      /\ \A s \in Sides : rf[s] = IF s = row.side THEN tx.refund[s] + row.remaining
                                  ELSE tx.refund[s]
  BY <1>1, <1>3 DEF WithdrawTx
<1>7. /\ BesidesStand(id)
      /\ \A s \in Sides :
           /\ AmountIn(orders, claims, s, id) = IF row.side = s THEN row.remaining ELSE 0
           /\ AmountIn(orders', claims', s, id) = 0
  <2>1. CASE CancelOne
    <3>1. orders' = Unlink(orders, id) /\ UNCHANGED claims /\ tx.op = "cancel"
      BY <2>1 DEF CancelOne
    <3>2. PICK i \in DOMAIN orders : i = id
      BY <1>2, <3>1
    <3>3. Kept(orders, i)
      BY <1>1 DEF TypeOK, Kept, Row, AnyRow
    <3>4. BesidesStand(i) /\ DOMAIN orders' = DOMAIN orders \ {i}
      BY <1>1, <3>1, <3>2, <3>3, UnlinkBesides
    <3>5. i \notin DOMAIN claims
      BY <1>1 DEF NeverInBothPlaces
    <3>6. row = orders[i]
      BY <3>1, <3>2
    <3>. HIDE DEF row, id
    <3>. QED
      BY <3>1, <3>2, <3>4, <3>5, <3>6 DEF AmountIn
  <2>2. CASE ClaimOne
    <3>1. /\ claims' = [i \in DOMAIN claims \ {id} |-> claims[i]] /\ UNCHANGED orders
          /\ tx.op = "claim" /\ row = claims[id]
      BY <2>2 DEF ClaimOne, book
    <3>2. id \in DOMAIN claims /\ id \notin DOMAIN orders
      BY <1>1, <1>2, <3>1 DEF NeverInBothPlaces
    <3>3. BesidesStand(id)
      BY <3>1 DEF BesidesStand, SameOrder
    <3>. HIDE DEF row, id
    <3>. QED
      BY <3>1, <3>2, <3>3 DEF AmountIn
  <2>. QED
    BY <2>1, <2>2
<1>. HIDE DEF rows, row, rf, id
<1>8. PICK i \in Ids : i = id
  BY <1>2
<1>9. ASSUME NEW s \in Sides
      PROVE  escrow'[s] + Unbooked(s)'
               = escrow[s] + Unbooked(s) + (Amount(s, i)' - Amount(s, i))
  <2>1. /\ Unbooked(s) = 0 - tx.refund[s]
        /\ Unbooked(s)' = 0 - rf[s]
    BY <1>1, <1>5, UnbookedBefore, UnbookedAfter
  <2>2. Amount(s, i) = (IF row.side = s THEN row.remaining ELSE 0) /\ Amount(s, i)' = 0
    BY <1>7, <1>8 DEF Amount
  <2>3. escrow[s] \in Int /\ escrow'[s] = escrow[s] /\ tx.refund[s] \in Int
    BY <1>1, <1>4, <1>6 DEF TypeOK
  <2>. QED
    BY <2>1, <2>2, <2>3, <1>3, <1>6
<1>10. EscrowIsOwed'
  <2>1. BesidesStand(i)
    BY <1>7, <1>8
  <2>. QED
    BY <1>1, <1>9, <2>1, BooksMove
<1>. QED
  BY <1>1, <1>5, <1>10 DEF Balanced, OnItsSide

LEMMA PayoutBalanced ==
  ASSUME IInv, Balanced, FinishWithdraw \/ FinishMatch \/ FinishClean
  PROVE  Balanced'
<1>1. TypeOK /\ TxOK
  BY DEF IInv, BookInv, TxInv
<1>2. tx' = Idle /\ UNCHANGED <<orders, claims>>
  BY DEF FinishWithdraw, FinishMatch, FinishClean, book
<1>3. ASSUME NEW s \in Sides
      PROVE  escrow'[s] = escrow[s] + Unbooked(s)
  <2>1. CASE FinishWithdraw
    <3>1. Unbooked(s) = 0 - tx.refund[s] /\ escrow'[s] = escrow[s] - tx.refund[s]
      BY <1>1, <2>1, UnbookedBefore DEF FinishWithdraw
    <3>2. tx.refund[s] \in Int /\ escrow[s] \in Int
      BY <1>1, <2>1, OpOfTx DEF FinishWithdraw, WithdrawTx, TypeOK
    <3>. QED
      BY <3>1, <3>2
  <2>2. CASE FinishMatch
    <3>1. tx \in MatchTx /\ escrow \in [Sides -> Nat]
      BY <1>1, <2>2, OpOfTx DEF FinishMatch, TypeOK
    <3>2. Unbooked(s) = IF tx.side = s THEN 0 - tx.debit ELSE 0
      BY <1>1, <2>2, UnbookedBefore DEF FinishMatch
    <3>3. escrow'[s] = IF tx.side = s THEN escrow[s] - tx.debit ELSE escrow[s]
      BY <2>2, <3>1 DEF FinishMatch
    <3>. QED
      BY <3>1, <3>2, <3>3 DEF MatchTx
  <2>3. CASE FinishClean
    BY <1>1, <2>3 DEF FinishClean, money, Unbooked, TypeOK
  <2>. QED
    BY <2>1, <2>2, <2>3
<1>. QED
  BY <1>2, <1>3, PaidBalanced

\* The walk passes an order by: it stays, or it is parked.
LEMMA PassBalanced ==
  ASSUME IInv, IInv', Balanced, CleanVisit \/ MatchDead \/ MatchPass
  PROVE  Balanced'
<1>. DEFINE id == tx.cur
<1>1. /\ BookInv /\ BookInv' /\ TypeOK /\ NeverInBothPlaces /\ TxOK /\ TxOK' /\ EscrowIsOwed
      /\ tx.op \in {"clean", "match"} /\ id # 0 /\ id \in DOMAIN orders /\ OnItsSide
      /\ tx \in CleanTx \cup MatchTx
  BY OpOfTx DEF IInv, BookInv, TxInv, CursorOK, Balanced, CleanVisit, CleanOn, MatchDead,
                MatchPass, MatchOn
<1>2. id \in Ids /\ orders[id] \in Row /\ id \notin DOMAIN claims
  BY <1>1 DEF TypeOK, NeverInBothPlaces
<1>3. /\ tx'.op = tx.op /\ tx'.side = tx.side /\ tx'.cur = orders[id].next
      /\ tx.op = "match" => tx'.debit = tx.debit
  BY <1>1 DEF CleanVisit, MatchDead, MatchPass, Passed, Advance, CleanTx, MatchTx
<1>4. /\ UNCHANGED escrow
      /\ \/ UNCHANGED <<orders, claims>>
         \/ \E reason \in Reasons : Park(orders, id, reason)
  BY DEF CleanVisit, MatchDead, MatchPass, book, money, CleanReason, DeadReason, Reasons
<1>5. PICK i \in DOMAIN orders : i = id
  BY <1>1
<1>6. BesidesStand(i) /\ \A s \in Sides : Amount(s, i)' = Amount(s, i)
  <2>1. CASE UNCHANGED <<orders, claims>>
    BY <1>1, <2>1 DEF BesidesStand, SameOrder, Amount, AmountIn
  <2>2. CASE \E reason \in Reasons : Park(orders, id, reason)
    <3>1. PICK reason \in Reasons : Park(orders, i, reason)
      BY <1>5, <2>2
    <3>2. Kept(orders, i) /\ i \notin DOMAIN claims
      BY <1>2, <1>5 DEF Kept, Row, AnyRow
    <3>3. /\ BesidesStand(i) /\ DOMAIN orders' = DOMAIN orders \ {i}
          /\ i \in DOMAIN claims' /\ claims'[i].side = orders[i].side
          /\ claims'[i].remaining = orders[i].remaining
      BY <1>1, <3>1, <3>2, ParkBesides
    <3>. QED
      BY <3>2, <3>3 DEF Amount, AmountIn
  <2>. QED
    BY <1>4, <2>1, <2>2
<1>7. \A s \in Sides : Unbooked(s)' = Unbooked(s)
  BY <1>1, <1>3 DEF Unbooked
<1>8. i \in Ids /\ \A s \in Sides : Amount(s, i) \in Int /\ escrow[s] \in Int /\ Unbooked(s) \in Int
  BY <1>1, <1>2, <1>5, UnbookedIsInt DEF TypeOK, Row, Amount, AmountIn
<1>9. EscrowIsOwed'
  BY <1>1, <1>4, <1>6, <1>7, <1>8, BooksMove
<1>10. OnItsSide'
  <2>1. BesidesStand(tx.cur)
    BY <1>5, <1>6
  <2>. QED
    BY <1>1, <1>3, <2>1, WalkGoesOn
<1>. QED
  BY <1>9, <1>10 DEF Balanced

LEMMA FillBalanced ==
  ASSUME IInv, IInv', Balanced, MatchFill
  PROVE  Balanced'
<1>. DEFINE o == orders[tx.cur]
            t == Trade(o, tx.left)
            out == IF o.side = "bid" THEN t.cost ELSE t.fill
            in == IF o.side = "bid" THEN t.fill ELSE t.cost
            commission == (out * TakerBps(tx.bps)) \div BPS
            debit == tx.debit + out
            rem == o.remaining - out
<1>1. /\ BookInv /\ BookInv' /\ TypeOK /\ NeverInBothPlaces /\ TxOK /\ TxOK' /\ EscrowIsOwed
      /\ tx.op = "match" /\ tx.cur # 0 /\ OnItsSide
  BY DEF IInv, BookInv, TxInv, Balanced, MatchFill, MatchOn
<1>2. tx \in MatchTx /\ tx.cur \in DOMAIN orders /\ o \in Row
  BY <1>1, MatchCursor
<1>3. /\ Finalize(tx.cur, rem) /\ UNCHANGED escrow
      /\ tx' = [Advance(o) EXCEPT !.used = @ + 1, !.left = @ - in,
                  !.debit = @ + out, !.net = @ + (out - commission),
                  !.fees = @ + commission]
  BY DEF MatchFill, money
<1>4. out \in Int /\ rem \in Int /\ debit \in Int /\ o.remaining \in Int
  <2>1. tx.left \in Int /\ tx.debit \in Int /\ o.remaining \in Int
    BY <1>2 DEF MatchTx, Row
  <2>2. out \in Int
    <3>1. t.fill \in Int /\ t.cost \in Int
      BY <1>2, <2>1, TradeIsInt
    <3>. HIDE DEF t
    <3>. QED
      BY <3>1
  <2>. HIDE DEF out
  <2>. QED
    BY <2>1, <2>2
<1>. HIDE DEF out, in, commission
<1>5. /\ tx'.op = "match" /\ tx'.side = tx.side /\ tx'.cur = o.next /\ tx'.debit = debit
  BY <1>2, <1>3, <1>1 DEF Advance, MatchTx
<1>6. PICK i \in DOMAIN orders : i = tx.cur
  BY <1>2
<1>7. PICK r \in Int : r = rem
  BY <1>4
<1>8. /\ BesidesStand(i)
      /\ \A s \in Sides : Amount(s, i)' = IF orders[i].side = s THEN r ELSE 0
  BY <1>1, <1>3, <1>6, <1>7, FinalizeBesides
<1>9. i \in Ids /\ i \notin DOMAIN claims
  BY <1>1 DEF TypeOK, NeverInBothPlaces
<1>10. ASSUME NEW s \in Sides
       PROVE  escrow'[s] + Unbooked(s)'
                = escrow[s] + Unbooked(s) + (Amount(s, i)' - Amount(s, i))
  <2>1. o.side = tx.side
    BY <1>1 DEF OnItsSide
  <2>2. /\ Unbooked(s) = IF o.side = s THEN 0 - tx.debit ELSE 0
        /\ Unbooked(s)' = IF o.side = s THEN 0 - debit ELSE 0
    BY <1>1, <1>5, <2>1, UnbookedBefore, UnbookedAfter
  <2>3. /\ Amount(s, i) = IF o.side = s THEN o.remaining ELSE 0
        /\ Amount(s, i)' = IF o.side = s THEN o.remaining - out ELSE 0
    BY <1>6, <1>7, <1>8, <1>9 DEF Amount, AmountIn
  <2>4. escrow[s] \in Int /\ escrow'[s] = escrow[s] /\ tx.debit \in Int
    BY <1>1, <1>2, <1>3 DEF TypeOK, MatchTx
  <2>. QED
    BY <2>2, <2>3, <2>4, <1>4
<1>11. EscrowIsOwed'
  BY <1>1, <1>8, <1>9, <1>10, BooksMove
<1>12. OnItsSide'
  <2>1. BesidesStand(tx.cur)
    BY <1>6, <1>8
  <2>. QED
    BY <1>1, <1>5, <2>1, WalkGoesOn
<1>. QED
  BY <1>11, <1>12 DEF Balanced

LEMMA NextBalanced ==
  ASSUME IInv, IInv', Balanced, [Next]_vars
  PROVE  Balanced'
<1>1. CASE Message
  BY <1>1, BeginStep
<1>2. CASE TxStep
  <2>1. CASE Probe \/ WalkForward \/ WalkBack
    BY <2>1, AsideStep DEF Probe, WalkForward, WalkBack, book, money
  <2>. QED
    BY <1>2, <2>1, PlaceStepBalanced, RepriceEndBalanced, WithdrawBalanced,
       PayoutBalanced, PassBalanced, FillBalanced DEF TxStep
<1>3. CASE Environment
  <2>1. UNCHANGED <<orders, claims, escrow, tx>>
    BY <1>3 DEF Environment, SetPaused, CodeIdsChange, Tick, SetBlacklisted,
                UpdateLimitCleanConfig, UpdateLimitOrderConfig, book, money
  <2>. QED
    BY <2>1, AsideStep
<1>4. CASE UNCHANGED vars
  BY <1>4, AsideStep DEF vars
<1>. QED
  BY <1>1, <1>2, <1>3, <1>4 DEF Next

LEMMA InitBalanced ==
  ASSUME Init, IInv
  PROVE  Balanced
<1>1. tx = Idle /\ claims = <<>> /\ Accounts(orders, claims)
  BY AccountsOfBook DEF Init, IInv
<1>2. \A s \in Sides : Unbooked(s) = 0
  BY <1>1 DEF Unbooked, Idle
<1>3. ASSUME NEW s \in Sides
      PROVE  escrow[s] \in Int /\ OwedTo(s) = escrow[s]
  <2>1. CASE EmptyBook
    <3>1. \A i \in Ids : LedgerOf(orders, claims, s)[i] = 0
      BY <1>1, <2>1 DEF EmptyBook, LedgerOf, AmountIn
    <3>. QED
      BY <1>1, <2>1, <3>1, OwedIsLedger, IdsFinite, SumOfZeros
         DEF EmptyBook, NoEscrow, OwedTo
  <2>2. ASSUME NEW o \in Owners, NEW r \in Legacy, LegacyBook(o, r)
        PROVE  escrow[s] \in Int /\ OwedTo(s) = escrow[s]
    <3>. DEFINE l == LedgerOf(orders, claims, s)
                none == [i \in Ids |-> 0]
    <3>1. r.side \in Sides /\ r.amount \in Nat
      BY InputAssumption DEF Rung
    <3>2. DOMAIN orders = {1} /\ orders[1].side = r.side /\ orders[1].remaining = r.amount
      BY <2>2 DEF LegacyBook
    <3>3. escrow[s] = IF r.side = s THEN r.amount ELSE 0
      BY <2>2, <3>1 DEF LegacyBook, NoEscrow
    <3>4. 1 \in Ids /\ l[1] = (IF r.side = s THEN r.amount ELSE 0)
          /\ \A i \in Ids \ {1} : l[i] = none[i]
      BY <1>1, <3>2, IdsFinite DEF LedgerOf, AmountIn
    <3>5. \A i \in Ids : l[i] \in Int /\ none[i] \in Int /\ none[i] = 0
      BY <1>1, LedgerIsInt
    <3>6. SumFunctionOnSet(none, Ids) = 0
      BY <3>5, IdsFinite, SumOfZeros
    <3>7. OwedTo(s) = SumFunctionOnSet(l, Ids)
      BY <1>1, OwedIsLedger DEF OwedTo
    <3>. HIDE DEF l, none
    <3>8. SumFunctionOnSet(l, Ids) = SumFunctionOnSet(none, Ids) + (l[1] - none[1])
      BY <3>4, <3>5, IdsFinite, SumAfterChange
    <3>. QED
      BY <3>1, <3>3, <3>4, <3>5, <3>6, <3>7, <3>8
  <2>. QED
    BY <2>1, <2>2 DEF Init
<1>. QED
  BY <1>1, <1>2, <1>3 DEF Balanced, OnItsSide, EscrowIsOwed, Idle

\* In every state, between any two iterations of a message too, the pending escrow
\* with what the message has yet to book is the sum of what all orders on the book
\* and all parked orders are owed: nothing is created, lost or paid out twice.
THEOREM EscrowAlwaysOwed == Spec => []EscrowIsOwed
<1>1. Init => IInv /\ Balanced
  BY InitIInv, InitBalanced
<1>2. IInv /\ Balanced /\ [Next]_vars => (IInv /\ Balanced)'
  BY NextIInv, NextBalanced
<1>3. IInv /\ Balanced => EscrowIsOwed
  BY DEF Balanced
<1>. QED
  BY <1>1, <1>2, <1>3, PTL DEF Spec

-----------------------------------------------------------------------------
(* Ids.  A batch that places nothing gives its block of ids back, so an id *)
(* below the counter is closed only if none of the block is: all of it is  *)
(* in the plan.                                                            *)
BlockPending ==
  tx.op = "place" => \A i \in nextId - Len(tx.plan) .. nextId - 1 : Pending(i)

\* Positions that are all different are all of them.
LEMMA RankReachesAll ==
  ASSUME NEW n \in Nat, NEW rank \in [1 .. n -> 1 .. n],
         \A j, k \in 1 .. n : j # k => rank[j] # rank[k]
  PROVE  \A p \in 1 .. n : \E k \in 1 .. n : rank[k] = p
<1>1. rank \in Injection(1 .. n, 1 .. n)
  BY DEF Injection, IsInjective
<1>2. IsFiniteSet(1 .. n)
  BY FS_Interval
<1>3. rank \in Surjection(1 .. n, 1 .. n)
  BY <1>1, <1>2, FS_Injection
<1>. QED
  BY <1>3 DEF Surjection

\* No id enters the two maps, and the counter stands.
LEMMA IdsStand ==
  ASSUME UNCHANGED nextId, Used' \subseteq Used, tx'.op # "place"
  PROVE  BlockPending' /\ \A i \in Ids : Closed(i) => Closed(i)'
  BY DEF BlockPending, Closed, Pending, Used

LEMMA PlaceBatchIds ==
  ASSUME IInv, IInv', NEW o \in Owners, NEW s \in Sides, NEW bps \in FeeRates,
         NEW n \in Nat \ {0}, NEW input \in [1 .. n -> InputRung],
         NEW rank \in [1 .. n -> 1 .. n],
         \A j, k \in 1 .. n : j # k => rank[j] # rank[k],
         PlaceBatch(o, s, input, rank, bps)
  PROVE  BlockPending' /\ \A i \in Ids : Closed(i) => Closed(i)'
<1>. DEFINE plan == Plan(input, rank)
<1>0. Len(input) = n
  BY SeqOfFunction
<1>1. Len(input) = n /\ TypeOK /\ nextId \in Nat
  <2>1. TypeOK /\ MaxId \in Nat
    BY BoundAssumption DEF IInv, BookInv
  <2>2. nextId \in 1 .. MaxId + 1
    BY <2>1 DEF TypeOK
  <2>3. nextId \in Nat
    BY <2>1, <2>2
  <2>. QED
    BY <1>0, <2>1, <2>3
<1>2. /\ tx'.op = "place" /\ tx'.plan = plan /\ nextId' = nextId + n
      /\ nextId + n - 1 <= MaxId /\ UNCHANGED <<orders, claims>>
  BY <1>1 DEF PlaceBatch, Reserved, book
<1>3. PlanOK(plan, n, input, rank)
  BY <1>1, <1>2, PlanOfInput
<1>. HIDE DEF plan
<1>4. Len(plan) = n /\ DOMAIN plan = 1 .. n /\ \A k \in 1 .. n : plan[k].id = nextId + rank[k] - 1
  BY <1>3, LenProperties DEF PlanOK
<1>5. ASSUME NEW i \in nextId .. nextId + n - 1
      PROVE  Pending(i)'
  <2>1. i - nextId + 1 \in 1 .. n
    BY <1>1
  <2>2. PICK k \in 1 .. n : rank[k] = i - nextId + 1
    BY <2>1, RankReachesAll
  <2>3. plan[k].id = nextId + rank[k] - 1
    BY <1>4
  <2>4. plan[k].id = i
    BY <1>1, <2>2, <2>3
  <2>. QED
    BY <1>2, <1>4, <2>4 DEF Pending
<1>6. ASSUME NEW i \in Ids, Closed(i)
      PROVE  Closed(i)'
  <2>1. i < nextId /\ i \notin DOMAIN orders' \cup DOMAIN claims' /\ i \in 1 .. nextId' - 1
    BY <1>1, <1>2, <1>6 DEF Closed
  <2>2. \A k \in 1 .. n : plan[k].id >= nextId
    <3>1. \A k \in 1 .. n : rank[k] \in 1 .. n
      OBVIOUS
    <3>. QED
      BY <1>1, <1>4, <3>1
  <2>3. \A k \in 1 .. n : plan[k].id # i
    BY <1>1, <2>1, <2>2
  <2>4. ~Pending(i)'
    BY <1>2, <1>4, <2>3 DEF Pending
  <2>. QED
    BY <2>1, <2>4 DEF Closed
<1>7. nextId' - Len(tx'.plan) = nextId /\ nextId' - 1 = nextId + n - 1
  BY <1>1, <1>2, <1>4
<1>. QED
  BY <1>5, <1>6, <1>7 DEF BlockPending

LEMMA PlaceStepIds ==
  ASSUME IInv, IInv', BlockPending, PlaceRung \/ SkipRung \/ FinishPlace
  PROVE  BlockPending' /\ \A i \in Ids : Closed(i) => Closed(i)'
<1>1. /\ TypeOK /\ tx.op = "place" /\ tx \in PlaceTx /\ PlaceOK /\ WalkFor /\ InsOK
      /\ nextId \in Nat
  BY OpOfTx DEF IInv, BookInv, TxInv, WalkInv, TypeOK, PlaceRung, SkipRung, FinishPlace
<1>2. tx.plan \in Seq(PlanRow) /\ Len(tx.plan) \in Nat /\ DOMAIN tx.plan = 1 .. Len(tx.plan)
  <2>1. tx.plan \in Seq(PlanRow)
    BY <1>1 DEF PlaceTx
  <2>. QED
    BY <2>1, LenProperties
<1>3. CASE PlaceRung \/ SkipRung
  <2>1. tx'.op = "place" /\ tx'.plan = tx.plan /\ UNCHANGED nextId
    BY <1>1, <1>3 DEF PlaceRung, SkipRung, PlaceTx
  <2>2. tx.k \in 1 .. Len(tx.plan)
    BY <1>1, <1>2, <1>3, PhaseOfIns DEF PlaceRung, SkipRung, WalkFor, PlaceOK
  <2>3. Used' \subseteq Used \cup {tx.plan[tx.k].id}
    BY <1>3 DEF PlaceRung, SkipRung, LinkIn, Used, book
  <2>4. Pending(tx.plan[tx.k].id)
    BY <1>1, <1>2, <2>2 DEF Pending
  <2>5. \A i : Pending(i)' <=> Pending(i)
    BY <1>1, <2>1 DEF Pending
  <2>6. BlockPending'
    BY <1>1, <2>1, <2>5 DEF BlockPending
  <2>7. ASSUME NEW i \in Ids, Closed(i)
        PROVE  Closed(i)'
    <3>1. i \in 1 .. nextId - 1 /\ i \notin Used /\ ~Pending(i)
      BY <2>7 DEF Closed, Used
    <3>2. i \notin Used'
      BY <2>3, <2>4, <3>1
    <3>. QED
      BY <2>1, <2>5, <3>1, <3>2 DEF Closed, Used
  <2>. QED
    BY <2>6, <2>7
<1>4. CASE FinishPlace
  <2>1. /\ tx' = Idle /\ UNCHANGED <<orders, claims>>
        /\ nextId' = nextId \/ nextId' = nextId - Len(tx.plan)
    BY <1>4 DEF FinishPlace, book
  <2>2. tx'.op = "idle"
    BY <2>1 DEF Idle
  <2>3. ASSUME NEW i \in Ids, Closed(i)
        PROVE  i \in 1 .. nextId' - 1
    <3>1. i \in 1 .. nextId - 1 /\ ~Pending(i)
      BY <2>3 DEF Closed
    <3>2. i \notin nextId - Len(tx.plan) .. nextId - 1
      BY <1>1, <3>1 DEF BlockPending
    <3>. QED
      BY <1>1, <1>2, <2>1, <3>1, <3>2
  <2>. QED
    BY <2>1, <2>2, <2>3 DEF BlockPending, Closed, Pending
<1>. QED
  BY <1>3, <1>4

\* Parking moves an id from one map to the other.
LEMMA ParkedIsUsed ==
  ASSUME NEW os, DOMAIN os = DOMAIN orders, NEW id \in DOMAIN orders, NEW reason,
         Park(os, id, reason)
  PROVE  Used' \subseteq Used
  BY DEF Park, Unlink, Used

LEMMA OtherStepIds ==
  ASSUME IInv, Reprice \/ Exit \/ Clean \/ Match \/ Relink \/ RevertUpdatePrice
                 \/ CancelOne \/ ClaimOne \/ FinishWithdraw \/ CleanVisit \/ FinishClean
                 \/ MatchDead \/ MatchFill \/ MatchPass \/ FinishMatch
  PROVE  UNCHANGED nextId /\ Used' \subseteq Used /\ tx'.op # "place"
<1>1. TypeOK /\ TxOK /\ RepriceOK /\ CursorOK
  BY DEF IInv, BookInv, TxInv
<1>2. CASE Reprice
  <2>1. PICK id \in DOMAIN orders, p \in RepricePrices, h \in Hints, m \in StepCaps :
          UpdatePrice(id, p, h, m)
    BY <1>2 DEF Reprice
  <2>2. DOMAIN Detach(orders, id) = DOMAIN orders
    BY <1>1, RowsOfOrders, DetachRows
  <2>. QED
    BY <2>1, <2>2 DEF UpdatePrice, Used
<1>3. CASE Exit \/ Clean \/ Match
  BY <1>3 DEF Exit, Cancel, Claim, Withdraw, Clean, CleanBook, Match, MatchBook, Used, book
<1>4. CASE Relink \/ RevertUpdatePrice
  <2>1. tx.id \in DOMAIN orders
    BY <1>1, <1>4 DEF Relink, RevertUpdatePrice, RepriceOK
  <2>. QED
    BY <1>4, <2>1 DEF Relink, RevertUpdatePrice, LinkIn, Used, Idle
<1>5. CASE CancelOne \/ ClaimOne
  <2>1. tx \in WithdrawTx
    BY <1>1, <1>5, OpOfTx DEF CancelOne, ClaimOne
  <2>. QED
    BY <1>5, <2>1 DEF CancelOne, ClaimOne, Refunded, Unlink, Used, WithdrawTx, book
<1>6. CASE FinishWithdraw \/ FinishClean \/ FinishMatch
  BY <1>6 DEF FinishWithdraw, FinishClean, FinishMatch, Used, book, Idle
<1>7. CASE CleanVisit \/ MatchDead \/ MatchPass
  <2>1. tx.cur \in DOMAIN orders /\ tx \in CleanTx \cup MatchTx
    BY <1>1, <1>7, OpOfTx DEF CleanVisit, CleanOn, MatchDead, MatchPass, MatchOn, CursorOK
  <2>2. tx'.op # "place" /\ UNCHANGED nextId
    BY <1>7, <2>1 DEF CleanVisit, MatchDead, MatchPass, Passed, Advance, CleanTx, MatchTx
  <2>3. UNCHANGED <<orders, claims>> \/ \E reason \in Reasons : Park(orders, tx.cur, reason)
    BY <1>7 DEF CleanVisit, MatchDead, MatchPass, CleanReason, DeadReason, Reasons, book
  <2>4. Used' \subseteq Used
    BY <2>1, <2>3, ParkedIsUsed DEF Used
  <2>. QED
    BY <2>2, <2>4
<1>8. CASE MatchFill
  <2>1. tx.cur \in DOMAIN orders /\ tx \in MatchTx
    BY <1>1, <1>8, OpOfTx DEF MatchFill, MatchOn, CursorOK
  <2>2. tx'.op # "place" /\ UNCHANGED nextId
    BY <1>8, <2>1 DEF MatchFill, Advance, MatchTx
  <2>3. PICK rem : Finalize(tx.cur, rem)
    BY <1>8 DEF MatchFill
  <2>. DEFINE os == [orders EXCEPT ![tx.cur].remaining = rem]
  <2>4. DOMAIN os = DOMAIN orders
    OBVIOUS
  <2>5. \/ orders' = Unlink(os, tx.cur) /\ UNCHANGED claims
        \/ \E reason \in Reasons : Park(os, tx.cur, reason)
        \/ orders' = os /\ UNCHANGED claims
    BY <2>3 DEF Finalize, Reasons
  <2>. HIDE DEF os
  <2>6. Used' \subseteq Used
    BY <2>1, <2>4, <2>5, ParkedIsUsed DEF Unlink, Used
  <2>. QED
    BY <2>2, <2>6
<1>. QED
  BY <1>2, <1>3, <1>4, <1>5, <1>6, <1>7, <1>8

LEMMA NextIds ==
  ASSUME IInv, IInv', BlockPending, [Next]_vars
  PROVE  BlockPending' /\ \A i \in Ids : Closed(i) => Closed(i)'
<1>1. CASE Place
  <2>1. PICK o \in Owners, s \in Sides, bps \in FeeRates, n \in Nat \ {0} :
          \E input \in [1 .. n -> InputRung], rank \in [1 .. n -> 1 .. n] :
            /\ \A j, k \in 1 .. n : j # k => rank[j] # rank[k]
            /\ PlaceBatch(o, s, input, rank, bps)
    BY <1>1, PlaceIsBatch DEF IInv, BookInv
  <2>. QED
    BY <2>1, PlaceBatchIds
<1>2. CASE PlaceRung \/ SkipRung \/ FinishPlace
  BY <1>2, PlaceStepIds
<1>3. CASE UNCHANGED <<orders, claims, nextId, tx>>
  BY <1>3 DEF BlockPending, Closed, Pending
<1>4. CASE Environment \/ Probe \/ WalkForward \/ WalkBack \/ UNCHANGED vars
  <2>1. UNCHANGED <<orders, claims, nextId, tx>>
    BY <1>4 DEF Environment, SetPaused, CodeIdsChange, Tick, SetBlacklisted,
                UpdateLimitCleanConfig, UpdateLimitOrderConfig, Probe, WalkForward,
                WalkBack, book, money, vars
  <2>. QED
    BY <1>3, <2>1
<1>5. CASE \/ Reprice \/ Exit \/ Clean \/ Match \/ Relink \/ RevertUpdatePrice
           \/ CancelOne \/ ClaimOne \/ FinishWithdraw \/ CleanVisit \/ FinishClean
           \/ MatchDead \/ MatchFill \/ MatchPass \/ FinishMatch
  BY <1>5, OtherStepIds, IdsStand
<1>. QED
  BY <1>1, <1>2, <1>4, <1>5 DEF Next, Message, TxStep

\* An id below the counter that is in neither map and in no running batch stays
\* so, whatever batch, price update, fill or clean follows: an order that was
\* cancelled, claimed or filled can never be addressed, or paid, again.
THEOREM IdsClosedForGood == Spec => ClosedForGood
<1>0. Init => tx.op = "idle"
  BY DEF Init, Idle
<1>1. Init => IInv /\ BlockPending
  BY <1>0, InitIInv DEF BlockPending
<1>2. IInv /\ BlockPending /\ [Next]_vars
        => /\ (IInv /\ BlockPending)'
           /\ \A i \in Ids : Closed(i) => Closed(i)'
  BY NextIInv, NextIds
<1>3. IInv /\ BlockPending /\ [Next]_vars => [\A i \in Ids : Closed(i) => Closed(i)']_vars
  BY <1>2
<1>. QED
  BY <1>1, <1>2, <1>3, PTL DEF Spec, ClosedForGood

-----------------------------------------------------------------------------
(* Cleaning.  The soundness of the lists is a fact about neighbours; that  *)
(* a walk from the head comes to every order of the side takes the rank    *)
(* that grows along the list: an order with the least rank among those not *)
(* come to would have a predecessor the walk does come to.                 *)
LEMMA LeastRank ==
  ASSUME NEW V, IsFiniteSet(V), V # {}, NEW rank, \A x \in V : rank[x] \in Int
  PROVE  \E x \in V : \A y \in V : rank[x] <= rank[y]
<1>. DEFINE Sinks(U) == U # {} /\ \A x \in U : \E y \in U : rank[y] < rank[x]
            C == {U \in SUBSET V : Sinks(U)}
<1>. SUFFICES ASSUME \A x \in V : \E y \in V : rank[y] < rank[x]
              PROVE  FALSE
  OBVIOUS
<1>1. V \in C
  OBVIOUS
<1>2. C \subseteq SUBSET V /\ C # {}
  BY <1>1
<1>. HIDE DEF C
<1>3. PICK U \in C : \A x \in U : U \ {x} \notin C
  BY <1>2, SmallestSubset
<1>4. U \subseteq V /\ U # {} /\ \A x \in U : \E y \in U : rank[y] < rank[x]
  BY <1>3 DEF C
<1>5. PICK x \in U : TRUE
  BY <1>4
<1>6. PICK w \in U : rank[w] < rank[x]
  BY <1>4
<1>7. w # x /\ \A u \in U : rank[u] \in Int
  BY <1>4, <1>6
<1>8. ASSUME NEW u \in U \ {x}
      PROVE  \E y \in U \ {x} : rank[y] < rank[u]
  <2>1. PICK v \in U : rank[v] < rank[u]
    BY <1>4
  <2>2. CASE v = x
    <3>1. rank[w] < rank[u]
      BY <1>6, <1>7, <2>1, <2>2
    <3>. QED
      BY <1>7, <3>1
  <2>. QED
    BY <2>1, <2>2
<1>9. U \ {x} \in C
  BY <1>4, <1>7, <1>8 DEF C
<1>. QED
  BY <1>3, <1>5, <1>9

\* From the head of a side every order of it is come to.
LEMMA HeadReachesAll ==
  ASSUME TypeOK, Listed, Booked = DOMAIN orders, NEW s \in Sides,
         NEW j \in DOMAIN orders, orders[j].side = s
  PROVE  j \in Reach(head[s])
<1>. SUFFICES ASSUME NEW S \in SUBSET DOMAIN orders, Onward(head[s], S), j \notin S
              PROVE  FALSE
  BY DEF Reach
<1>1. PICK rank \in [Ids -> Int] : Linked(orders, head, DOMAIN orders, rank)
  BY DEF Listed, InLists
<1>. DEFINE V == {k \in DOMAIN orders : orders[k].side = s /\ k \notin S}
<1>2. IsFiniteSet(V) /\ V # {} /\ \A k \in V : rank[k] \in Int
  <2>1. V \subseteq Ids
    BY DEF TypeOK
  <2>. QED
    BY <2>1, IdsFinite, FS_Subset
<1>. HIDE DEF V
<1>3. PICK x \in V : \A y \in V : rank[x] <= rank[y]
  BY <1>2, LeastRank
<1>4. x \in DOMAIN orders /\ orders[x].side = s /\ x \notin S /\ x # 0 /\ x \in Ids
  BY <1>3 DEF V, TypeOK, Ids
<1>5. orders[x].prev # 0
  <2>1. orders[x].prev = 0 => head[s] = x
    BY <1>1, <1>4 DEF Linked
  <2>. QED
    BY <1>4, <2>1 DEF Onward
<1>. DEFINE p == orders[x].prev
<1>6. p \in DOMAIN orders /\ orders[p].next = x
  BY <1>1, <1>4, <1>5 DEF Linked
<1>7. orders[p].side = s /\ rank[p] < rank[x] /\ p \in Ids
  BY <1>1, <1>4, <1>6 DEF Linked, TypeOK
<1>8. p \in S
  <2>1. rank[p] \in Int /\ rank[x] \in Int
    BY <1>4, <1>7
  <2>2. p \notin V
    BY <1>3, <1>7, <2>1
  <2>. QED
    BY <1>6, <1>7, <2>2 DEF V
<1>. QED
  BY <1>4, <1>6, <1>8 DEF Onward

\* The walk that goes on past order c, on the book still or parked, comes to all
\* it would have come to but c.
LEMMA ReachGoesOn ==
  ASSUME TypeOK, Listed, NEW c \in Booked, orders' = orders \/ orders' = Unlink(orders, c),
         NEW n, n = orders[c].next, NEW j \in Reach(c), j # c
  PROVE  (j \in Reach(n))'
<1>0. Rows(orders) /\ c \in DOMAIN orders /\ j \in DOMAIN orders
  BY RowsOfOrders DEF Booked, Reach
<1>1. /\ DOMAIN orders \ {c} \subseteq DOMAIN orders' /\ DOMAIN orders' \subseteq DOMAIN orders
      /\ \A k \in DOMAIN orders' \ {c} :
           orders'[k].next = orders[k].next \/ orders[k].next = c
  <2>1. CASE orders' = orders
    BY <2>1
  <2>2. CASE orders' = Unlink(orders, c)
    <3>1. /\ DOMAIN orders' = DOMAIN orders \ {c}
          /\ \A k \in DOMAIN orders \ {c} : orders'[k] = Bypass(orders, c)[k]
      BY <1>0, <2>2, UnlinkRows
    <3>2. \A k \in DOMAIN orders :
            Bypass(orders, c)[k].next = IF k = orders[c].prev THEN n ELSE orders[k].next
      BY <1>0, BypassRow
    <3>3. \A k \in DOMAIN orders : k = orders[c].prev => orders[k].next = c
      <4>1. orders[c].prev # 0 => orders[orders[c].prev].next = c
        BY Neighbours
      <4>. QED
        BY <4>1, <1>0, RowsOfOrders
    <3>. QED
      BY <3>1, <3>2, <3>3
  <2>. QED
    BY <2>1, <2>2
<1>2. ASSUME NEW S \in SUBSET DOMAIN orders', Onward(n, S)'
      PROVE  j \in S
  <2>. DEFINE T == S \cup {c}
  <2>1. T \in SUBSET DOMAIN orders
    BY <1>0, <1>1
  <2>2. n \in S \cup {0} /\ \A k \in S : orders'[k].next \in S \cup {0}
    BY <1>2 DEF Onward
  <2>3. \A k \in T : orders[k].next \in T \cup {0}
    BY <1>1, <2>2
  <2>4. Onward(c, T)
    BY <2>1, <2>3 DEF Onward
  <2>5. j \in T
    BY <2>1, <2>4 DEF Reach
  <2>. QED
    BY <2>5
<1>. QED
  BY <1>0, <1>1, <1>2 DEF Reach

LEMMA CleanVisitLeaves ==
  ASSUME IInv, CleanLeavesNothing, CleanVisit
  PROVE  CleanLeavesNothing'
<1>. DEFINE c == tx.cur
            n == orders[tx.cur].next
<1>1. /\ TypeOK /\ Listed /\ BookInv /\ tx.op = "clean" /\ tx \in CleanTx
      /\ c \in DOMAIN orders /\ c \in Booked /\ Booked = DOMAIN orders /\ orders[c] \in Row
  BY OpOfTx, RowsOfOrders DEF IInv, BookInv, TxInv, CursorOK, CleanVisit, CleanOn, TypeOK
<1>2. /\ tx'.op = "clean" /\ tx'.side = tx.side /\ tx'.cur = n /\ tx'.whole = tx.whole
      /\ UNCHANGED <<now, minRemaining>>
  BY <1>1 DEF CleanVisit, Passed, CleanTx, config
<1>3. PICK d \in Booked : d = c
  BY <1>1
<1>4. /\ \/ CleanReason(orders[d]) = "none" /\ orders' = orders
         \/ orders' = Unlink(orders, d)
      /\ n = orders[d].next /\ d \in DOMAIN orders
  BY <1>1, <1>3 DEF CleanVisit, Park, book
<1>5. PICK m : m = n
  OBVIOUS
<1>6. /\ DOMAIN orders' \subseteq DOMAIN orders
      /\ d \in DOMAIN orders' => CleanReason(orders[d]) = "none"
      /\ \A i \in DOMAIN orders' : SameOrder(orders'[i], orders[i])
  <2>1. Rows(orders)
    BY <1>1, RowsOfOrders
  <2>2. CASE orders' = Unlink(orders, d)
    <3>1. DOMAIN Unlink(orders, d) = DOMAIN orders \ {d}
      BY <1>4, <2>1, UnlinkRows
    <3>2. \A i \in DOMAIN orders \ {d} : SameOrder(Unlink(orders, d)[i], orders[i])
      BY <1>4, <2>1, UnlinkRows
    <3>. QED
      BY <2>2, <3>1, <3>2
  <2>3. CASE CleanReason(orders[d]) = "none" /\ orders' = orders
    BY <2>3 DEF SameOrder
  <2>. QED
    BY <1>4, <2>2, <2>3
<1>7. ASSUME NEW i \in LeftBehind', tx'.whole
      PROVE  (CleanReason(orders[i]) = "none")'
  <2>1. i \in DOMAIN orders' /\ orders'[i].side = tx.side /\ i \notin Reach(tx.cur)'
    BY <1>2, <1>7 DEF LeftBehind
  <2>2. ~(i \in Reach(m))'
    BY <1>2, <1>5, <2>1 DEF Reach, Onward
  <2>3. CleanReason(orders[i]) = "none"
    <3>1. CASE i = d
      BY <1>6, <2>1, <3>1
    <3>2. CASE i # d
      <4>1. i \notin Reach(d)
        <5>1. orders' = orders \/ orders' = Unlink(orders, d)
          BY <1>4
        <5>2. m = orders[d].next
          BY <1>4, <1>5
        <5>3. TypeOK /\ Listed
          BY <1>1
        <5>. HIDE DEF c, n
        <5>. QED
          BY <2>2, <3>2, <5>1, <5>2, <5>3, ReachGoesOn
      <4>2. i \in DOMAIN orders /\ orders[i].side = tx.side
        BY <1>6, <2>1 DEF SameOrder
      <4>3. i \notin Reach(tx.cur)
        BY <1>3, <4>1
      <4>4. i \in LeftBehind
        BY <4>2, <4>3 DEF LeftBehind
      <4>5. tx.whole
        BY <1>2, <1>7
      <4>. QED
        BY <1>1, <4>4, <4>5 DEF CleanLeavesNothing
    <3>. QED
      BY <3>1, <3>2
  <2>4. SameOrder(orders'[i], orders[i])
    BY <1>6, <2>1
  <2>5. now' = now /\ minRemaining' = minRemaining
    BY <1>2
  <2>. QED
    BY <2>3, <2>4, <2>5 DEF CleanReason, Expired, SameOrder
<1>8. \A i \in LeftBehind' : tx'.whole => (CleanReason(orders[i]) = "none")'
  BY <1>7
<1>. QED
  BY <1>8 DEF CleanLeavesNothing

LEMMA NextCleanLeaves ==
  ASSUME IInv, CleanLeavesNothing, [Next]_vars
  PROVE  CleanLeavesNothing'
<1>1. CASE Clean
  <2>1. PICK s \in Sides, caps \in CleanCaps, h \in Hints : CleanBook(s, caps, h)
    BY <1>1 DEF Clean
  <2>2. /\ tx.op = "idle" /\ UNCHANGED <<orders, head>>
        /\ tx'.side = s /\ tx'.cur = StartAt(h, s)
        /\ tx'.whole => StartAt(h, s) = head[s]
    BY <2>1 DEF CleanBook, book, Idle
  <2>3. TypeOK /\ Listed /\ Booked = DOMAIN orders
    BY <2>2, RowsOfOrders DEF IInv, BookInv
  <2>4. tx'.whole => LeftBehind' = {}
    <3>1. \A j \in DOMAIN orders : orders[j].side = s => j \in Reach(head[s])
      BY <2>3, HeadReachesAll
    <3>2. tx'.whole => tx'.cur = head[s]
      BY <2>2
    <3>. QED
      BY <2>2, <3>1, <3>2 DEF LeftBehind, Reach, Onward
  <2>. QED
    BY <2>4 DEF CleanLeavesNothing
<1>2. CASE CleanVisit
  BY <1>2, CleanVisitLeaves
<1>3. CASE tx'.op # "clean"
  BY <1>3 DEF CleanLeavesNothing
<1>4. CASE UNCHANGED <<orders, now, minRemaining, tx>>
  BY <1>4 DEF CleanLeavesNothing, LeftBehind, Reach, Onward, CleanReason, Expired
<1>5. CASE Probe \/ WalkForward \/ WalkBack \/ UNCHANGED vars
  BY <1>4, <1>5 DEF Probe, WalkForward, WalkBack, book, config, vars
<1>6. CASE Environment
  <2>1. tx' = Idle
    <3>1. CASE SetPaused \/ CodeIdsChange \/ Tick
      BY <3>1 DEF SetPaused, CodeIdsChange, Tick
    <3>2. CASE \E who \in Blacklistable : SetBlacklisted(who)
      BY <3>2 DEF SetBlacklisted
    <3>3. CASE \E s \in Sides, m \in CleanMins : UpdateLimitCleanConfig(s, m)
      BY <3>3 DEF UpdateLimitCleanConfig
    <3>4. CASE \E m \in RungCaps : UpdateLimitOrderConfig(m)
      BY <3>4 DEF UpdateLimitOrderConfig
    <3>. QED
      BY <1>6, <3>1, <3>2, <3>3, <3>4 DEF Environment
  <2>2. tx'.op = "idle"
    BY <2>1 DEF Idle
  <2>. QED
    BY <1>3, <2>2
<1>7. CASE \/ Place \/ Reprice \/ Exit \/ Match
  <2>1. CASE Place
    BY <1>3, <2>1 DEF Place, PlaceBatch
  <2>2. CASE Reprice
    BY <1>3, <2>2 DEF Reprice, UpdatePrice
  <2>3. CASE Exit
    BY <1>3, <2>3 DEF Exit, Cancel, Claim, Withdraw
  <2>4. CASE Match
    BY <1>3, <2>4 DEF Match, MatchBook
  <2>. QED
    BY <1>7, <2>1, <2>2, <2>3, <2>4
<1>9. CASE \/ FinishPlace \/ Relink \/ RevertUpdatePrice
           \/ FinishWithdraw \/ FinishClean \/ FinishMatch
  <2>1. tx' = Idle
    BY <1>9 DEF FinishPlace, Relink, RevertUpdatePrice, FinishWithdraw, FinishClean, FinishMatch
  <2>2. tx'.op = "idle"
    BY <2>1 DEF Idle
  <2>. QED
    BY <1>3, <2>2
<1>8. CASE PlaceRung \/ SkipRung \/ CancelOne \/ ClaimOne \/ MatchDead \/ MatchFill \/ MatchPass
  <2>1. tx \in PlaceTx \cup WithdrawTx \cup MatchTx
    BY <1>8, OpOfTx DEF IInv, TxInv, PlaceRung, SkipRung, CancelOne, ClaimOne, MatchDead,
                        MatchFill, MatchPass
  <2>2. tx'.op = tx.op
    BY <1>8, <2>1 DEF PlaceRung, SkipRung, CancelOne, ClaimOne, Refunded, MatchDead,
                      MatchFill, MatchPass, Advance, PlaceTx, WithdrawTx, MatchTx
  <2>. QED
    BY <1>3, <2>1, <2>2 DEF PlaceTx, WithdrawTx, MatchTx
<1>. QED
  BY <1>1, <1>2, <1>5, <1>6, <1>7, <1>8, <1>9 DEF Next, Message, TxStep

\* Wherever a clean from the head has got to, and however often keepers resume it
\* at the order it reports, no order it went past is expired, unfillable or below
\* the floor: parking one never makes the walk miss another.
THEOREM CleanNeverMisses == Spec => []CleanLeavesNothing
<1>0. Init => tx.op = "idle"
  BY DEF Init, Idle
<1>1. Init => IInv /\ CleanLeavesNothing
  BY <1>0, InitIInv DEF CleanLeavesNothing
<1>2. IInv /\ CleanLeavesNothing /\ [Next]_vars => (IInv /\ CleanLeavesNothing)'
  BY NextIInv, NextCleanLeaves
<1>. QED
  BY <1>1, <1>2, PTL DEF Spec

-----------------------------------------------------------------------------
(* The order in which the links serve, for any rows os. *)
Ends(os) == {S \in SUBSET DOMAIN os : \A k \in S : os[k].next \in S \cup {0}}

\* The orders the links come to from order i.
Behind(os, i) == {j \in DOMAIN os : \A S \in Ends(os) : os[i].next \in S \cup {0} => j \in S}

\* The pairs of the refinement mapping, one order at a time.
LEMMA ServedPairs ==
  ASSUME NEW os
  PROVE  /\ Served(os) = {e \in (DOMAIN os) \X (DOMAIN os) : e[2] \in Behind(os, e[1])}
         /\ \A i, j : <<i, j>> \in Served(os) <=> i \in DOMAIN os /\ j \in Behind(os, i)
<1>1. Served(os) \subseteq (DOMAIN os) \X (DOMAIN os)
  BY DEF Served
<1>2. \A i, j : <<i, j>> \in Served(os) <=> i \in DOMAIN os /\ j \in Behind(os, i)
  BY DEF Served, Behind, Ends
<1>3. \A e \in (DOMAIN os) \X (DOMAIN os) : e = <<e[1], e[2]>>
  OBVIOUS
<1>4. \A e \in (DOMAIN os) \X (DOMAIN os) : e \in Served(os) <=> e[2] \in Behind(os, e[1])
  BY <1>2, <1>3
<1>. QED
  BY <1>1, <1>2, <1>4

\* Only the links count.
LEMMA ServedByLinks ==
  ASSUME NEW os, NEW cs, DOMAIN cs = DOMAIN os, \A i \in DOMAIN os : cs[i].next = os[i].next
  PROVE  Served(cs) = Served(os)
<1>1. Ends(cs) = Ends(os)
  BY DEF Ends
<1>2. \A i \in DOMAIN os : Behind(cs, i) = Behind(os, i)
  BY <1>1 DEF Behind
<1>3. \A e \in (DOMAIN os) \X (DOMAIN os) :
        e[1] \in DOMAIN os /\ Behind(cs, e[1]) = Behind(os, e[1])
  BY <1>2
<1>. QED
  BY <1>3, ServedPairs

\* Links lead to rows.
Chained(os) == \A i \in DOMAIN os : os[i].next \in DOMAIN os \cup {0}

\* Behind an order are the next one and whoever is behind that.
LEMMA BehindNext ==
  ASSUME NEW os, Chained(os), NEW i \in DOMAIN os, os[i].next # 0
  PROVE  /\ os[i].next \in DOMAIN os
         /\ os[i].next \in Behind(os, i)
         /\ Behind(os, i) \subseteq {os[i].next} \cup Behind(os, os[i].next)
         /\ \A j \in DOMAIN os : i \in Behind(os, j) => os[i].next \in Behind(os, j)
<1>. DEFINE n == os[i].next
            T == {n} \cup Behind(os, n)
<1>0. n \in DOMAIN os
  BY DEF Chained
<1>1. n \in Behind(os, i)
  BY <1>0 DEF Behind
<1>2. \A k \in T : os[k].next \in T \cup {0}
  <2>1. os[n].next \in T \cup {0}
    <3>. SUFFICES ASSUME os[n].next # 0 PROVE os[n].next \in Behind(os, n)
      OBVIOUS
    <3>. QED
      BY <1>0 DEF Behind, Chained
  <2>2. ASSUME NEW k \in Behind(os, n), os[k].next # 0
        PROVE  os[k].next \in Behind(os, n)
    <3>1. k \in DOMAIN os /\ os[k].next \in DOMAIN os
      BY <2>2 DEF Behind, Chained
    <3>2. ASSUME NEW S \in Ends(os), os[n].next \in S \cup {0}
          PROVE  os[k].next \in S
      <4>1. k \in S
        BY <3>2, <2>2 DEF Behind
      <4>. QED
        BY <4>1, <2>2 DEF Ends
    <3>. QED
      BY <3>1, <3>2 DEF Behind
  <2>. QED
    BY <2>1, <2>2
<1>3. T \in Ends(os)
  BY <1>0, <1>2 DEF Ends, Behind
<1>4. Behind(os, i) \subseteq T
  BY <1>3 DEF Behind
<1>5. ASSUME NEW j \in DOMAIN os, i \in Behind(os, j)
      PROVE  n \in Behind(os, j)
  <2>1. ASSUME NEW S \in Ends(os), os[j].next \in S \cup {0}
        PROVE  n \in S
    <3>1. i \in S
      BY <2>1, <1>5 DEF Behind
    <3>. QED
      BY <3>1 DEF Ends
  <2>. QED
    BY <1>0, <2>1 DEF Behind
<1>. QED
  BY <1>0, <1>1, <1>4, <1>5

\* Sound lists: the links serve a side in the order of the rank.
LEMMA BehindIsOnward ==
  ASSUME NEW os, Rows(os), NEW hs, NEW rank \in [Ids -> Int],
         Linked(os, hs, DOMAIN os, rank)
  PROVE  /\ Chained(os)
         /\ \A i \in DOMAIN os : \A j \in Behind(os, i) :
              /\ os[j].side = os[i].side /\ rank[i] < rank[j]
              /\ ~Better(os[i].side, os[j].price, os[i].price)
<1>1. Chained(os)
  BY DEF Chained, Linked
<1>2. ASSUME NEW i \in DOMAIN os
      PROVE  \A j \in Behind(os, i) :
              /\ os[j].side = os[i].side /\ rank[i] < rank[j]
              /\ ~Better(os[i].side, os[j].price, os[i].price)
  <2>. DEFINE T == {j \in DOMAIN os : /\ os[j].side = os[i].side /\ rank[i] < rank[j]
                                      /\ ~Better(os[i].side, os[j].price, os[i].price)}
  <2>1. \A k \in DOMAIN os : rank[k] \in Int /\ os[k].price \in Nat
    BY DEF Rows, AnyRow
  <2>2. os[i].next \in T \cup {0}
    BY <1>1 DEF Linked
  <2>3. ASSUME NEW k \in T, os[k].next # 0
        PROVE  os[k].next \in T
    <3>1. /\ os[k].next \in DOMAIN os /\ os[os[k].next].side = os[k].side
          /\ ~Better(os[k].side, os[os[k].next].price, os[k].price)
          /\ rank[k] < rank[os[k].next]
      BY <2>3 DEF Linked
    <3>2. rank[i] < rank[os[k].next]
      BY <3>1, <2>1
    <3>3. ~Better(os[i].side, os[os[k].next].price, os[i].price)
      BY <3>1, <2>1 DEF Better
    <3>. QED
      BY <3>1, <3>2, <3>3
  <2>4. T \in Ends(os)
    BY <2>3 DEF Ends
  <2>. QED
    BY <2>2, <2>4 DEF Behind
<1>. QED
  BY <1>1, <1>2

\* ... and all of it, one before the other.
LEMMA HeadIsFirst ==
  ASSUME NEW os, Rows(os), NEW hs, NEW rank \in [Ids -> Int],
         Linked(os, hs, DOMAIN os, rank),
         NEW h \in DOMAIN os, os[h].prev = 0,
         NEW j \in DOMAIN os, os[j].side = os[h].side, j # h
  PROVE  j \in Behind(os, h)
<1>. DEFINE V == {k \in DOMAIN os : os[k].side = os[h].side /\ k # h /\ k \notin Behind(os, h)}
<1>. SUFFICES ASSUME j \in V
              PROVE  FALSE
  OBVIOUS
<1>1. IsFiniteSet(V) /\ V # {} /\ \A k \in V : rank[k] \in Int
  <2>1. V \subseteq Ids
    BY DEF Rows
  <2>. QED
    BY <2>1, IdsFinite, FS_Subset
<1>. HIDE DEF V
<1>2. PICK x \in V : \A y \in V : rank[x] <= rank[y]
  BY <1>1, LeastRank
<1>3. x \in DOMAIN os /\ os[x].side = os[h].side /\ x # h /\ x \notin Behind(os, h) /\ x # 0
  BY <1>2 DEF V, Rows, Ids
<1>4. os[x].prev # 0
  BY <1>3 DEF Linked
<1>. DEFINE p == os[x].prev
<1>5. p \in DOMAIN os /\ os[p].next = x
  BY <1>3, <1>4 DEF Linked
<1>6. os[p].side = os[h].side /\ rank[p] < rank[x] /\ rank[p] \in Int /\ rank[x] \in Int
  BY <1>3, <1>5 DEF Linked, Rows
<1>7. p \notin V
  BY <1>2, <1>6
<1>8. p = h \/ p \in Behind(os, h)
  BY <1>5, <1>6, <1>7 DEF V
<1>9. Chained(os)
  BY BehindIsOnward
<1>. QED
  BY <1>3, <1>5, <1>8, <1>9, BehindNext

\* Of two orders on a side, one is behind the other.
LEMMA BehindOrBefore ==
  ASSUME NEW os, Rows(os), NEW hs, NEW rank \in [Ids -> Int],
         Linked(os, hs, DOMAIN os, rank),
         NEW q \in DOMAIN os, NEW j \in DOMAIN os, os[j].side = os[q].side
  PROVE  j = q \/ j \in Behind(os, q) \/ q \in Behind(os, j)
<1>. DEFINE E(k) == k = q \/ k \in Behind(os, q) \/ q \in Behind(os, k)
            V == {k \in DOMAIN os : os[k].side = os[q].side /\ ~E(k)}
<1>. SUFFICES ASSUME j \in V
              PROVE  FALSE
  OBVIOUS
<1>1. IsFiniteSet(V) /\ V # {} /\ \A k \in V : rank[k] \in Int
  <2>1. V \subseteq Ids
    BY DEF Rows
  <2>. QED
    BY <2>1, IdsFinite, FS_Subset
<1>. HIDE DEF V
<1>2. PICK x \in V : \A y \in V : rank[x] <= rank[y]
  BY <1>1, LeastRank
<1>3. x \in DOMAIN os /\ os[x].side = os[q].side /\ ~E(x) /\ x # 0
  BY <1>2 DEF V, Rows, Ids
<1>4. os[x].prev # 0
  BY <1>3, HeadIsFirst
<1>. DEFINE p == os[x].prev
<1>5. p \in DOMAIN os /\ os[p].next = x
  BY <1>3, <1>4 DEF Linked
<1>6. os[p].side = os[q].side /\ rank[p] < rank[x] /\ rank[p] \in Int /\ rank[x] \in Int
  BY <1>3, <1>5 DEF Linked, Rows
<1>7. p \notin V
  BY <1>2, <1>6
<1>8. E(p)
  BY <1>5, <1>6, <1>7 DEF V
<1>9. Chained(os)
  BY BehindIsOnward
<1>. QED
  BY <1>3, <1>5, <1>8, <1>9, BehindNext

\* In sound lists who is served before whom is a strict order of each side, and no
\* better price waits behind a worse one.
Ordered(os) ==
  /\ \A e \in Served(os) : /\ e \in (DOMAIN os) \X (DOMAIN os) /\ os[e[1]].side = os[e[2]].side
                           /\ ~Better(os[e[1]].side, os[e[2]].price, os[e[1]].price)
  /\ \A i, j \in DOMAIN os :
       os[i].side = os[j].side => (<<i, j>> \in Served(os) <=> i # j /\ <<j, i>> \notin Served(os))
  /\ \A i, j, k \in DOMAIN os :
       <<i, j>> \in Served(os) /\ <<j, k>> \in Served(os) => <<i, k>> \in Served(os)

\* The pairs the rank puts in order.
ByRank(os, rank) ==
  {e \in (DOMAIN os) \X (DOMAIN os) : os[e[1]].side = os[e[2]].side /\ rank[e[1]] < rank[e[2]]}

\* So the links serve exactly as any rank of the lists says.
LEMMA ServedByRank ==
  ASSUME NEW os, Rows(os), NEW hs, NEW rank \in [Ids -> Int],
         Linked(os, hs, DOMAIN os, rank)
  PROVE  Served(os) = ByRank(os, rank)
<1>1. \A k \in DOMAIN os : rank[k] \in Int
  BY DEF Rows
<1>2. ASSUME NEW i \in DOMAIN os, NEW j \in DOMAIN os
      PROVE  j \in Behind(os, i) <=> os[i].side = os[j].side /\ rank[i] < rank[j]
  <2>1. j \in Behind(os, i) => os[i].side = os[j].side /\ rank[i] < rank[j]
    BY BehindIsOnward
  <2>2. i \in Behind(os, j) => rank[j] < rank[i]
    BY BehindIsOnward
  <2>3. os[i].side = os[j].side => i = j \/ j \in Behind(os, i) \/ i \in Behind(os, j)
    BY BehindOrBefore
  <2>. QED
    BY <1>1, <2>1, <2>2, <2>3
<1>3. \A e \in (DOMAIN os) \X (DOMAIN os) :
        e[2] \in Behind(os, e[1]) <=> os[e[1]].side = os[e[2]].side /\ rank[e[1]] < rank[e[2]]
  BY <1>2
<1>4. Served(os) = {e \in (DOMAIN os) \X (DOMAIN os) : e[2] \in Behind(os, e[1])}
  BY ServedPairs
<1>5. \A e : e \in Served(os) <=> e \in (DOMAIN os) \X (DOMAIN os) /\ e[2] \in Behind(os, e[1])
  BY <1>4
<1>6. \A e : e \in Served(os) <=> e \in ByRank(os, rank)
  BY <1>3, <1>5 DEF ByRank
<1>. QED
  BY <1>6

\* The order of service is total on a side, transitive, and better prices come first.
LEMMA ServedInOrder ==
  ASSUME NEW os, Rows(os), NEW hs, InLists(os, hs, DOMAIN os)
  PROVE  Ordered(os)
<1>. PICK rank \in [Ids -> Int] : Linked(os, hs, DOMAIN os, rank)
  BY DEF InLists
<1>1. \A k \in DOMAIN os : rank[k] \in Int
  BY DEF Rows
<1>2. Served(os) = ByRank(os, rank)
  BY ServedByRank
<1>3. \A i, j \in DOMAIN os : os[i].side = os[j].side /\ i # j => rank[i] # rank[j]
  <2>. SUFFICES ASSUME NEW i \in DOMAIN os, NEW j \in DOMAIN os,
                       os[i].side = os[j].side, i # j
                PROVE  rank[i] # rank[j]
    OBVIOUS
  <2>1. j \in Behind(os, i) \/ i \in Behind(os, j)
    BY BehindOrBefore
  <2>. QED
    BY <2>1, <1>1, BehindIsOnward
<1>4. \A e \in Served(os) : ~Better(os[e[1]].side, os[e[2]].price, os[e[1]].price)
  BY BehindIsOnward, ServedPairs
<1>5. \A i, j \in DOMAIN os :
        <<i, j>> \in Served(os) <=> os[i].side = os[j].side /\ rank[i] < rank[j]
  BY <1>2 DEF ByRank
<1>6. \A e \in Served(os) : e \in (DOMAIN os) \X (DOMAIN os) /\ os[e[1]].side = os[e[2]].side
  BY <1>2 DEF ByRank
<1>7. \A i, j \in DOMAIN os :
        os[i].side = os[j].side => (<<i, j>> \in Served(os) <=> i # j /\ <<j, i>> \notin Served(os))
  BY <1>1, <1>3, <1>5
<1>8. \A i, j, k \in DOMAIN os :
        <<i, j>> \in Served(os) /\ <<j, k>> \in Served(os) => <<i, k>> \in Served(os)
  BY <1>1, <1>5
<1>. QED
  BY <1>4, <1>6, <1>7, <1>8 DEF Ordered

-----------------------------------------------------------------------------
(* Leaving a list, and arriving in one. *)
Besides(pairs, id) == {e \in pairs : id \notin {e[1], e[2]}}

\* An order that leaves takes its pairs along, and no others.
LEMMA UnlinkServes ==
  ASSUME NEW os, Rows(os), NEW hs \in [Sides -> Links], NEW id \in DOMAIN os,
         InLists(os, hs, DOMAIN os)
  PROVE  Served(Unlink(os, id)) = Besides(Served(os), id)
<1>. PICK cs : cs = Unlink(os, id)
  OBVIOUS
<1>. PICK ks : ks = HeadAfterUnlink(hs, os, id)
  OBVIOUS
<1>. PICK rank \in [Ids -> Int] : Linked(os, hs, DOMAIN os, rank)
  BY DEF InLists
<1>1. /\ DOMAIN cs = DOMAIN os \ {id} /\ Rows(cs)
      /\ \A i \in DOMAIN os \ {id} : cs[i] = Bypass(os, id)[i]
      /\ \A i \in DOMAIN os \ {id} : SameOrder(cs[i], os[i])
  BY UnlinkRows
<1>2. Linked(cs, ks, DOMAIN cs, rank)
  <2>1. Linked(cs, ks, DOMAIN os \ {id}, rank)
    <3>. HIDE DEF Linked
    <3>. QED
      BY <1>1, UnlinkLinked
  <2>. QED
    BY <1>1, <2>1
<1>3. Served(cs) = ByRank(cs, rank) /\ Served(os) = ByRank(os, rank)
  BY <1>1, <1>2, ServedByRank
<1>4. \A e : e \in ByRank(cs, rank) <=> e \in Besides(ByRank(os, rank), id)
  BY <1>1 DEF ByRank, Besides, SameOrder
<1>5. \A e : e \in Served(cs) <=> e \in Besides(Served(os), id)
  BY <1>3, <1>4
<1>6. Served(cs) = Besides(Served(os), id)
  BY <1>5
<1>. QED
  BY <1>6

\* Rows os without id.
Rest(os, id) == [i \in DOMAIN os \ {id} |-> os[i]]

\* An order put into a slot does not change who of the others is served first.
LEMMA LinkServes ==
  ASSUME NEW os, Rows(os), NEW hs \in [Sides -> Links], NEW id \in Ids,
         InLists(os, hs, DOMAIN os \ {id}), NEW rec \in AnyRow,
         NEW p \in Links, NEW n \in Links,
         Slot(os, hs, DOMAIN os \ {id}, rec.side, rec.price, p, n)
  PROVE  \A e : e \in Besides(Served(LinkIn(os, id, rec, p, n)), id) <=> e \in Served(Rest(os, id))
<1>. PICK cs : cs = LinkIn(os, id, rec, p, n)
  OBVIOUS
<1>. PICK ks : ks = HeadAfterLink(hs, rec.side, id, p)
  OBVIOUS
<1>. PICK B : B = DOMAIN os \ {id}
  OBVIOUS
<1>1. DOMAIN cs = DOMAIN os \cup {id} /\ Rows(cs) /\ PutBetween(cs, os, id, rec, p, n)
  <2>1. DOMAIN cs = DOMAIN os \cup {id}
    BY DEF LinkIn
  <2>2. Rows(cs)
    BY LinkInRows
  <2>3. PutBetween(cs, os, id, rec, p, n)
    BY LinkInRows
  <2>. QED
    BY <2>1, <2>2, <2>3
<1>2. ks \in [Sides -> Links] /\ InLists(cs, ks, B \cup {id})
  BY LinkInLists
<1>3. B \cup {id} = DOMAIN cs
  BY <1>1
<1>4. Served(Unlink(cs, id)) = Besides(Served(cs), id)
  BY <1>1, <1>2, <1>3, UnlinkServes
<1>5. DOMAIN Unlink(cs, id) = B /\ \A i \in B : Unlink(cs, id)[i] = Bypass(cs, id)[i]
  BY <1>1, UnlinkRows
<1>6. \A i \in B : Bypass(cs, id)[i].next = os[i].next
  <2>. SUFFICES ASSUME NEW i \in B
                PROVE  Bypass(cs, id)[i].next = os[i].next
    OBVIOUS
  <2>1. Bypass(cs, id)[i].next = IF i = p THEN n ELSE cs[i].next
    BY <1>1, BypassRow DEF PutBetween
  <2>2. i # p => cs[i].next = os[i].next
    BY <1>1 DEF PutBetween
  <2>3. i # 0
    BY DEF Rows, Ids
  <2>4. p # 0 => os[p].next = n
    BY DEF Slot
  <2>. QED
    BY <2>1, <2>2, <2>3, <2>4
<1>7. DOMAIN Rest(os, id) = B /\ \A i \in B : Rest(os, id)[i] = os[i]
  BY DEF Rest
<1>8. Served(Unlink(cs, id)) = Served(Rest(os, id))
  BY <1>5, <1>6, <1>7, ServedByLinks
<1>. QED
  BY <1>4, <1>8

\* Where an order of side s quoting price comes in.
Arrived(os, id, s, price) ==
  LET others == {i \in DOMAIN os \ {id} : os[i].side = s} IN
  {<<i, id>> : i \in {i \in others : ~Better(s, price, os[i].price)}}
    \cup {<<id, i>> : i \in {i \in others : Better(s, price, os[i].price)}}

\* Put between p and n, order id comes behind the orders whose price is not worse.
ArrivesBehind(os, id, rec, p, n) ==
  Served(LinkIn(os, id, rec, p, n))
    = Served(Rest(os, id)) \cup Arrived(os, id, rec.side, rec.price)

\* If it is put before an order of a worse price, it comes in behind all whose
\* price is not worse.
LEMMA LinkArrives ==
  ASSUME NEW os, Rows(os), NEW hs \in [Sides -> Links], NEW id \in Ids,
         InLists(os, hs, DOMAIN os \ {id}), NEW rec \in AnyRow,
         NEW p \in Links, NEW n \in Links,
         Slot(os, hs, DOMAIN os \ {id}, rec.side, rec.price, p, n),
         n # 0 => Better(rec.side, rec.price, os[n].price)
  PROVE  ArrivesBehind(os, id, rec, p, n)
<1>0. \A e : e \in Besides(Served(LinkIn(os, id, rec, p, n)), id) <=> e \in Served(Rest(os, id))
  BY LinkServes
<1>. PICK cs : cs = LinkIn(os, id, rec, p, n)
  OBVIOUS
<1>. PICK B : B = DOMAIN os \ {id}
  OBVIOUS
<1>. PICK P : P = Served(cs)
  OBVIOUS
<1>. PICK s : s = rec.side
  OBVIOUS
<1>1. DOMAIN cs = DOMAIN os \cup {id} /\ Rows(cs) /\ PutBetween(cs, os, id, rec, p, n)
  <2>1. DOMAIN cs = DOMAIN os \cup {id}
    BY DEF LinkIn
  <2>2. Rows(cs)
    BY LinkInRows
  <2>3. PutBetween(cs, os, id, rec, p, n)
    BY LinkInRows
  <2>. QED
    BY <2>1, <2>2, <2>3
<1>2. Besides(P, id) = Served(Rest(os, id)) /\ \E ks : InLists(cs, ks, DOMAIN cs)
  <2>1. Besides(P, id) = Served(Rest(os, id))
    BY <1>0
  <2>2. \E ks : InLists(cs, ks, DOMAIN os \cup {id})
    <3>1. DOMAIN os \cup {id} = (DOMAIN os \ {id}) \cup {id}
      OBVIOUS
    <3>2. InLists(LinkIn(os, id, rec, p, n), HeadAfterLink(hs, rec.side, id, p),
                  (DOMAIN os \ {id}) \cup {id})
      BY LinkInLists
    <3>. QED
      BY <3>1, <3>2
  <2>. QED
    BY <1>1, <2>1, <2>2
<1>3. Ordered(cs)
  BY <1>1, <1>2, ServedInOrder
<1>4. /\ cs[id].side = s /\ cs[id].price = rec.price /\ cs[id].next = n
      /\ \A i \in B : cs[i].side = os[i].side /\ cs[i].price = os[i].price
  BY <1>1 DEF PutBetween, SameOrder
<1>5. /\ s \in Sides /\ rec.price \in Nat
      /\ \A i \in B : i \in DOMAIN cs /\ i # id /\ os[i].price \in Nat
  BY <1>1 DEF AnyRow, Rows
<1>6. ASSUME NEW i \in B, <<id, i>> \in P
      PROVE  Better(s, rec.price, os[i].price)
  <2>1. i \in Behind(cs, id)
    BY <1>6, ServedPairs
  <2>2. Chained(cs)
    BY <1>1, <1>2, BehindIsOnward DEF InLists
  <2>3. n # 0
    <3>. SUFFICES ASSUME n = 0 PROVE FALSE
      OBVIOUS
    <3>1. {} \in Ends(cs)
      BY DEF Ends
    <3>. QED
      BY <2>1, <3>1, <1>4 DEF Behind
  <2>4. n \in B
    BY <2>3 DEF Slot
  <2>5. i = n \/ i \in Behind(cs, n)
    BY <1>1, <1>4, <2>1, <2>2, <2>3, BehindNext
  <2>6. cs[n].side = s
    BY <2>3, <2>4, <1>4 DEF Slot
  <2>7. i # n => ~Better(s, os[i].price, os[n].price)
    <3>. SUFFICES ASSUME i # n PROVE ~Better(s, os[i].price, os[n].price)
      OBVIOUS
    <3>1. <<n, i>> \in P
      BY <2>4, <2>5, <1>5, ServedPairs
    <3>. QED
      BY <3>1, <1>3, <1>4, <2>4, <2>6 DEF Ordered
  <2>. QED
    BY <2>3, <2>4, <2>7, <1>5 DEF Better
<1>7. ASSUME NEW i \in B, <<i, id>> \in P
      PROVE  ~Better(s, rec.price, os[i].price) /\ os[i].side = s
  BY <1>7, <1>3, <1>4 DEF Ordered
<1>8. ASSUME NEW i \in B, os[i].side = s
      PROVE  <<i, id>> \in P \/ <<id, i>> \in P
  BY <1>8, <1>1, <1>3, <1>4, <1>5 DEF Ordered
<1>9. ASSUME NEW i \in B, <<id, i>> \in P
      PROVE  os[i].side = s
  BY <1>9, <1>3, <1>4 DEF Ordered
<1>10. <<id, id>> \notin P
  BY <1>1, <1>3 DEF Ordered
<1>11. \A e \in P : e \in (B \cup {id}) \X (B \cup {id}) /\ e = <<e[1], e[2]>>
  BY <1>1, <1>3 DEF Ordered
<1>12. \A e : e \in P <=> e \in Besides(P, id) \cup Arrived(os, id, s, rec.price)
  <2>1. \A e \in P : e \in Besides(P, id) \/ (\E i \in B : e = <<i, id>> \/ e = <<id, i>>)
    BY <1>10, <1>11 DEF Besides
  <2>2. \A i \in B : /\ <<i, id>> \in P <=> os[i].side = s /\ ~Better(s, rec.price, os[i].price)
                     /\ <<id, i>> \in P <=> os[i].side = s /\ Better(s, rec.price, os[i].price)
    BY <1>6, <1>7, <1>8, <1>9
  <2>3. \A i \in B : /\ <<i, id>> \in P => <<i, id>> \in Arrived(os, id, s, rec.price)
                     /\ <<id, i>> \in P => <<id, i>> \in Arrived(os, id, s, rec.price)
    BY <2>2 DEF Arrived
  <2>4. \A e \in Arrived(os, id, s, rec.price) : e \in P
    BY <2>2 DEF Arrived
  <2>5. \A e \in P : e \in Besides(P, id) \/ e \in Arrived(os, id, s, rec.price)
    BY <2>1, <2>3
  <2>6. \A e \in Besides(P, id) : e \in P
    BY DEF Besides
  <2>. HIDE DEF Besides, Arrived
  <2>. QED
    BY <2>4, <2>5, <2>6
<1>13. P = Served(Rest(os, id)) \cup Arrived(os, id, s, rec.price)
  BY <1>2, <1>12
<1>. QED
  BY <1>13 DEF ArrivesBehind

-----------------------------------------------------------------------------
(* What holds in the middle of a message.  The gates a message passed when *)
(* it began are still open, for nothing of the environment happens before  *)
(* it ends.                                                                *)
GatesHeld ==
  /\ tx.op = "place" =>
       /\ MayTrade(tx.owner) /\ InBookOrder(tx.side, tx.plan)
       /\ \A k \in 1 .. Len(tx.plan) :
            tx.plan[k].rung.expires = 0 \/ tx.plan[k].rung.expires > now
  /\ tx.op = "reprice" =>
       MayTrade(tx.old.owner) /\ ~Expired(tx.old) /\ tx.price # tx.old.price
  /\ tx.op = "cancel" => \A k \in 1 .. Len(tx.todo) : MayTrade(orders[tx.todo[k]].owner)
  /\ tx.op = "claim" => \A k \in 1 .. Len(tx.todo) : MayTrade(claims[tx.todo[k]].owner)
  /\ tx.op = "clean" => Writable
  /\ tx.op = "match" => MayTrade(PairKey)

\* Whatever is put on the book comes after all that quote its price.
LastAtPrice ==
  /\ tx.op = "reprice" => ins.sort = SortLast
  /\ tx.op = "place" =>
       /\ tx.k <= Len(tx.plan) => ins.sort = tx.plan[tx.k].id
       /\ \A k \in tx.k .. Len(tx.plan), i \in DOMAIN orders :
            orders[i].side = tx.side /\ orders[i].price = tx.plan[k].rung.price
              => i < tx.plan[k].id

\* So the walk goes back over, and stops before, worse prices only.
WalkInOrder ==
  /\ ins.phase = "back" => Better(ins.side, ins.price, orders[ins.cur].price)
  /\ ins.phase = "found" /\ ins.next # 0 =>
       Better(ins.side, ins.price, orders[ins.next].price)

PromInv == GatesHeld /\ LastAtPrice /\ WalkInOrder

\* A step that leaves the settings alone leaves the gates alone.
LEMMA GatesStand ==
  ASSUME UNCHANGED config
  PROVE  /\ \A w : MayTrade(w)' <=> MayTrade(w)
         /\ Writable' <=> Writable
         /\ \A o : Expired(o)' <=> Expired(o)
         /\ now' = now
  BY DEF config, MayTrade, Writable, Expired

\* The walk's key against an order on its side: equal prices are before it.
LEMMA KeyAgainst ==
  ASSUME IInv, LastAtPrice, ins # NoWalk, NEW i \in Booked, orders[i].side = ins.side
  PROVE  /\ NewBefore(i) => Better(ins.side, ins.price, orders[i].price)
         /\ ~NewAfter(i) => Better(ins.side, ins.price, orders[i].price)
<1>1. /\ TypeOK /\ TxOK /\ InsOK /\ WalkFor /\ ins \in Walks /\ PlaceOK
  BY PhaseOfIns DEF IInv, BookInv, TxInv, WalkInv
<1>2. /\ i \in DOMAIN orders /\ i \in 1 .. MaxId /\ MaxId \in Nat
      /\ orders[i].price \in Nat /\ ins.price \in Nat /\ ins.sort \in Nat
      /\ ins.side \in Sides
  BY <1>1, BoundAssumption DEF Booked, TypeOK, Row, Ids, Walks
<1>3. orders[i].price = ins.price => i < ins.sort
  <2>1. CASE tx.op = "reprice"
    BY <1>2, <2>1 DEF LastAtPrice, SortLast
  <2>2. CASE tx.op = "place" /\ tx.k <= Len(tx.plan)
    <3>1. tx.k \in tx.k .. Len(tx.plan)
      <4>1. tx.plan \in Seq(PlanRow) /\ tx.k \in Nat
        BY <1>1, <2>2, OpOfTx DEF PlaceTx
      <4>. QED
        BY <4>1, <2>2, LenProperties
    <3>2. ins.side = tx.side /\ ins.price = tx.plan[tx.k].rung.price /\ ins.sort = tx.plan[tx.k].id
      BY <1>1, <2>2 DEF WalkFor, LastAtPrice
    <3>3. \A k \in tx.k .. Len(tx.plan), j \in DOMAIN orders :
            orders[j].side = tx.side /\ orders[j].price = tx.plan[k].rung.price
              => j < tx.plan[k].id
      BY <2>2 DEF LastAtPrice
    <3>4. \A j \in DOMAIN orders :
            orders[j].side = tx.side /\ orders[j].price = tx.plan[tx.k].rung.price
              => j < tx.plan[tx.k].id
      BY <3>1, <3>3
    <3>. QED
      BY <1>2, <3>2, <3>4
  <2>. QED
    BY <1>1, <2>1, <2>2 DEF WalkFor
<1>. QED
  BY <1>2, <1>3 DEF NewBefore, NewAfter, Before, Better

-----------------------------------------------------------------------------
\* A batch begins: its plan is in book order, and its ids are above all others.
LEMMA PlaceProm ==
  ASSUME IInv, IInv', NEW o \in Owners, NEW s \in Sides, NEW bps \in FeeRates,
         NEW n \in Nat \ {0}, NEW input \in [1 .. n -> InputRung],
         NEW rank \in [1 .. n -> 1 .. n],
         \A j, k \in 1 .. n : j # k => rank[j] # rank[k],
         PlaceBatch(o, s, input, rank, bps)
  PROVE  PromInv'
<1>. PICK plan : plan = Plan(input, rank)
  OBVIOUS
<1>0. Len(input) = n /\ DOMAIN input = 1 .. n
  BY SeqOfFunction
<1>1. TypeOK /\ nextId \in Nat /\ Numbered
  <2>1. TypeOK /\ MaxId \in Nat /\ Numbered
    BY BoundAssumption DEF IInv, BookInv
  <2>2. nextId \in 1 .. MaxId + 1
    BY <2>1 DEF TypeOK
  <2>. QED
    BY <2>1, <2>2
<1>2. /\ nextId + n - 1 <= MaxId /\ MayTrade(o) /\ InBookOrder(s, plan)
      /\ \A k \in 1 .. n : input[k].expires = 0 \/ input[k].expires > now
      /\ tx'.op = "place" /\ tx'.owner = o /\ tx'.side = s /\ tx'.plan = plan /\ tx'.k = 1
      /\ BeginRung(s, plan, 1, NoCursor)
      /\ UNCHANGED <<orders, config>>
  BY <1>0 DEF PlaceBatch, book, ValidRung
<1>3. PlanOK(plan, n, input, rank)
  BY <1>1, <1>2, PlanOfInput
<1>4. Len(plan) = n /\ plan \in Seq(PlanRow)
      /\ \A k \in 1 .. n : /\ plan[k].id = nextId + rank[k] - 1
                           /\ plan[k].rung = input[rank[k]]
                           /\ rank[k] \in 1 .. n
  BY <1>3 DEF PlanOK
<1>5. GatesHeld'
  <2>1. MayTrade(o)' /\ now' = now
    BY <1>2, GatesStand
  <2>3. ASSUME NEW k \in 1 .. n
        PROVE  plan[k].rung.expires = 0 \/ plan[k].rung.expires > now
    <3>1. rank[k] \in 1 .. n /\ plan[k].rung = input[rank[k]]
      BY <1>4
    <3>2. \A j \in 1 .. n : input[j].expires = 0 \/ input[j].expires > now
      BY <1>2
    <3>. QED
      BY <3>1, <3>2
  <2>. QED
    BY <1>2, <1>4, <2>1, <2>3 DEF GatesHeld, InBookOrder
<1>6. ins'.phase = "probe" /\ ins'.sort = plan[1].id
  <2>1. ~(1 > Len(plan))
    BY <1>4
  <2>. QED
    BY <1>2, <2>1 DEF BeginRung, BeginWalk
<1>7. LastAtPrice'
  <2>1. \A k \in 1 .. n : plan[k].id >= nextId
    BY <1>1, <1>4
  <2>2. \A i \in DOMAIN orders : i \in Nat /\ i < nextId
    BY <1>1 DEF Numbered, Used
  <2>3. \A k \in 1 .. n : plan[k].id \in Nat
    BY <1>1, <1>4
  <2>4. \A k \in 1 .. n, i \in DOMAIN orders : i < plan[k].id
    <3>1. \A a, b \in Nat : a < nextId /\ b >= nextId => a < b
      BY <1>1
    <3>. QED
      BY <2>1, <2>2, <2>3, <3>1
  <2>. QED
    BY <1>2, <1>4, <1>6, <2>4 DEF LastAtPrice
<1>8. WalkInOrder'
  BY <1>6 DEF WalkInOrder
<1>. QED
  BY <1>5, <1>7, <1>8 DEF PromInv

\* The other messages begin.
LEMMA BeginProm ==
  ASSUME IInv, IInv', Reprice \/ Exit \/ Clean \/ Match
  PROVE  PromInv'
<1>1. TypeOK /\ TxOK
  BY DEF IInv, BookInv, TxInv
<1>2. CASE Reprice
  <2>1. PICK id \in DOMAIN orders, p \in RepricePrices, h \in Hints, m \in StepCaps :
          UpdatePrice(id, p, h, m)
    BY <1>2 DEF Reprice
  <2>2. /\ MayTrade(orders[id].owner) /\ ~Expired(orders[id]) /\ orders[id].price # p
        /\ tx'.op = "reprice" /\ tx'.old = orders[id] /\ tx'.price = p
        /\ ins'.sort = SortLast /\ ins'.phase = "probe" /\ UNCHANGED config
    BY <2>1 DEF UpdatePrice, BeginWalk
  <2>. QED
    BY <2>2, GatesStand DEF PromInv, GatesHeld, LastAtPrice, WalkInOrder, SortLast
<1>3. CASE Exit \/ Clean \/ Match
  <2>1. tx = Idle /\ UNCHANGED <<orders, claims, config, ins>>
    BY <1>3 DEF Exit, Cancel, Claim, Withdraw, Clean, CleanBook, Match, MatchBook, book
  <2>2. ins' = NoWalk /\ ins'.phase = "none"
    BY <2>1 DEF IInv, WalkInv, WalkFor, Idle, NoWalk
  <2>3. \/ tx'.op \in {"cancel", "claim"}
        \/ tx'.op = "clean" /\ Writable
        \/ tx'.op = "match" /\ MayTrade(PairKey)
    BY <1>3 DEF Exit, Cancel, Claim, Withdraw, Clean, CleanBook, Match, MatchBook
  <2>4. /\ tx'.op = "cancel" => \A k \in 1 .. Len(tx'.todo) : MayTrade(orders[tx'.todo[k]].owner)
        /\ tx'.op = "claim" => \A k \in 1 .. Len(tx'.todo) : MayTrade(claims[tx'.todo[k]].owner)
    <3>1. CASE Exit
      <4>1. PICK o \in Owners, ids \in IdLists : Cancel(o, ids) \/ Claim(o, ids)
        BY <3>1 DEF Exit
      <4>2. PICK n \in 1 .. maxRungs : ids \in [1 .. n -> Ids]
        BY DEF IdLists
      <4>3. Len(ids) = n /\ DOMAIN ids = 1 .. n
        BY <1>1, <4>2, InputAssumption, SeqOfFunction DEF TypeOK
      <4>4. tx'.todo = ids /\ MayTrade(o)
            /\ \/ tx'.op = "cancel" /\ \A k \in 1 .. n : orders[ids[k]].owner = o
               \/ tx'.op = "claim" /\ \A k \in 1 .. n : claims[ids[k]].owner = o
        BY <4>1, <4>3 DEF Cancel, Claim, Withdraw
      <4>. QED
        BY <4>3, <4>4
    <3>2. CASE Clean \/ Match
      BY <3>2 DEF Clean, CleanBook, Match, MatchBook
    <3>. QED
      BY <1>3, <3>1, <3>2
  <2>5. GatesHeld'
    <3>1. (/\ tx.op = "cancel" => \A k \in 1 .. Len(tx.todo) : MayTrade(orders[tx.todo[k]].owner)
           /\ tx.op = "claim" => \A k \in 1 .. Len(tx.todo) : MayTrade(claims[tx.todo[k]].owner))'
      BY <2>1, <2>4 DEF MayTrade, Writable, config
    <3>2. (/\ tx.op = "clean" => Writable
           /\ tx.op = "match" => MayTrade(PairKey))'
      BY <2>1, <2>3 DEF MayTrade, Writable, config
    <3>. QED
      BY <2>3, <3>1, <3>2 DEF GatesHeld
  <2>. QED
    BY <2>2, <2>3, <2>5 DEF PromInv, LastAtPrice, WalkInOrder
<1>. QED
  BY <1>2, <1>3

-----------------------------------------------------------------------------
(* Steps of the insert walk. *)
\* A walk moves nothing but its cursor, so the gates and the last place are kept.
LEMMA WalkProm ==
  ASSUME IInv, IInv', PromInv, ins # NoWalk, ins' # NoWalk,
         UNCHANGED <<orders, claims, config, tx>>, ins'.sort = ins.sort, WalkInOrder'
  PROVE  PromInv'
<1>1. GatesHeld'
  <2>1. \A w : MayTrade(w)' <=> MayTrade(w)
    BY GatesStand
  <2>2. (Writable' <=> Writable) /\ now' = now /\ \A o : Expired(o)' <=> Expired(o)
    BY GatesStand
  <2>. QED
    BY <2>1, <2>2 DEF PromInv, GatesHeld, InBookOrder
<1>2. LastAtPrice'
  BY DEF PromInv, LastAtPrice, SortLast
<1>. QED
  BY <1>1, <1>2 DEF PromInv

\* Wherever a walk stops or turns, worse prices only are ahead of it.
LEMMA WalksProm ==
  ASSUME IInv, IInv', PromInv, Probe \/ WalkForward \/ WalkBack
  PROVE  PromInv'
<1>1. /\ TypeOK /\ Listed /\ InsOK /\ WalkOK /\ LastAtPrice /\ WalkInOrder
      /\ ins \in Walks /\ ins # NoWalk /\ UNCHANGED <<orders, claims, config, tx>>
  BY PhaseOfIns DEF IInv, BookInv, WalkInv, PromInv, Probe, WalkForward, WalkBack, book
<1>2. Booked \subseteq DOMAIN orders /\ 0 \notin DOMAIN orders /\ ins.side \in Sides
  BY <1>1, RowsOfOrders DEF Walks
<1>. DEFINE better(i) == Better(ins.side, ins.price, orders[i].price)
<1>3. \A i \in Booked : orders[i].side = ins.side /\ (NewBefore(i) \/ ~NewAfter(i)) => better(i)
  BY <1>1, KeyAgainst
<1>4. \/ \E p, n : Found(p, n) /\ (n # 0 => better(n))
      \/ \E from, steps : Walk("back", from, steps) /\ better(from)
      \/ ins'.phase \in {"forward", "exceeded"} /\ ins' = [ins EXCEPT !.phase = ins'.phase,
           !.cur = ins'.cur, !.prev = ins'.prev, !.steps = ins'.steps]
  <2>1. CASE Probe
    <3>1. CASE Found(0, 0)
      BY <3>1
    <3>2. CASE CursorFits /\ Found(ins.cursor.after, ins.cursor.next)
      <4>1. ins.cursor.next # 0 => better(ins.cursor.next)
        BY <1>1, <1>3, <3>2, Neighbours DEF CursorFits, WalkOK, Threaded
      <4>. QED
        BY <3>2, <4>1
    <3>3. CASE HintUsable /\ TryHint(ins.hint, orders[ins.hint].next)
      <4>. DEFINE h == ins.hint
                  n == orders[ins.hint].next
      <4>1. h \in Booked /\ orders[h].side = ins.side
        <5>1. h \in DOMAIN orders /\ orders[h].side = ins.side
              /\ (orders[h].prev # 0 \/ head[ins.side] = h)
          BY <3>3 DEF HintUsable, OnSide
        <5>2. head[ins.side] = h => h \in Booked
          BY <1>1, <1>2, <5>1, HeadIsListed
        <5>3. orders[h].prev # 0 => h \in Booked
          BY <5>1 DEF Booked, InBook, IInv, TxInv, RepriceOK
        <5>. QED
          BY <5>1, <5>2, <5>3
      <4>2. n # 0 => n \in Booked /\ orders[n].side = ins.side
        BY <1>1, <4>1, Neighbours
      <4>3. CASE ~NewAfter(h) /\ Walk("back", h, 1)
        BY <1>3, <4>1, <4>3
      <4>4. CASE Found(h, n) /\ (n # 0 => NewBefore(n))
        BY <1>3, <4>2, <4>4
      <4>5. CASE Walk("forward", n, 2)
        BY <1>1, <4>5 DEF Walk, Walks
      <4>. QED
        BY <3>3, <4>3, <4>4, <4>5 DEF TryHint
    <3>4. CASE Walk("forward", head[ins.side], IF ins.hint = 0 THEN 0 ELSE 1)
      BY <1>1, <3>4 DEF Walk, Walks
    <3>. QED
      BY <2>1, <3>1, <3>2, <3>3, <3>4 DEF Probe
  <2>2. CASE WalkForward
    <3>. DEFINE c == ins.cur
    <3>1. CASE Found(ins.prev, 0)
      BY <3>1
    <3>2. CASE StepsExceeded
      BY <1>1, <3>2 DEF StepsExceeded, Walks
    <3>3. CASE c # 0 /\ NewBefore(c) /\ Found(orders[c].prev, c)
      <4>1. c \in Booked /\ orders[c].side = ins.side
        BY <1>1, <2>2, <3>3 DEF WalkForward, WalkOK
      <4>. QED
        BY <1>3, <3>3, <4>1
    <3>4. CASE ins' = [ins EXCEPT !.prev = ins.cur, !.steps = @ + 1, !.cur = orders[ins.cur].next]
      BY <1>1, <2>2, <3>4 DEF WalkForward, Walks
    <3>. QED
      BY <2>2, <3>1, <3>2, <3>3, <3>4 DEF WalkForward
  <2>3. CASE WalkBack
    <3>. DEFINE c == ins.cur
                p == orders[ins.cur].prev
    <3>0. c \in Booked /\ orders[c].side = ins.side /\ better(c)
      BY <1>1, <2>3 DEF WalkBack, WalkOK, WalkInOrder
    <3>1. CASE StepsExceeded
      BY <1>1, <3>1 DEF StepsExceeded, Walks
    <3>2. CASE Found(p, c)
      BY <3>0, <3>2
    <3>3. CASE p # 0 /\ ~NewAfter(p) /\ ins' = [ins EXCEPT !.cur = p, !.steps = @ + 1]
      <4>1. p \in Booked /\ orders[p].side = ins.side
        BY <1>1, <3>0, <3>3, Neighbours
      <4>2. better(p)
        BY <1>3, <3>3, <4>1
      <4>3. Walk("back", p, ins.steps + 1)
        BY <1>1, <2>3, <3>3 DEF WalkBack, Walk, Walks
      <4>. QED
        BY <4>2, <4>3
    <3>. QED
      BY <2>3, <3>1, <3>2, <3>3 DEF WalkBack
  <2>. QED
    BY <2>1, <2>2, <2>3
<1>5. /\ ins'.sort = ins.sort /\ ins' # NoWalk
      /\ ins'.phase = "back" => Better(ins'.side, ins'.price, orders[ins'.cur].price)
      /\ ins'.phase = "found" /\ ins'.next # 0 =>
           Better(ins'.side, ins'.price, orders[ins'.next].price)
  <2>1. CASE \E p, n : Found(p, n) /\ (n # 0 => better(n))
    BY <1>1, <2>1 DEF Found, Walks, NoWalk
  <2>2. CASE \E from, steps : Walk("back", from, steps) /\ better(from)
    BY <1>1, <2>2 DEF Walk, Walks, NoWalk
  <2>3. CASE ins'.phase \in {"forward", "exceeded"} /\ ins' = [ins EXCEPT !.phase = ins'.phase,
               !.cur = ins'.cur, !.prev = ins'.prev, !.steps = ins'.steps]
    BY <1>1, <2>3 DEF Walks, NoWalk
  <2>. QED
    BY <1>4, <2>1, <2>2, <2>3
<1>6. WalkInOrder'
  BY <1>1, <1>5 DEF WalkInOrder
<1>. QED
  BY <1>1, <1>5, <1>6, WalkProm

-----------------------------------------------------------------------------
(* The next rung: it is linked in, or skipped. *)
LEMMA RungProm ==
  ASSUME IInv, IInv', PromInv, PlaceRung \/ SkipRung
  PROVE  PromInv'
<1>. DEFINE k == tx.k
            m == Len(tx.plan)
<1>1. /\ TypeOK /\ tx.op = "place" /\ tx \in PlaceTx /\ PlaceOK /\ WalkFor /\ InsOK
      /\ ins # NoWalk /\ GatesHeld /\ LastAtPrice
  BY OpOfTx, PhaseOfIns DEF IInv, BookInv, TxInv, WalkInv, PromInv, PlaceRung, SkipRung
<1>2. m \in Nat /\ k \in 1 .. m /\ tx.plan \in Seq(PlanRow)
  <2>1. tx.plan \in Seq(PlanRow)
    BY <1>1 DEF PlaceTx
  <2>2. m \in Nat
    BY <2>1, LenProperties
  <2>. QED
    BY <2>1, <2>2, <1>1 DEF WalkFor, PlaceOK
<1>3. /\ tx'.op = "place" /\ tx'.owner = tx.owner /\ tx'.side = tx.side
      /\ tx'.plan = tx.plan /\ tx'.k = k + 1 /\ UNCHANGED config
      /\ \E cursor : BeginRung(tx.side, tx.plan, k + 1, cursor)
  BY <1>1 DEF PlaceRung, SkipRung, NextRung, PlaceTx
<1>4. GatesHeld'
  <2>1. /\ MayTrade(tx.owner) /\ now' = now
        /\ \A i \in 1 .. m : tx.plan[i].rung.expires = 0 \/ tx.plan[i].rung.expires > now
        /\ InBookOrder(tx.side, tx.plan)
    BY <1>1, <1>3, GatesStand DEF GatesHeld
  <2>2. MayTrade(tx.owner)'
    BY <1>3, <2>1 DEF MayTrade, Writable, config
  <2>. QED
    BY <1>3, <2>1, <2>2 DEF GatesHeld, InBookOrder
<1>5. WalkInOrder' /\ (k + 1 <= m => ins'.sort = tx.plan[k + 1].id)
  <2>1. CASE k + 1 > m
    BY <1>2, <1>3, <2>1 DEF BeginRung, WalkInOrder, NoWalk
  <2>2. CASE ~(k + 1 > m)
    BY <1>2, <1>3, <2>2 DEF BeginRung, BeginWalk, WalkInOrder
  <2>. QED
    BY <2>1, <2>2
<1>6. ASSUME NEW l \in k + 1 .. m, NEW i \in DOMAIN orders', orders'[i].side = tx.side,
             orders'[i].price = tx.plan[l].rung.price
      PROVE  i < tx.plan[l].id
  <2>0. /\ l \in 1 .. m /\ k \in 1 .. m /\ k < l /\ l \in k .. m
        /\ \A j \in k .. m, h \in DOMAIN orders :
             orders[h].side = tx.side /\ orders[h].price = tx.plan[j].rung.price
               => h < tx.plan[j].id
    BY <1>1, <1>2 DEF LastAtPrice
  <2>1. CASE SkipRung
    BY <1>6, <2>0, <2>1 DEF SkipRung, book
  <2>2. CASE PlaceRung
    <3>. DEFINE id == tx.plan[k].id
                r == tx.plan[k].rung
                rec == [owner |-> tx.owner, side |-> tx.side, price |-> r.price,
                        remaining |-> ForBook(r, tx.bps), expires |-> r.expires,
                        prev |-> 0, next |-> 0]
    <3>1. orders' = LinkIn(orders, id, rec, ins.prev, ins.next)
      BY <2>2 DEF PlaceRung
    <3>2. CASE i = id
      <4>1. orders'[i].price = r.price
        BY <3>1, <3>2 DEF LinkIn
      <4>2. Before(tx.side, r.price, id, tx.plan[l].rung.price, tx.plan[l].id)
        <5>1. DOMAIN tx.plan = 1 .. m
          BY <1>2, LenProperties
        <5>. QED
          BY <2>0, <5>1, <1>1 DEF GatesHeld, InBookOrder
      <4>3. r.price \in Nat
        <5>1. tx.plan[k] \in PlanRow
          BY <1>2, ElementOfSeq
        <5>. QED
          BY <5>1 DEF PlanRow, InputRung
      <4>. QED
        BY <1>6, <3>2, <4>1, <4>2, <4>3 DEF Before, Better
    <3>3. CASE i # id
      <4>1. i \in DOMAIN orders
        BY <3>1, <3>3 DEF LinkIn
      <4>2. orders'[i].side = orders[i].side /\ orders'[i].price = orders[i].price
        <5>1. orders[i] \in Row
          BY <1>1, <4>1 DEF TypeOK
        <5>. QED
          BY <3>1, <3>3, <4>1, <5>1 DEF LinkIn, Row
      <4>. QED
        BY <1>6, <2>0, <4>1, <4>2
    <3>. QED
      BY <3>2, <3>3
  <2>. QED
    BY <2>1, <2>2
<1>7. LastAtPrice'
  <2>1. \A l \in tx'.k .. Len(tx'.plan), i \in DOMAIN orders' :
          orders'[i].side = tx'.side /\ orders'[i].price = tx'.plan[l].rung.price
            => i < tx'.plan[l].id
    BY <1>3, <1>6
  <2>. QED
    BY <1>3, <1>5, <2>1 DEF LastAtPrice
<1>. QED
  BY <1>4, <1>5, <1>7 DEF PromInv

\* An id less to withdraw.
LEMMA WithdrawProm ==
  ASSUME IInv, IInv', PromInv, CancelOne \/ ClaimOne
  PROVE  PromInv'
<1>. DEFINE rows == IF tx.op = "cancel" THEN orders ELSE claims
            id == Head(tx.todo)
<1>1. /\ TypeOK /\ TxOK /\ tx.op \in {"cancel", "claim"} /\ tx \in WithdrawTx /\ WithdrawOK
      /\ WalkFor /\ GatesHeld /\ tx.todo # <<>>
  BY OpOfTx DEF IInv, BookInv, TxInv, WalkInv, PromInv, CancelOne, ClaimOne
<1>2. tx.todo \in Seq(Ids) /\ Len(tx.todo) \in Nat
  BY <1>1, LenProperties DEF WithdrawTx
<1>3. /\ Len(Tail(tx.todo)) = Len(tx.todo) - 1 /\ Head(tx.todo) = tx.todo[1]
      /\ Len(tx.todo) >= 1
      /\ \A j \in 1 .. Len(Tail(tx.todo)) : Tail(tx.todo)[j] = tx.todo[j + 1]
  BY <1>1, <1>2, HeadTailProperties, EmptySeq, LenProperties
<1>4. /\ tx'.op = tx.op /\ tx'.todo = Tail(tx.todo) /\ UNCHANGED <<config, ins>>
  BY <1>1 DEF CancelOne, ClaimOne, Refunded, WithdrawTx
<1>5. ASSUME NEW j \in 1 .. Len(Tail(tx.todo))
      PROVE  /\ Tail(tx.todo)[j] \in DOMAIN rows \ {id}
             /\ MayTrade(rows[Tail(tx.todo)[j]].owner)
  <2>1. j + 1 \in 1 .. Len(tx.todo) /\ 1 \in 1 .. Len(tx.todo) /\ j + 1 # 1
    BY <1>2, <1>3
  <2>2. \A l \in 1 .. Len(tx.todo) : tx.todo[l] \in DOMAIN rows /\ MayTrade(rows[tx.todo[l]].owner)
    BY <1>1 DEF WithdrawOK, GatesHeld
  <2>3. \A l \in 1 .. Len(tx.todo) : tx.todo[1] = tx.todo[l] => 1 = l
    BY <2>1, <1>1 DEF WithdrawOK
  <2>. QED
    BY <1>3, <2>1, <2>2, <2>3
<1>6. \A w : MayTrade(w) => MayTrade(w)'
  BY <1>4 DEF MayTrade, Writable, config
<1>7. CASE CancelOne
  <2>1. orders' = Unlink(orders, id) /\ tx.op = "cancel" /\ rows = orders
    BY <1>7 DEF CancelOne
  <2>2. id \in DOMAIN orders
    BY <1>1, <1>2, <1>3, <2>1 DEF WithdrawOK
  <2>3. Rows(orders)
    BY <1>1, RowsOfOrders
  <2>4. \A i \in DOMAIN orders \ {id} : orders'[i].owner = orders[i].owner
    <3>1. \A i \in DOMAIN orders \ {id} : SameOrder(Unlink(orders, id)[i], orders[i])
      BY <2>2, <2>3, UnlinkRows
    <3>. QED
      BY <2>1, <3>1 DEF SameOrder
  <2>. HIDE DEF rows, id
  <2>5. (\A j \in 1 .. Len(tx.todo) : MayTrade(orders[tx.todo[j]].owner))'
    BY <1>4, <1>5, <1>6, <2>1, <2>4 DEF MayTrade, Writable, config
  <2>. QED
    BY <1>1, <1>4, <2>1, <2>5 DEF PromInv, GatesHeld, LastAtPrice, WalkInOrder, WalkFor, NoWalk
<1>8. CASE ClaimOne
  <2>1. claims' = [i \in DOMAIN claims \ {id} |-> claims[i]] /\ tx.op = "claim" /\ rows = claims
    BY <1>8 DEF ClaimOne
  <2>2. \A i \in DOMAIN claims \ {id} : claims'[i] = claims[i]
    BY <2>1
  <2>. HIDE DEF rows, id
  <2>5. (\A j \in 1 .. Len(tx.todo) : MayTrade(claims[tx.todo[j]].owner))'
    BY <1>4, <1>5, <1>6, <2>1, <2>2 DEF MayTrade, Writable, config
  <2>6. tx'.op = "claim" /\ ins'.phase = "none"
    BY <1>1, <1>4, <2>1 DEF WalkFor, NoWalk
  <2>7. GatesHeld'
    BY <2>5, <2>6 DEF GatesHeld
  <2>. QED
    BY <2>6, <2>7 DEF PromInv, LastAtPrice, WalkInOrder
<1>. QED
  BY <1>7, <1>8

\* Every step keeps the gates, the last place at a price, and the order of the walk.
LEMMA NextProm ==
  ASSUME IInv, IInv', PromInv, [Next]_vars
  PROVE  PromInv'
<1>0. /\ TxOK /\ WalkFor /\ WalkFor' /\ InsOK'
  BY DEF IInv, TxInv, WalkInv
<1>1. CASE Place
  <2>1. PICK o \in Owners, s \in Sides, bps \in FeeRates, n \in Nat \ {0} :
          \E input \in [1 .. n -> InputRung], rank \in [1 .. n -> 1 .. n] :
            /\ \A j, k \in 1 .. n : j # k => rank[j] # rank[k]
            /\ PlaceBatch(o, s, input, rank, bps)
    BY <1>1, PlaceIsBatch DEF IInv, BookInv
  <2>. QED
    BY <2>1, PlaceProm
<1>2. CASE Reprice \/ Exit \/ Clean \/ Match
  BY <1>2, BeginProm
<1>3. CASE Probe \/ WalkForward \/ WalkBack
  BY <1>3, WalksProm
<1>4. CASE PlaceRung \/ SkipRung
  BY <1>4, RungProm
<1>5. CASE CancelOne \/ ClaimOne
  BY <1>5, WithdrawProm
<1>6. ASSUME tx'.op \notin {"place", "reprice"}
      PROVE  ins'.phase = "none"
  BY <1>0, <1>6 DEF WalkFor, NoWalk
<1>7. CASE FinishPlace \/ Relink \/ RevertUpdatePrice \/ FinishWithdraw \/ FinishClean \/ FinishMatch
  <2>1. tx'.op = "idle"
    BY <1>7 DEF FinishPlace, Relink, RevertUpdatePrice, FinishWithdraw, FinishClean,
                FinishMatch, Idle
  <2>. QED
    BY <1>6, <2>1 DEF PromInv, GatesHeld, LastAtPrice, WalkInOrder
<1>8. CASE CleanVisit \/ MatchDead \/ MatchPass \/ MatchFill
  <2>1. tx \in CleanTx \cup MatchTx
    BY <1>0, <1>8, OpOfTx DEF CleanVisit, MatchDead, MatchPass, MatchFill
  <2>2. tx.op \in {"clean", "match"} /\ tx'.op = tx.op /\ UNCHANGED config
    BY <1>8, <2>1 DEF CleanVisit, MatchDead, MatchPass, MatchFill, Passed, Advance,
                      CleanTx, MatchTx
  <2>3. /\ tx'.op = "clean" => Writable'
        /\ tx'.op = "match" => MayTrade(PairKey)'
    BY <2>2 DEF PromInv, GatesHeld, MayTrade, Writable, config
  <2>. QED
    BY <1>6, <2>2, <2>3 DEF PromInv, GatesHeld, LastAtPrice, WalkInOrder
<1>9. CASE Environment
  <2>1. tx' = tx /\ tx = Idle
    BY <1>9 DEF Environment, SetPaused, CodeIdsChange, Tick, SetBlacklisted,
                UpdateLimitCleanConfig, UpdateLimitOrderConfig
  <2>. QED
    BY <1>6, <2>1 DEF PromInv, GatesHeld, LastAtPrice, WalkInOrder, Idle
<1>10. CASE UNCHANGED vars
  BY <1>10 DEF vars, PromInv, GatesHeld, LastAtPrice, WalkInOrder, MayTrade, Writable,
               InBookOrder, Expired, SortLast
<1>. QED
  BY <1>1, <1>2, <1>3, <1>4, <1>5, <1>7, <1>8, <1>9, <1>10 DEF Next, Message, TxStep

\* There is no message at first.
LEMMA InitProm ==
  ASSUME Init
  PROVE  PromInv
BY DEF Init, Idle, NoWalk, PromInv, GatesHeld, LastAtPrice, WalkInOrder

-----------------------------------------------------------------------------
(* The promised state. *)
\* Put back at its old place, an order whose price is being updated is in sound lists.
LEMMA SettledLists ==
  ASSUME IInv
  PROVE  /\ DOMAIN Settled = DOMAIN orders /\ Rows(Settled)
         /\ \A i \in DOMAIN orders : SameOrder(Settled[i], orders[i])
         /\ \E hs : InLists(Settled, hs, DOMAIN Settled)
<1>1. TypeOK /\ TxOK /\ Listed /\ RepriceOK /\ Rows(orders) /\ head \in [Sides -> Links]
  BY RowsOfOrders DEF IInv, BookInv, TxInv
<1>2. CASE tx.op # "reprice"
  <2>1. Settled = orders /\ Booked = DOMAIN orders
    BY <1>1, <1>2, RowsOfOrders DEF Settled
  <2>. QED
    BY <1>1, <2>1 DEF Listed, SameOrder
<1>3. CASE tx.op = "reprice"
  <2>1. tx \in RepriceTx
    BY <1>1, <1>3, OpOfTx
  <2>2. /\ tx.id \in Ids /\ tx.old \in AnyRow /\ tx.old.prev \in Links /\ tx.old.next \in Links
        /\ tx.id \in DOMAIN orders /\ SameOrder(orders[tx.id], tx.old)
        /\ Slot(orders, head, Booked, tx.old.side, tx.old.price, tx.old.prev, tx.old.next)
    BY <1>1, <1>3, <2>1 DEF RepriceTx, Row, AnyRow, RepriceOK
  <2>3. Settled = LinkIn(orders, tx.id, tx.old, tx.old.prev, tx.old.next)
    BY <1>3 DEF Settled
  <2>4. Booked = DOMAIN orders \ {tx.id}
    BY <1>3 DEF Booked, InBook
  <2>. DEFINE cs == LinkIn(orders, tx.id, tx.old, tx.old.prev, tx.old.next)
  <2>5. DOMAIN cs = DOMAIN orders \cup {tx.id}
    BY DEF LinkIn
  <2>6. Rows(cs)
    BY <1>1, <2>2, LinkInRows
  <2>7. PutBetween(cs, orders, tx.id, tx.old, tx.old.prev, tx.old.next)
    BY <1>1, <2>2, LinkInRows
  <2>8. InLists(cs, HeadAfterLink(head, tx.old.side, tx.id, tx.old.prev), Booked \cup {tx.id})
    BY <1>1, <2>2, <2>4, LinkInLists DEF Listed
  <2>. HIDE DEF cs
  <2>9. Settled = cs
    BY <2>3 DEF cs
  <2>10. Booked \cup {tx.id} = DOMAIN cs
    BY <2>2, <2>4, <2>5
  <2>. QED
    BY <2>2, <2>5, <2>6, <2>7, <2>8, <2>9, <2>10 DEF PutBetween, SameOrder
<1>. QED
  BY <1>2, <1>3

\* What stands is what rests or is parked.
LEMMA StandingRows ==
  ASSUME IInv
  PROVE  /\ DOMAIN Standing = Used /\ Standing = [i \in Used |-> Standing[i]]
         /\ \A i \in DOMAIN orders : Standing[i] = OnBook(orders[i]) /\ ~Standing[i].parked
         /\ \A i \in DOMAIN claims : Standing[i] = InClaims(claims[i]) /\ Standing[i].parked
<1>1. DOMAIN orders \cap DOMAIN claims = {}
  BY DEF IInv, BookInv, NeverInBothPlaces
<1>. QED
  BY <1>1 DEF Standing, Used, OnBook, InClaims

\* The vault holds what is owed, to the unit.
LEMMA VaultIsOwed ==
  ASSUME IInv, Balanced
  PROVE  Vault = [s \in Sides |-> OwedTo(s)]
BY DEF Vault, Balanced, EscrowIsOwed

\* All but order id stand as they did, and the vault moves by what id's order did.
LEMMA OthersStand ==
  ASSUME IInv, IInv', Balanced, Balanced', NEW id \in Ids, BesidesStand(id)
  PROVE  /\ \A i \in Ids \ {id} : /\ i \in DOMAIN Standing' <=> i \in DOMAIN Standing
                                  /\ i \in DOMAIN Standing => Standing'[i] = Standing[i]
         /\ \A s \in Sides : Vault'[s] = Vault[s] + (Amount(s, id)' - Amount(s, id))
<1>1. BookInv /\ BookInv'
  BY DEF IInv
<1>2. ASSUME NEW i \in Ids \ {id}
      PROVE  /\ i \in DOMAIN Standing' <=> i \in DOMAIN Standing
             /\ i \in DOMAIN Standing => Standing'[i] = Standing[i]
  BY DEF BesidesStand, Standing, SameOrder, OnBook, InClaims
<1>3. ASSUME NEW s \in Sides
      PROVE  Vault'[s] = Vault[s] + (Amount(s, id)' - Amount(s, id))
  <2>1. OwedTo(s)' = OwedTo(s) + (Amount(s, id)' - Amount(s, id))
    BY <1>1, OwedChanges
  <2>2. Vault[s] = OwedTo(s)
    BY VaultIsOwed
  <2>3. Vault'[s] = OwedTo(s)'
    BY VaultIsOwed DEF Vault, Balanced, EscrowIsOwed
  <2>. QED
    BY <2>1, <2>2, <2>3
<1>. QED
  BY <1>2, <1>3

\* What order id is owed grows by d, on side s.
Gains(id, s, d) ==
  \A t \in Sides : Amount(t, id) \in Int /\ Amount(t, id)' = Amount(t, id) + IF t = s THEN d ELSE 0

\* So the promised rows change at id only, and one side of the vault.
LEMMA StandingAfter ==
  ASSUME IInv, IInv', Balanced, Balanced', NEW id \in Ids, BesidesStand(id)
  PROVE  /\ id \notin DOMAIN Standing' => Standing' = Promised!Without(id)
         /\ id \in DOMAIN Standing /\ id \in DOMAIN Standing'
              => Standing' = [Standing EXCEPT ![id] = Standing'[id]]
         /\ id \in DOMAIN Standing'
              => Standing' = [i \in DOMAIN Standing \cup {id} |->
                                IF i = id THEN Standing'[id] ELSE Standing[i]]
<1>. PICK rs : rs = Standing
  OBVIOUS
<1>. PICK ns : ns = Standing'
  OBVIOUS
<1>1. \A i \in Ids \ {id} : (i \in DOMAIN ns <=> i \in DOMAIN rs) /\ (i \in DOMAIN rs => ns[i] = rs[i])
  BY OthersStand
<1>2. DOMAIN rs \subseteq Ids /\ DOMAIN ns \subseteq Ids
  BY DEF Standing, IInv, BookInv, TypeOK
<1>3. rs = [i \in DOMAIN rs |-> rs[i]] /\ ns = [i \in DOMAIN ns |-> ns[i]]
  BY DEF Standing
<1>4. \A i : i # id => (i \in DOMAIN ns <=> i \in DOMAIN rs) /\ (i \in DOMAIN rs => ns[i] = rs[i])
  BY <1>1, <1>2
<1>5. ASSUME id \notin DOMAIN ns
      PROVE  ns = [i \in DOMAIN rs \ {id} |-> rs[i]]
  <2>1. DOMAIN ns = DOMAIN rs \ {id}
    BY <1>4, <1>5
  <2>. QED
    BY <1>3, <1>4, <2>1
<1>6. ASSUME id \in DOMAIN rs, id \in DOMAIN ns
      PROVE  ns = [rs EXCEPT ![id] = ns[id]]
  <2>1. DOMAIN ns = DOMAIN rs
    BY <1>4, <1>6
  <2>. QED
    BY <1>3, <1>4, <2>1
<1>7. ASSUME id \in DOMAIN ns
      PROVE  ns = [i \in DOMAIN rs \cup {id} |-> IF i = id THEN ns[id] ELSE rs[i]]
  <2>1. DOMAIN ns = DOMAIN rs \cup {id}
    BY <1>4, <1>7
  <2>. QED
    BY <1>3, <1>4, <2>1
<1>. QED
  BY <1>5, <1>6, <1>7 DEF Promised!Without

\* The vault moves on one side, by what order id gained.
LEMMA VaultAfter ==
  ASSUME IInv, IInv', Balanced, Balanced', NEW id \in Ids, BesidesStand(id),
         NEW s \in Sides, NEW d \in Int, Gains(id, s, d)
  PROVE  Vault' = [Vault EXCEPT ![s] = @ + d]
<1>. PICK v : v = Vault
  OBVIOUS
<1>. PICK w : w = Vault'
  OBVIOUS
<1>1. \A t \in Sides : w[t] = v[t] + (Amount(t, id)' - Amount(t, id))
  BY OthersStand
<1>2. \A t \in Sides : v[t] \in Int
  BY UnbookedIsInt DEF IInv, BookInv, TxInv, TypeOK, Vault
<1>3. v = [t \in Sides |-> v[t]] /\ w = [t \in Sides |-> w[t]]
  BY DEF Vault
<1>4. \A t \in Sides : w[t] = IF t = s THEN v[t] + d ELSE v[t]
  <2>1. \A a, b \in Int : a + (b + d - b) = a + d /\ a + (b + 0 - b) = a
    OBVIOUS
  <2>. QED
    BY <1>1, <1>2, <2>1 DEF Gains
<1>. QED
  BY <1>3, <1>4

\* What the vault pays for order id.
LEMMA VaultPays ==
  ASSUME IInv, IInv', Balanced, Balanced', NEW id \in Ids, BesidesStand(id),
         NEW s \in Sides, NEW d \in Int,
         \A t \in Sides : Amount(t, id) \in Int /\ Amount(t, id)' = Amount(t, id) - IF t = s THEN d ELSE 0
  PROVE  Vault' = [Vault EXCEPT ![s] = @ - d]
<1>1. 0 - d \in Int /\ \A a \in Int : a - d = a + (0 - d) /\ a - 0 = a + 0
  OBVIOUS
<1>2. \A t \in Sides : Amount(t, id) \in Int
        /\ Amount(t, id)' = Amount(t, id) + IF t = s THEN 0 - d ELSE 0
  BY <1>1
<1>3. Vault' = [Vault EXCEPT ![s] = @ + (0 - d)]
  BY <1>1, <1>2, VaultAfter DEF Gains
<1>4. Vault[s] \in Int
  BY UnbookedIsInt DEF IInv, BookInv, TxInv, TypeOK, Vault
<1>. QED
  BY <1>1, <1>3, <1>4

\* A step that moves no order, and whose message is no price update.
LEMMA QuietStep ==
  ASSUME IInv, IInv', Balanced, Balanced', UNCHANGED <<orders, claims>>,
         (tx.op # "reprice" /\ tx'.op # "reprice") \/ UNCHANGED tx
  PROVE  Served(Settled)' = Served(Settled) /\ Standing' = Standing /\ Vault' = Vault
<1>1. Settled' = Settled
  BY DEF Settled
<1>2. Served(Settled)' = Served(Settled)
  BY <1>1 DEF Served
<1>3. Standing' = Standing
  BY DEF Standing
<1>4. \A s \in Sides : OwedTo(s)' = OwedTo(s)
  BY DEF OwedTo, TotalOn
<1>5. Vault' = Vault
  <2>1. Vault = [s \in Sides |-> OwedTo(s)]
    BY VaultIsOwed
  <2>2. Vault' = [s \in Sides |-> OwedTo(s)']
    BY DEF Vault, Balanced, EscrowIsOwed
  <2>. QED
    BY <1>4, <2>1, <2>2
<1>. QED
  BY <1>2, <1>3, <1>5

\* Such a step is invisible.
LEMMA QuietKeepsPromise ==
  ASSUME IInv, IInv', Balanced, Balanced', UNCHANGED <<orders, claims, config>>,
         (tx.op # "reprice" /\ tx'.op # "reprice") \/ UNCHANGED tx
  PROVE  UNCHANGED Promised!vars
<1>1. Served(Settled)' = Served(Settled) /\ Standing' = Standing /\ Vault' = Vault
  BY QuietStep
<1>2. now' = now /\ blacklisted' = blacklisted /\ (~Writable)' = ~Writable
  BY DEF config, Writable
<1>. QED
  BY <1>1, <1>2 DEF Promised!vars

\* Time passes, and settings change, between messages only.
LEMMA EnvironmentKeepsPromise ==
  ASSUME IInv, IInv', Balanced, Balanced', Environment
  PROVE  Promised!Next
<1>1. tx = Idle /\ UNCHANGED <<orders, claims, tx>>
  BY DEF Environment, SetPaused, CodeIdsChange, Tick, SetBlacklisted,
         UpdateLimitCleanConfig, UpdateLimitOrderConfig, book
<1>2. Served(Settled)' = Served(Settled) /\ Standing' = Standing /\ Vault' = Vault
  BY <1>1, QuietStep
<1>3. now' >= now
  <2>1. now \in Nat
    BY DEF IInv, BookInv, TypeOK
  <2>2. now' = now \/ now' = now + 1
    BY DEF Environment, SetPaused, CodeIdsChange, Tick, SetBlacklisted,
           UpdateLimitCleanConfig, UpdateLimitOrderConfig
  <2>. QED
    BY <2>1, <2>2
<1>. QED
  BY <1>2, <1>3 DEF Promised!Next, Promised!RulesChange

-----------------------------------------------------------------------------
(* Orders that leave the book. *)

\* The gates of the contract are the rules of the promise.
LEMMA GatesAreRules ==
  ASSUME NEW who, MayTrade(who)
  PROVE  Promised!May(who) /\ Writable
BY DEF MayTrade, Promised!May

\* An order that is unlinked leaves the service, and the others keep their places.
LEMMA LeavesService ==
  ASSUME IInv, tx.op # "reprice", tx'.op # "reprice", NEW id \in DOMAIN orders,
         NEW os, Kept(os, id), orders' = Unlink(os, id)
  PROVE  Served(Settled)' = Promised!Others(id)
<1>1. TypeOK /\ Listed /\ head \in [Sides -> Links]
  BY DEF IInv, BookInv, TypeOK
<1>2. Rows(os) /\ InLists(os, head, DOMAIN orders) /\ DOMAIN os = DOMAIN orders
  BY <1>1, KeptLists DEF Kept
<1>3. Served(Unlink(os, id)) = Besides(Served(os), id)
  BY <1>1, <1>2, UnlinkServes
<1>4. \A i \in DOMAIN orders : os[i].next = orders[i].next
  BY DEF Kept
<1>5. Served(os) = Served(orders)
  BY <1>2, <1>4, ServedByLinks
<1>6. Settled = orders /\ Settled' = orders'
  BY DEF Settled
<1>7. Served(Settled)' = Served(orders')
  BY <1>6 DEF Served
<1>. QED
  BY <1>3, <1>5, <1>6, <1>7 DEF Besides, Promised!Others

\* What a step makes of an order's promised row.
PromRow == [owner : Owners, side : Sides, price : Nat, amount : Nat, expires : Nat, parked : BOOLEAN]

\* Parked, the row is an amount to claim.
LEMMA ParkedRow ==
  ASSUME NEW o, NEW c, c.owner = o.owner, c.side = o.side, c.remaining = o.remaining
  PROVE  Promised!Parked(OnBook(o)) = InClaims(c)
BY DEF Promised!Parked, OnBook, InClaims

\* Filled in part, the row has less of the same.
LEMMA FilledRow ==
  ASSUME NEW o \in Row, NEW q \in Row, NEW amount \in Int,
         q.owner = o.owner, q.side = o.side, q.price = o.price, q.expires = o.expires,
         q.remaining = o.remaining - amount
  PROVE  [OnBook(o) EXCEPT !.amount = @ - amount] = OnBook(q)
<1>. PICK r : r = OnBook(o)
  OBVIOUS
<1>1. r \in PromRow /\ r.owner = o.owner /\ r.side = o.side /\ r.amount = o.remaining
      /\ r.price = o.price /\ r.expires = o.expires /\ r.parked = FALSE
  BY DEF OnBook, Row, PromRow
<1>2. r.amount - amount \in Nat
  BY <1>1 DEF Row
<1>3. [r EXCEPT !.amount = @ - amount]
       = [owner |-> r.owner, side |-> r.side, price |-> r.price,
           amount |-> r.amount - amount, expires |-> r.expires, parked |-> r.parked]
  BY <1>1, <1>2 DEF PromRow
<1>. QED
  BY <1>1, <1>3 DEF OnBook

\* Repriced, the row has another price.
LEMMA RepricedRow ==
  ASSUME NEW o \in Row, NEW q \in Row,
         q.owner = o.owner, q.side = o.side, q.expires = o.expires, q.remaining = o.remaining
  PROVE  [OnBook(o) EXCEPT !.price = q.price] = OnBook(q)
<1>. PICK r : r = OnBook(o)
  OBVIOUS
<1>1. r \in PromRow /\ r.owner = o.owner /\ r.side = o.side /\ r.amount = o.remaining
      /\ r.expires = o.expires /\ r.parked = FALSE /\ q.price \in Nat
  BY DEF OnBook, Row, PromRow
<1>3. [r EXCEPT !.price = q.price]
       = [owner |-> r.owner, side |-> r.side, price |-> q.price,
           amount |-> r.amount, expires |-> r.expires, parked |-> r.parked]
  BY <1>1 DEF PromRow
<1>. QED
  BY <1>1, <1>3 DEF OnBook

\* An order is parked as it is.
LEMMA ParkKeepsPromise ==
  ASSUME IInv, IInv', Balanced, Balanced', tx.op # "reprice", tx'.op # "reprice",
         Writable, UNCHANGED config,
         NEW id \in DOMAIN orders, NEW reason, Park(orders, id, reason)
  PROVE  Promised!Next
<1>1. BookInv /\ TypeOK /\ id \in Ids /\ orders[id] \in Row /\ id \notin DOMAIN claims
  BY DEF IInv, BookInv, TypeOK, NeverInBothPlaces
<1>2. Kept(orders, id)
  BY <1>1 DEF Kept, Row, AnyRow
<1>3. /\ BesidesStand(id) /\ DOMAIN orders' = DOMAIN orders \ {id}
      /\ id \in DOMAIN claims' /\ claims'[id].side = orders[id].side
      /\ claims'[id].remaining = orders[id].remaining
  BY <1>1, <1>2, ParkBesides
<1>4. Served(Settled)' = Promised!Others(id)
  BY <1>2, LeavesService DEF Park
<1>5. claims'[id].owner = orders[id].owner /\ orders' = Unlink(orders, id)
  BY DEF Park
<1>6. \A s \in Sides : Amount(s, id) \in Int /\ Amount(s, id)' = Amount(s, id) + IF s = "bid" THEN 0 ELSE 0
  BY <1>1, <1>3 DEF Amount, AmountIn, Row
<1>7. Vault' = Vault
  <2>1. Vault' = [Vault EXCEPT !["bid"] = @ + 0]
    BY <1>1, <1>3, <1>6, VaultAfter DEF Sides, Gains
  <2>2. Vault["bid"] \in Int
    BY <1>1, UnbookedIsInt DEF IInv, TxInv, TypeOK, Vault, Sides
  <2>. QED
    BY <2>1, <2>2 DEF Vault
<1>8. /\ id \in DOMAIN Standing /\ ~Standing[id].parked
      /\ Standing[id] = OnBook(orders[id])
  BY StandingRows, <1>1 DEF Used
<1>9. id \in DOMAIN Standing' /\ Standing'[id] = InClaims(claims'[id])
  BY <1>3 DEF Standing, InClaims
<1>10. Standing' = [Standing EXCEPT ![id] = Promised!Parked(@)]
  <2>1. InClaims(claims'[id]) = Promised!Parked(OnBook(orders[id]))
    BY <1>3, <1>5, ParkedRow
  <2>2. Standing' = [Standing EXCEPT ![id] = Standing'[id]]
    BY <1>1, <1>3, <1>8, <1>9, StandingAfter
  <2>. QED
    BY <1>8, <1>9, <2>1, <2>2
<1>11. Promised!ParkOrder(id)
  BY <1>4, <1>7, <1>8, <1>10 DEF Promised!ParkOrder, Promised!Resting, Promised!Leave,
     Promised!rules, config, Writable
<1>. QED
  BY <1>8, <1>11 DEF Promised!Next

\* An order is gone, and what was left of it is paid out.
LEMMA GoneFromBook ==
  ASSUME IInv, IInv', Balanced, Balanced', tx.op # "reprice", tx'.op # "reprice",
         NEW id \in DOMAIN orders, NEW os, Kept(os, id), orders' = Unlink(os, id),
         UNCHANGED claims
  PROVE  /\ Standing' = Promised!Without(id) /\ Served(Settled)' = Promised!Others(id)
         /\ Vault' = [Vault EXCEPT ![orders[id].side] = @ - orders[id].remaining]
<1>1. BookInv /\ TypeOK /\ id \in Ids /\ orders[id] \in Row /\ id \notin DOMAIN claims
  BY DEF IInv, BookInv, TypeOK, NeverInBothPlaces
<1>2. BesidesStand(id) /\ DOMAIN orders' = DOMAIN orders \ {id}
  BY <1>1, UnlinkBesides
<1>3. id \notin DOMAIN Standing'
  BY <1>1, <1>2 DEF Standing
<1>4. Standing' = Promised!Without(id)
  BY <1>1, <1>2, <1>3, StandingAfter
<1>5. Served(Settled)' = Promised!Others(id)
  BY LeavesService
<1>6. orders[id].side \in Sides /\ orders[id].remaining \in Int
  BY <1>1 DEF Row
<1>7. \A t \in Sides : Amount(t, id) \in Int
        /\ Amount(t, id)' = Amount(t, id) - IF t = orders[id].side THEN orders[id].remaining ELSE 0
  BY <1>1, <1>2, <1>6 DEF Amount, AmountIn
<1>. QED
  BY <1>1, <1>2, <1>4, <1>5, <1>6, <1>7, VaultPays

\* A cancel takes a resting order out and pays it.
LEMMA CancelKeepsPromise ==
  ASSUME IInv, IInv', Balanced, Balanced', PromInv, CancelOne
  PROVE  Promised!Next
<1>. PICK id : id = Head(tx.todo)
  OBVIOUS
<1>1. /\ TypeOK /\ TxOK /\ WithdrawOK /\ GatesHeld /\ tx.op = "cancel" /\ tx \in WithdrawTx
      /\ tx.todo # <<>> /\ orders' = Unlink(orders, id) /\ UNCHANGED <<claims, config>>
  BY OpOfTx DEF IInv, BookInv, TxInv, PromInv, CancelOne
<1>2. id = tx.todo[1] /\ 1 \in 1 .. Len(tx.todo)
  <2>1. tx.todo \in Seq(Ids) /\ tx.todo # <<>>
    BY <1>1 DEF WithdrawTx
  <2>. QED
    BY <2>1, EmptySeq, LenProperties
<1>3. id \in DOMAIN orders /\ MayTrade(orders[id].owner)
  BY <1>1, <1>2 DEF WithdrawOK, GatesHeld
<1>4. orders[id] \in Row /\ Kept(orders, id) /\ tx'.op # "reprice"
  <2>1. orders[id] \in Row
    BY <1>1, <1>3 DEF TypeOK
  <2>2. tx'.op = tx.op
    BY <1>1 DEF CancelOne, Refunded, WithdrawTx
  <2>. QED
    BY <1>1, <2>1, <2>2 DEF Kept, Row, AnyRow
<1>5. /\ Standing' = Promised!Without(id) /\ Served(Settled)' = Promised!Others(id)
      /\ Vault' = [Vault EXCEPT ![orders[id].side] = @ - orders[id].remaining]
  BY <1>1, <1>3, <1>4, GoneFromBook
<1>6. /\ id \in DOMAIN Standing /\ ~Standing[id].parked
      /\ Standing[id].side = orders[id].side /\ Standing[id].amount = orders[id].remaining
      /\ Standing[id].owner = orders[id].owner
  BY <1>3, StandingRows DEF Used, OnBook
<1>7. Promised!May(Standing[id].owner) /\ now' = now /\ blacklisted' = blacklisted
      /\ (~Writable)' = ~Writable
  BY <1>1, <1>3, <1>6, GatesAreRules DEF config, Writable
<1>8. Promised!Withdraw(id)
  BY <1>5, <1>6, <1>7 DEF Promised!Withdraw, Promised!Pay, Promised!Leave, Promised!rules
<1>. QED
  BY <1>6, <1>8 DEF Promised!Next

\* A parked order is gone, and paid out.
LEMMA GoneFromClaims ==
  ASSUME IInv, IInv', Balanced, Balanced', NEW id \in DOMAIN claims, UNCHANGED orders,
         claims' = [i \in DOMAIN claims \ {id} |-> claims[i]]
  PROVE  /\ Standing' = Promised!Without(id)
         /\ Vault' = [Vault EXCEPT ![claims[id].side] = @ - claims[id].remaining]
<1>1. BookInv /\ TypeOK /\ id \in Ids /\ claims[id] \in ClaimRow /\ id \notin DOMAIN orders
  BY DEF IInv, BookInv, TypeOK, NeverInBothPlaces
<1>2. BesidesStand(id) /\ DOMAIN claims' = DOMAIN claims \ {id}
  BY DEF BesidesStand, SameOrder
<1>3. id \notin DOMAIN Standing'
  BY <1>1, <1>2 DEF Standing
<1>4. Standing' = Promised!Without(id)
  BY <1>1, <1>2, <1>3, StandingAfter
<1>6. claims[id].side \in Sides /\ claims[id].remaining \in Int
  BY <1>1 DEF ClaimRow
<1>7. \A t \in Sides : Amount(t, id) \in Int
        /\ Amount(t, id)' = Amount(t, id) - IF t = claims[id].side THEN claims[id].remaining ELSE 0
  BY <1>1, <1>2, <1>6 DEF Amount, AmountIn
<1>. QED
  BY <1>1, <1>2, <1>4, <1>6, <1>7, VaultPays

\* A claim takes a parked order out and pays it.
LEMMA ClaimKeepsPromise ==
  ASSUME IInv, IInv', Balanced, Balanced', PromInv, ClaimOne
  PROVE  Promised!Next
<1>. PICK id : id = Head(tx.todo)
  OBVIOUS
<1>1. /\ TypeOK /\ TxOK /\ WithdrawOK /\ GatesHeld /\ tx.op = "claim" /\ tx \in WithdrawTx
      /\ tx.todo # <<>> /\ claims' = [i \in DOMAIN claims \ {id} |-> claims[i]]
      /\ UNCHANGED <<orders, config>> /\ NeverInBothPlaces
  BY OpOfTx DEF IInv, BookInv, TxInv, PromInv, ClaimOne, book
<1>2. id = tx.todo[1] /\ 1 \in 1 .. Len(tx.todo)
  <2>1. tx.todo \in Seq(Ids) /\ tx.todo # <<>>
    BY <1>1 DEF WithdrawTx
  <2>. QED
    BY <2>1, EmptySeq, LenProperties
<1>3. id \in DOMAIN claims /\ MayTrade(claims[id].owner)
  BY <1>1, <1>2 DEF WithdrawOK, GatesHeld
<1>4. claims[id] \in ClaimRow /\ tx'.op # "reprice" /\ id \in Ids /\ id \notin DOMAIN orders
  <2>1. tx'.op = tx.op
    BY <1>1 DEF ClaimOne, Refunded, WithdrawTx
  <2>. QED
    BY <1>1, <1>3, <2>1 DEF TypeOK, NeverInBothPlaces
<1>5. /\ Standing' = Promised!Without(id)
      /\ Vault' = [Vault EXCEPT ![claims[id].side] = @ - claims[id].remaining]
  BY <1>1, <1>3, GoneFromClaims
<1>8. Served(Settled)' = Served(Settled)
  <2>1. Settled' = Settled
    BY <1>1, <1>4 DEF Settled
  <2>. QED
    BY <2>1 DEF Served
<1>12. /\ id \in DOMAIN Standing /\ Standing[id].parked
       /\ Standing[id].side = claims[id].side /\ Standing[id].amount = claims[id].remaining
       /\ Standing[id].owner = claims[id].owner
  BY <1>3, StandingRows DEF Used, InClaims
<1>13. Promised!May(Standing[id].owner) /\ now' = now /\ blacklisted' = blacklisted
       /\ (~Writable)' = ~Writable
  BY <1>1, <1>3, <1>12, GatesAreRules DEF config, Writable
<1>14. Promised!Withdraw(id)
  BY <1>5, <1>8, <1>12, <1>13 DEF Promised!Withdraw, Promised!Pay, Promised!rules
<1>. QED
  BY <1>12, <1>14 DEF Promised!Next

-----------------------------------------------------------------------------
(* Fills. *)
FilledRowOf(id, rem) == [orders EXCEPT ![id].remaining = rem]

\* A fill that keeps the order on the book writes its remaining amount alone.
LEMMA KeptFilled ==
  ASSUME TypeOK, NEW id \in DOMAIN orders, NEW rem \in Nat
  PROVE  /\ Kept(FilledRowOf(id, rem), id) /\ FilledRowOf(id, rem)[id].remaining = rem
         /\ FilledRowOf(id, rem)[id].expires = orders[id].expires
         /\ rem # 0 => FilledRowOf(id, rem)[id] \in Row
<1>1. orders[id] \in Row
  BY DEF TypeOK
<1>. QED
  BY <1>1 DEF FilledRowOf, Kept, Row, AnyRow

\* Spent: the order is gone.
LEMMA SpentFill ==
  ASSUME IInv, IInv', Balanced, Balanced', tx.op # "reprice", tx'.op # "reprice",
         NEW id \in DOMAIN orders, NEW out \in Int, out = orders[id].remaining,
         orders' = Unlink(FilledRowOf(id, 0), id), UNCHANGED claims
  PROVE  /\ Standing' = Promised!Without(id) /\ Served(Settled)' = Promised!Others(id)
         /\ Vault' = [Vault EXCEPT ![orders[id].side] = @ - out]
<1>1. Kept(FilledRowOf(id, 0), id)
  BY KeptFilled DEF IInv, BookInv
<1>. QED
  BY <1>1, GoneFromBook

\* The rest is parked.
LEMMA ParkedFill ==
  ASSUME IInv, IInv', Balanced, Balanced', tx.op # "reprice", tx'.op # "reprice",
         NEW id \in DOMAIN orders, NEW out \in Int, NEW rem \in Nat \ {0},
         rem = orders[id].remaining - out, NEW reason, Park(FilledRowOf(id, rem), id, reason)
  PROVE  /\ Standing' = [Standing EXCEPT ![id] =
                           Promised!Parked([Standing[id] EXCEPT !.amount = @ - out])]
         /\ Served(Settled)' = Promised!Others(id)
         /\ Vault' = [Vault EXCEPT ![orders[id].side] = @ - out]
<1>. PICK os : os = FilledRowOf(id, rem)
  OBVIOUS
<1>1. BookInv /\ TypeOK /\ id \in Ids /\ orders[id] \in Row /\ id \notin DOMAIN claims
  BY DEF IInv, BookInv, TypeOK, NeverInBothPlaces
<1>2. Kept(os, id) /\ os[id].remaining = rem /\ os[id].expires = orders[id].expires /\ os[id] \in Row
  BY <1>1, KeptFilled
<1>3. /\ BesidesStand(id) /\ DOMAIN orders' = DOMAIN orders \ {id}
      /\ id \in DOMAIN claims' /\ claims'[id].side = orders[id].side
      /\ claims'[id].remaining = rem
  BY <1>1, <1>2, ParkBesides
<1>4. Served(Settled)' = Promised!Others(id)
  BY <1>2, LeavesService DEF Park
<1>5. claims'[id].owner = os[id].owner /\ claims'[id].side = os[id].side
      /\ os[id].owner = orders[id].owner /\ os[id].side = orders[id].side
      /\ os[id].price = orders[id].price
  BY <1>2 DEF Park, Kept
<1>6. orders[id].side \in Sides /\ orders[id].remaining \in Int
  BY <1>1 DEF Row
<1>7. \A t \in Sides : Amount(t, id) \in Int
        /\ Amount(t, id)' = Amount(t, id) - IF t = orders[id].side THEN out ELSE 0
  BY <1>1, <1>3, <1>6 DEF Amount, AmountIn
<1>8. Vault' = [Vault EXCEPT ![orders[id].side] = @ - out]
  <2>1. BesidesStand(id) /\ id \in Ids /\ orders[id].side \in Sides
    BY <1>1, <1>3, <1>6
  <2>. QED
    BY <1>7, <2>1, VaultPays
<1>9. id \in DOMAIN Standing /\ Standing[id] = OnBook(orders[id])
  BY StandingRows DEF Used
<1>10. id \in DOMAIN Standing' /\ Standing'[id] = InClaims(claims'[id])
  BY <1>3 DEF Standing, InClaims
<1>11. [OnBook(orders[id]) EXCEPT !.amount = @ - out] = OnBook(os[id])
  BY <1>1, <1>2, <1>5, FilledRow
<1>12. Promised!Parked(OnBook(os[id])) = InClaims(claims'[id])
  BY <1>2, <1>3, <1>5, ParkedRow
<1>13. Standing' = [Standing EXCEPT ![id] = Standing'[id]]
  BY <1>1, <1>3, <1>9, <1>10, StandingAfter
<1>. QED
  BY <1>4, <1>8, <1>9, <1>10, <1>11, <1>12, <1>13

\* The rest stays.
LEMMA PartFill ==
  ASSUME IInv, IInv', Balanced, Balanced', tx.op # "reprice", tx'.op # "reprice",
         NEW id \in DOMAIN orders, NEW out \in Int, NEW rem \in Nat \ {0},
         rem = orders[id].remaining - out, orders' = FilledRowOf(id, rem), UNCHANGED claims
  PROVE  /\ Standing' = [Standing EXCEPT ![id] = [Standing[id] EXCEPT !.amount = @ - out]]
         /\ Served(Settled)' = Served(Settled)
         /\ Vault' = [Vault EXCEPT ![orders[id].side] = @ - out]
<1>. PICK os : os = FilledRowOf(id, rem)
  OBVIOUS
<1>1. BookInv /\ TypeOK /\ id \in Ids /\ orders[id] \in Row /\ id \notin DOMAIN claims
  BY DEF IInv, BookInv, TypeOK, NeverInBothPlaces
<1>2. Kept(os, id) /\ os[id].remaining = rem /\ os[id].expires = orders[id].expires /\ os[id] \in Row
  BY <1>1, KeptFilled
<1>3. /\ orders' = os /\ DOMAIN os = DOMAIN orders /\ os[id].side = orders[id].side
      /\ os[id].price = orders[id].price /\ os[id].owner = orders[id].owner
      /\ \A i \in DOMAIN orders \ {id} : os[i] = orders[i]
      /\ \A i \in DOMAIN orders : os[i].next = orders[i].next
  BY <1>2 DEF Kept
<1>4. BesidesStand(id)
  BY <1>3 DEF BesidesStand, SameOrder
<1>5. Served(Settled)' = Served(Settled)
  <2>0. DOMAIN os = DOMAIN orders /\ \A i \in DOMAIN orders : os[i].next = orders[i].next
    BY <1>3
  <2>1. Served(os) = Served(orders)
    BY <2>0, ServedByLinks
  <2>2. Settled = orders /\ Settled' = orders'
    BY DEF Settled
  <2>3. Served(Settled)' = Served(orders')
    BY <2>2 DEF Served
  <2>. QED
    BY <1>3, <2>1, <2>2, <2>3
<1>6. orders[id].side \in Sides /\ orders[id].remaining \in Int
  BY <1>1 DEF Row
<1>7. \A t \in Sides : Amount(t, id) \in Int
        /\ Amount(t, id)' = Amount(t, id) - IF t = orders[id].side THEN out ELSE 0
  BY <1>1, <1>2, <1>3, <1>6 DEF Amount, AmountIn
<1>8. Vault' = [Vault EXCEPT ![orders[id].side] = @ - out]
  BY <1>1, <1>4, <1>6, <1>7, VaultPays
<1>9. id \in DOMAIN Standing /\ Standing[id] = OnBook(orders[id])
  BY StandingRows DEF Used
<1>10. id \in DOMAIN Standing' /\ Standing'[id] = OnBook(os[id])
  BY <1>3 DEF Standing, OnBook
<1>11. [OnBook(orders[id]) EXCEPT !.amount = @ - out] = OnBook(os[id])
  BY <1>1, <1>2, <1>3, FilledRow
<1>13. Standing' = [Standing EXCEPT ![id] = Standing'[id]]
  BY <1>1, <1>4, <1>9, <1>10, StandingAfter
<1>. QED
  BY <1>5, <1>8, <1>9, <1>10, <1>11, <1>13

\* A match has passed the gates, and its step moves no setting.
LEMMA MatchRuns ==
  ASSUME IInv, PromInv, MatchDead \/ MatchFill \/ MatchPass
  PROVE  /\ tx.op = "match" /\ tx'.op = "match" /\ UNCHANGED config
         /\ tx \in MatchTx /\ tx.cur \in DOMAIN orders /\ orders[tx.cur] \in Row
         /\ MayTrade(PairKey) /\ Writable
<1>1. tx.op = "match" /\ tx.cur # 0 /\ UNCHANGED config
  BY DEF MatchDead, MatchFill, MatchPass, MatchOn
<1>2. tx \in MatchTx /\ tx.cur \in DOMAIN orders /\ orders[tx.cur] \in Row
  BY <1>1, MatchCursor DEF IInv
<1>3. tx'.op = tx.op
  BY <1>2 DEF MatchDead, MatchFill, MatchPass, Advance, MatchTx
<1>4. MayTrade(PairKey)
  BY <1>1 DEF PromInv, GatesHeld
<1>. QED
  BY <1>1, <1>2, <1>3, <1>4 DEF MayTrade

\* A match parks a dead order, or passes over it.
LEMMA MatchDeadKeepsPromise ==
  ASSUME IInv, IInv', Balanced, Balanced', PromInv, MatchDead
  PROVE  Promised!Next \/ UNCHANGED Promised!vars
<1>1. /\ tx.op = "match" /\ tx'.op = "match" /\ UNCHANGED config
      /\ tx.cur \in DOMAIN orders /\ Writable
  BY MatchRuns
<1>2. CASE Park(orders, tx.cur, DeadReason(orders[tx.cur]))
  <2>. PICK id \in DOMAIN orders : id = tx.cur
    BY <1>1
  <2>. PICK reason : reason = DeadReason(orders[tx.cur])
    OBVIOUS
  <2>1. Park(orders, id, reason)
    BY <1>2
  <2>. QED
    BY <1>1, <2>1, ParkKeepsPromise
<1>3. CASE UNCHANGED <<book, claims>>
  BY <1>1, <1>3, QuietKeepsPromise DEF book
<1>. QED
  BY <1>2, <1>3 DEF MatchDead

\* A clean parks a dead order, or goes on to the next.
LEMMA CleanVisitKeepsPromise ==
  ASSUME IInv, IInv', Balanced, Balanced', PromInv, CleanVisit
  PROVE  Promised!Next \/ UNCHANGED Promised!vars
<1>1. tx.op = "clean" /\ tx.cur # 0 /\ UNCHANGED config /\ Writable /\ tx \in CleanTx
      /\ tx.cur \in DOMAIN orders
  BY OpOfTx DEF CleanVisit, CleanOn, PromInv, GatesHeld, IInv, TxInv, CursorOK
<1>2. tx'.op = "clean"
  BY <1>1 DEF CleanVisit, Passed, CleanTx
<1>3. CASE Park(orders, tx.cur, CleanReason(orders[tx.cur]))
  <2>. PICK id \in DOMAIN orders : id = tx.cur
    BY <1>1
  <2>. PICK reason : reason = CleanReason(orders[tx.cur])
    OBVIOUS
  <2>1. Park(orders, id, reason)
    BY <1>3
  <2>. QED
    BY <1>1, <1>2, <2>1, ParkKeepsPromise
<1>4. CASE UNCHANGED <<book, claims>>
  BY <1>1, <1>2, <1>4, QuietKeepsPromise DEF book
<1>. QED
  BY <1>3, <1>4 DEF CleanVisit

\* A fill spends an order, parks its rest as dust, or leaves the rest in place.
LEMMA FillKeepsPromise ==
  ASSUME IInv, IInv', Balanced, Balanced', PromInv, MatchFill
  PROVE  Promised!Next
<1>. DEFINE t == Trade(orders[tx.cur], tx.left)
            gives == IF orders[tx.cur].side = "bid" THEN t.cost ELSE t.fill
<1>1. /\ tx.op = "match" /\ tx'.op = "match" /\ UNCHANGED config
      /\ tx \in MatchTx /\ tx.cur \in DOMAIN orders /\ orders[tx.cur] \in Row
      /\ MayTrade(PairKey) /\ Writable
  BY MatchRuns
<1>. PICK id \in DOMAIN orders : id = tx.cur
  BY <1>1
<1>2. gives \in Int /\ gives > 0
  <2>1. tx.left \in Int
    BY <1>1 DEF MatchTx
  <2>2. t.fill \in Int /\ t.cost \in Int
    BY <1>1, <2>1, TradeIsInt
  <2>3. t.fill > 0 /\ t.cost > 0
    BY DEF MatchFill, Tradable
  <2>. HIDE DEF t
  <2>. QED
    BY <2>2, <2>3
<1>. PICK out \in Int : out = gives /\ out > 0
  BY <1>2
<1>3. Finalize(id, orders[id].remaining - out) /\ DeadReason(orders[id]) = "none"
  BY DEF MatchFill
<1>. HIDE DEF gives, t
<1>. PICK rem \in Int : rem = orders[id].remaining - out
  BY <1>1 DEF Row
<1>4. orders[id].remaining \in Nat \ {0} /\ orders[id].side \in Sides /\ DUST \in Nat \ {0}
  BY <1>1, UnitAssumption DEF Row
<1>. PICK os : os = FilledRowOf(id, rem)
  OBVIOUS
<1>5. \/ rem = 0 /\ orders' = Unlink(os, id) /\ UNCHANGED claims
      \/ rem > 0 /\ Park(os, id, "dust_filled")
      \/ rem > 0 /\ Park(os, id, "unfillable")
      \/ rem > 0 /\ orders' = os /\ UNCHANGED claims
  <2>1. Finalize(id, rem)
    BY <1>3
  <2>. QED
    BY <2>1, <1>4 DEF Finalize, FilledRowOf
<1>6. out \in 1 .. orders[id].remaining /\ (rem = 0 <=> out = orders[id].remaining)
  BY <1>4, <1>5
<1>7. /\ id \in DOMAIN Standing /\ ~Standing[id].parked
      /\ Standing[id].side = orders[id].side /\ Standing[id].amount = orders[id].remaining
      /\ Standing[id].owner = orders[id].owner /\ Standing[id].expires = orders[id].expires
  BY StandingRows DEF Used, OnBook
<1>8. Promised!May(Standing[id].owner) /\ ~Promised!Expired(Standing[id])
  <2>1. orders[id].owner \notin blacklisted /\ ~Expired(orders[id])
    BY <1>3 DEF DeadReason
  <2>2. PairKey \notin blacklisted
    BY <1>1 DEF MayTrade
  <2>. QED
    BY <1>1, <1>7, <2>1, <2>2 DEF Promised!May, Promised!Expired, Expired
<1>9. now' = now /\ blacklisted' = blacklisted /\ (~Writable)' = ~Writable
  BY <1>1 DEF config, Writable
<1>10. ASSUME NEW park \in BOOLEAN,
              Vault' = [Vault EXCEPT ![orders[id].side] = @ - out],
              IF out = orders[id].remaining THEN Standing' = Promised!Without(id)
              ELSE Standing' = [Standing EXCEPT ![id] =
                     IF park THEN Promised!Parked([Standing[id] EXCEPT !.amount = @ - out])
                     ELSE [Standing[id] EXCEPT !.amount = @ - out]],
              IF out = orders[id].remaining \/ park
              THEN Served(Settled)' = Promised!Others(id)
              ELSE Served(Settled)' = Served(Settled)
       PROVE  Promised!Next
  <2>1. Promised!Fill(id, out, park)
    BY <1>6, <1>7, <1>8, <1>9, <1>10 DEF Promised!Fill, Promised!Resting, Promised!Pay,
       Promised!Leave, Promised!rules
  <2>. QED
    BY <1>6, <1>7, <2>1 DEF Promised!Next
<1>11. CASE rem = 0 /\ orders' = Unlink(os, id) /\ UNCHANGED claims
  <2>1. /\ Standing' = Promised!Without(id) /\ Served(Settled)' = Promised!Others(id)
        /\ Vault' = [Vault EXCEPT ![orders[id].side] = @ - out]
    BY <1>1, <1>6, <1>11, SpentFill
  <2>. QED
    BY <1>6, <1>10, <1>11, <2>1
<1>12. ASSUME NEW reason, rem > 0, Park(os, id, reason)
       PROVE  Promised!Next
  <2>1. rem \in Nat \ {0}
    BY <1>12
  <2>2. /\ Standing' = [Standing EXCEPT ![id] =
                           Promised!Parked([Standing[id] EXCEPT !.amount = @ - out])]
        /\ Served(Settled)' = Promised!Others(id)
        /\ Vault' = [Vault EXCEPT ![orders[id].side] = @ - out]
    BY <1>1, <1>12, <2>1, ParkedFill
  <2>. QED
    BY <1>6, <1>10, <2>1, <2>2
<1>13. CASE rem > 0 /\ orders' = os /\ UNCHANGED claims
  <2>1. rem \in Nat \ {0}
    BY <1>13
  <2>2. /\ Standing' = [Standing EXCEPT ![id] = [Standing[id] EXCEPT !.amount = @ - out]]
        /\ Served(Settled)' = Served(Settled)
        /\ Vault' = [Vault EXCEPT ![orders[id].side] = @ - out]
    BY <1>1, <1>13, <2>1, PartFill
  <2>. QED
    BY <1>6, <1>10, <2>1, <2>2
<1>. QED
  BY <1>5, <1>11, <1>12, <1>13

-----------------------------------------------------------------------------
(* Orders that arrive. *)

\* Who comes before and after a newcomer is read from the rows on the book.
LEMMA ArriveIsArrived ==
  ASSUME IInv, NEW id, NEW s \in Sides, NEW price \in Nat
  PROVE  Promised!Arrive(id, s, price) = Arrived(orders, id, s, price)
<1>. DEFINE others == {i \in Promised!AllOf(s) : Promised!Resting(i)} \ {id}
            these == {i \in DOMAIN orders \ {id} : orders[i].side = s}
<1>1. TypeOK
  BY DEF IInv, BookInv
<1>2. \A i : i \in others <=> i \in these
  <2>1. DOMAIN Standing = DOMAIN orders \cup DOMAIN claims
    BY DEF Standing
  <2>2. ASSUME NEW i \in DOMAIN orders
        PROVE  Standing[i].side = orders[i].side /\ ~Standing[i].parked
    <3>1. Standing[i] = OnBook(orders[i])
      BY StandingRows
    <3>. QED
      BY <3>1 DEF OnBook
  <2>3. \A i \in DOMAIN claims : Standing[i].parked
    BY StandingRows
  <2>. QED
    BY <2>1, <2>2, <2>3 DEF Promised!AllOf, Promised!Resting
<1>3. others = these
  BY <1>2
<1>4. \A i \in these : Promised!Worse(s, Standing[i].price, price) <=> Better(s, price, orders[i].price)
  <2>1. ASSUME NEW i \in these
        PROVE  Standing[i].price = orders[i].price /\ orders[i].price \in Nat
    <3>1. Standing[i] = OnBook(orders[i]) /\ orders[i] \in Row
      BY <1>1, StandingRows DEF TypeOK
    <3>. QED
      BY <3>1 DEF OnBook, Row
  <2>. QED
    BY <2>1 DEF Promised!Worse, Better
<1>5. Promised!Arrive(id, s, price)
        = {<<i, id>> : i \in {i \in others : ~Promised!Worse(s, Standing[i].price, price)}}
            \cup {<<id, i>> : i \in {i \in others : Promised!Worse(s, Standing[i].price, price)}}
  BY DEF Promised!Arrive
<1>6. Arrived(orders, id, s, price)
        = {<<i, id>> : i \in {i \in these : ~Better(s, price, orders[i].price)}}
            \cup {<<id, i>> : i \in {i \in these : Better(s, price, orders[i].price)}}
  BY DEF Arrived
<1>. HIDE DEF others, these
<1>7. /\ {i \in others : ~Promised!Worse(s, Standing[i].price, price)}
           = {i \in these : ~Better(s, price, orders[i].price)}
      /\ {i \in others : Promised!Worse(s, Standing[i].price, price)}
           = {i \in these : Better(s, price, orders[i].price)}
  BY <1>3, <1>4
<1>. QED
  BY <1>5, <1>6, <1>7

\* Where a finished walk put the order: the promised place.
LEMMA FoundArrives ==
  ASSUME IInv, WalkInOrder, ins.phase = "found", NEW id \in Ids, NEW rec \in Row,
         Booked = DOMAIN orders \ {id}, rec.side = ins.side, rec.price = ins.price
  PROVE  /\ ins.prev \in Links /\ ins.next \in Links
         /\ Served(LinkIn(orders, id, rec, ins.prev, ins.next))
              = Served(Rest(orders, id)) \cup Promised!Arrive(id, rec.side, rec.price)
<1>1. /\ Rows(orders) /\ head \in [Sides -> Links] /\ InLists(orders, head, DOMAIN orders \ {id})
      /\ InsOK /\ WalkOK
  BY RowsOfOrders DEF IInv, BookInv, WalkInv, TypeOK, Listed
<1>2. ins # NoWalk /\ ins.prev \in Links /\ ins.next \in Links
  BY <1>1, PhaseOfIns DEF Walks
<1>3. Slot(orders, head, DOMAIN orders \ {id}, rec.side, rec.price, ins.prev, ins.next)
  BY <1>1, <1>2 DEF WalkOK
<1>4. ins.next # 0 => Better(rec.side, rec.price, orders[ins.next].price)
  BY DEF WalkInOrder
<1>5. rec \in AnyRow /\ rec.side \in Sides /\ rec.price \in Nat
  BY DEF Row, AnyRow
<1>6. Served(LinkIn(orders, id, rec, ins.prev, ins.next))
        = Served(Rest(orders, id)) \cup Arrived(orders, id, rec.side, rec.price)
  <2>. PICK p \in Links, n \in Links : p = ins.prev /\ n = ins.next
    BY <1>2
  <2>. PICK row \in AnyRow : row = rec
    BY <1>5
  <2>1. Slot(orders, head, DOMAIN orders \ {id}, row.side, row.price, p, n)
    BY <1>3
  <2>2. n # 0 => Better(row.side, row.price, orders[n].price)
    BY <1>4
  <2>3. Rows(orders) /\ head \in [Sides -> Links] /\ InLists(orders, head, DOMAIN orders \ {id})
    BY <1>1
  <2>4. ArrivesBehind(orders, id, row, p, n)
    BY <2>1, <2>2, <2>3, LinkArrives
  <2>. QED
    BY <2>4 DEF ArrivesBehind
<1>. QED
  BY <1>2, <1>5, <1>6, ArriveIsArrived

\* A rung whose place was found is a new order, last at its price.
LEMMA PlaceRungKeepsPromise ==
  ASSUME IInv, IInv', Balanced, Balanced', PromInv, PlaceRung
  PROVE  Promised!Next
<1>. DEFINE k == tx.k
            r == tx.plan[tx.k].rung
            new == ForBook(r, tx.bps)
            row == [owner |-> tx.owner, side |-> tx.side, price |-> r.price,
                    remaining |-> new, expires |-> r.expires, prev |-> 0, next |-> 0]
            cursor == [after |-> tx.plan[tx.k].id, next |-> ins.next]
<1>1. /\ BookInv /\ TypeOK /\ TxOK /\ tx.op = "place" /\ tx \in PlaceTx /\ PlaceOK
      /\ WalkFor /\ InsOK /\ GatesHeld /\ WalkInOrder /\ ins.phase = "found"
  BY OpOfTx DEF IInv, BookInv, TxInv, WalkInv, PlaceRung, PromInv
<1>2. /\ orders' = LinkIn(orders, tx.plan[tx.k].id, row, ins.prev, ins.next)
      /\ tx' = [tx EXCEPT !.k = @ + 1, !.cursor = cursor, !.gross = @ + r.amount,
                          !.fees = @ + MakerFee(r.amount, tx.bps),
                          !.resting = @ + new]
      /\ UNCHANGED <<claims, config>>
  BY DEF PlaceRung
<1>3. ins # NoWalk /\ ins.side = tx.side /\ ins.price = r.price /\ tx.plan \in Seq(PlanRow)
      /\ k \in 1 .. Len(tx.plan)
  <2>1. ins # NoWalk
    BY <1>1, PhaseOfIns
  <2>2. tx.plan \in Seq(PlanRow) /\ tx.k <= Len(tx.plan)
    BY <1>1, <2>1 DEF PlaceTx, WalkFor
  <2>3. Len(tx.plan) \in Nat
    BY <2>2, LenProperties
  <2>. QED
    BY <1>1, <2>1, <2>2, <2>3 DEF WalkFor, PlaceOK
<1>4. tx.plan[k].id \in Ids /\ r \in InputRung
  <2>1. tx.plan[k] \in PlanRow
    BY <1>3, ElementOfSeq
  <2>. QED
    BY <2>1 DEF PlanRow
<1>. PICK id \in Ids : id = tx.plan[k].id
  BY <1>4
<1>5. tx.side \in Sides /\ tx.owner \in Owners /\ tx.bps \in FeeRates
      /\ r.price \in Nat \ {0} /\ r.amount \in Nat /\ r.expires \in Nat /\ 0 \in Links
  BY <1>1, <1>4, RowsOfOrders DEF PlaceTx, InputRung
<1>6. new \in Int /\ new > 0
  <2>1. MakerFee(r.amount, tx.bps) \in Int
    BY <1>5, FeesAreInt
  <2>2. \A j \in 1 .. Len(tx.plan) : ForBook(tx.plan[j].rung, tx.bps) > 0
    BY <1>1 DEF PlaceOK
  <2>3. new > 0
    BY <1>3, <2>2
  <2>4. new = r.amount - MakerFee(r.amount, tx.bps)
    BY DEF ForBook
  <2>. HIDE DEF new, r
  <2>. QED
    BY <1>5, <2>1, <2>3, <2>4
<1>7. id \notin DOMAIN orders /\ id \notin DOMAIN claims
  BY <1>1, <1>3 DEF PlaceOK, Used
<1>8. MayTrade(tx.owner) /\ (r.expires = 0 \/ r.expires > now)
  BY <1>1, <1>3 DEF GatesHeld
<1>9. tx'.op = "place"
  BY <1>1, <1>2 DEF PlaceTx
<1>. HIDE DEF new, r
<1>0. row \in Row
  BY <1>5, <1>6 DEF Row
<1>. PICK rec \in Row : rec = row
  BY <1>0
<1>10. /\ rec.owner = tx.owner /\ rec.side = tx.side /\ rec.price = r.price
       /\ rec.remaining = new /\ rec.expires = r.expires
  OBVIOUS
<1>. HIDE DEF row
<1>11. Booked = DOMAIN orders \ {id} /\ DOMAIN orders \ {id} = DOMAIN orders
  BY <1>1, <1>7 DEF Booked, InBook
<1>12. /\ ins.prev \in Links /\ ins.next \in Links
       /\ Served(LinkIn(orders, id, rec, ins.prev, ins.next))
            = Served(Rest(orders, id)) \cup Promised!Arrive(id, rec.side, rec.price)
  BY <1>1, <1>3, <1>10, <1>11, FoundArrives
<1>13. orders' = LinkIn(orders, id, rec, ins.prev, ins.next)
  BY <1>2
<1>14. Served(Rest(orders, id)) = Served(orders)
  <2>1. DOMAIN Rest(orders, id) = DOMAIN orders
        /\ \A i \in DOMAIN orders : Rest(orders, id)[i].next = orders[i].next
    BY <1>11 DEF Rest
  <2>. PICK cs : cs = Rest(orders, id)
    OBVIOUS
  <2>2. Served(cs) = Served(orders)
    BY <2>1, ServedByLinks
  <2>. QED
    BY <2>2
<1>15. Served(Settled)' = Served(Settled) \cup Promised!Arrive(id, rec.side, rec.price)
  <2>1. Settled = orders /\ Settled' = orders'
    BY <1>1, <1>9 DEF Settled
  <2>2. Served(Settled)' = Served(orders')
    BY <2>1 DEF Served
  <2>. QED
    BY <1>12, <1>13, <1>14, <2>1, <2>2
<1>16. /\ BesidesStand(id) /\ id \in DOMAIN orders'
       /\ orders'[id].side = rec.side /\ orders'[id].remaining = rec.remaining
  BY <1>1, <1>2, <1>12, <1>13, LinkBesides
<1>17. Standing'[id] = OnBook(rec) /\ id \in DOMAIN Standing' /\ id \notin DOMAIN Standing
  <2>1. orders'[id] = [rec EXCEPT !.prev = ins.prev, !.next = ins.next]
    BY <1>13 DEF LinkIn
  <2>2. OnBook(orders'[id]) = OnBook(rec)
    BY <2>1 DEF OnBook, Row
  <2>3. Standing'[id] = OnBook(orders'[id])
    BY <1>16 DEF Standing, OnBook
  <2>. QED
    BY <1>7, <1>16, <2>2, <2>3 DEF Standing
<1>18. Standing' = [i \in DOMAIN Standing \cup {id} |-> IF i = id THEN OnBook(rec) ELSE Standing[i]]
  BY <1>16, <1>17, StandingAfter
<1>19. Gains(id, rec.side, new)
  BY <1>2, <1>6, <1>7, <1>10, <1>16 DEF Gains, Amount, AmountIn
<1>20. Vault' = [Vault EXCEPT ![rec.side] = @ + new]
  <2>1. BesidesStand(id) /\ rec.side \in Sides
    BY <1>5, <1>10, <1>16
  <2>. QED
    BY <1>6, <1>19, <2>1, VaultAfter
<1>21. /\ OnBook(rec).owner = tx.owner /\ OnBook(rec).side = rec.side /\ OnBook(rec).amount = new
       /\ OnBook(rec).price = rec.price /\ OnBook(rec).expires = r.expires
       /\ ~OnBook(rec).parked
  BY <1>10 DEF OnBook
<1>22. Promised!May(OnBook(rec).owner) /\ ~Promised!Expired(OnBook(rec))
  <2>1. now \in Nat
    BY <1>1 DEF TypeOK
  <2>2. ~(r.expires # 0 /\ now >= r.expires)
    BY <1>5, <1>8, <2>1
  <2>. QED
    BY <1>8, <1>21, <2>2, GatesAreRules DEF Promised!Expired
<1>23. now' = now /\ blacklisted' = blacklisted /\ (~Writable)' = ~Writable
  BY <1>2 DEF config, Writable
<1>24. Promised!Place(id, OnBook(rec))
  BY <1>15, <1>17, <1>18, <1>20, <1>21, <1>22, <1>23 DEF Promised!Place, Promised!rules
<1>. QED
  BY <1>17, <1>24 DEF Promised!Next

-----------------------------------------------------------------------------
(* Price updates: nothing happens for others until the order is put back. *)

\* A detached order put back has all links as they were.
LEMMA DetachBack ==
  ASSUME NEW os, Rows(os), NEW hs, InLists(os, hs, DOMAIN os), NEW id \in DOMAIN os,
         NEW cs, cs = LinkIn(Detach(os, id), id, os[id], os[id].prev, os[id].next)
  PROVE  DOMAIN cs = DOMAIN os /\ \A i \in DOMAIN os : cs[i].next = os[i].next
<1>. PICK ds : ds = Detach(os, id)
  OBVIOUS
<1>. PICK p \in Links, n \in Links, rec \in AnyRow :
       p = os[id].prev /\ n = os[id].next /\ rec = os[id]
  BY DEF Rows, AnyRow
<1>1. /\ DOMAIN ds = DOMAIN os /\ Rows(ds) /\ id \in Ids
      /\ \A i \in DOMAIN os \ {id} : ds[i] = Bypass(os, id)[i]
  BY DetachRows DEF Rows
<1>2. DOMAIN LinkIn(ds, id, rec, p, n) = DOMAIN ds \cup {id}
  BY <1>1, LinkInRows
<1>3. PutBetween(LinkIn(ds, id, rec, p, n), ds, id, rec, p, n)
  BY <1>1, LinkInRows
<1>4. PutBetween(cs, ds, id, rec, p, n) /\ DOMAIN cs = DOMAIN os
  BY <1>1, <1>2, <1>3
<1>5. ASSUME NEW i \in DOMAIN os \ {id}
      PROVE  cs[i].next = os[i].next
  <2>1. cs[i].next = IF i = p THEN id ELSE ds[i].next
    BY <1>1, <1>4 DEF PutBetween
  <2>2. ds[i].next = IF i = p THEN n ELSE os[i].next
    BY <1>1, BypassRow
  <2>3. i = p => os[i].next = id
    <3>1. i # 0
      BY DEF Rows, Ids
    <3>. QED
      BY <3>1 DEF InLists, Linked
  <2>. QED
    BY <2>1, <2>2, <2>3
<1>6. cs[id].next = os[id].next
  BY <1>4 DEF PutBetween
<1>. QED
  BY <1>4, <1>5, <1>6

\* Rows that differ in links only stand for the same.
LEMMA SameStanding ==
  ASSUME IInv, IInv', Balanced, Balanced', UNCHANGED claims, DOMAIN orders' = DOMAIN orders,
         \A i \in DOMAIN orders : SameOrder(orders'[i], orders[i])
  PROVE  Standing' = Standing /\ Vault' = Vault
<1>1. BookInv /\ TypeOK /\ 1 \in Ids
  BY IdsFinite DEF IInv, BookInv
<1>2. BesidesStand(1)
  BY DEF BesidesStand
<1>3. Standing' = Standing
  BY DEF Standing, SameOrder, OnBook, InClaims
<1>4. Gains(1, "bid", 0)
  BY <1>1 DEF Gains, Amount, AmountIn, SameOrder, TypeOK, Row, ClaimRow
<1>5. Vault' = Vault
  <2>1. Vault' = [Vault EXCEPT !["bid"] = @ + 0]
    BY <1>1, <1>2, <1>4, VaultAfter DEF Sides
  <2>2. Vault["bid"] \in Int
    BY <1>1, UnbookedIsInt DEF IInv, TxInv, TypeOK, Vault, Sides
  <2>. QED
    BY <2>1, <2>2 DEF Vault
<1>. QED
  BY <1>3, <1>5

\* Detaching an order for its new price is not seen by anyone.
LEMMA UpdatePriceKeepsPromise ==
  ASSUME IInv, IInv', Balanced, Balanced', NEW id \in DOMAIN orders, NEW price, NEW hint,
         NEW max, UpdatePrice(id, price, hint, max)
  PROVE  UNCHANGED Promised!vars
<1>1. /\ TypeOK /\ Listed /\ tx = Idle /\ orders' = Detach(orders, id) /\ UNCHANGED <<claims, config>>
      /\ tx' = [op |-> "reprice", id |-> id, price |-> price, old |-> orders[id]]
  BY DEF IInv, BookInv, UpdatePrice
<1>2. Rows(orders) /\ InLists(orders, head, DOMAIN orders)
  BY <1>1, RowsOfOrders DEF Listed, Idle
<1>3. /\ DOMAIN orders' = DOMAIN orders
      /\ \A i \in DOMAIN orders : SameOrder(orders'[i], orders[i])
  BY <1>1, <1>2, DetachRows
<1>4. Settled = orders
      /\ Settled' = LinkIn(Detach(orders, id), id, orders[id], orders[id].prev, orders[id].next)
  BY <1>1 DEF Settled, Idle
<1>5. Served(Settled)' = Served(Settled)
  <2>. PICK os : os = orders
    OBVIOUS
  <2>. PICK cs : cs = LinkIn(Detach(os, id), id, os[id], os[id].prev, os[id].next)
    OBVIOUS
  <2>1. DOMAIN cs = DOMAIN os /\ \A i \in DOMAIN os : cs[i].next = os[i].next
    BY <1>2, DetachBack
  <2>2. Served(cs) = Served(os)
    BY <2>1, ServedByLinks
  <2>3. Settled' = cs /\ Settled = os
    BY <1>4
  <2>4. Served(Settled)' = Served(cs)
    BY <2>3 DEF Served
  <2>. QED
    BY <2>2, <2>3, <2>4
<1>6. Standing' = Standing /\ Vault' = Vault
  BY <1>1, <1>3, SameStanding
<1>7. now' = now /\ blacklisted' = blacklisted /\ (~Writable)' = ~Writable
  BY <1>1 DEF config, Writable
<1>. QED
  BY <1>5, <1>6, <1>7 DEF Promised!vars

\* An order on its way: where it was, and what it is.
LEMMA OnItsWay ==
  ASSUME IInv, tx.op = "reprice"
  PROVE  /\ tx \in RepriceTx /\ tx.id \in Ids /\ tx.id \in DOMAIN orders /\ tx.old \in Row
         /\ tx.price \in Nat \ {0} /\ orders[tx.id] \in Row /\ SameOrder(orders[tx.id], tx.old)
         /\ Rows(orders) /\ head \in [Sides -> Links] /\ Booked = DOMAIN orders \ {tx.id}
         /\ InLists(orders, head, DOMAIN orders \ {tx.id})
         /\ tx.old \in AnyRow /\ tx.old.prev \in Links /\ tx.old.next \in Links
         /\ Slot(orders, head, Booked, tx.old.side, tx.old.price, tx.old.prev, tx.old.next)
<1>1. TypeOK /\ TxOK /\ Listed /\ RepriceOK /\ tx \in RepriceTx
  BY OpOfTx DEF IInv, BookInv, TxInv
<1>2. Booked = DOMAIN orders \ {tx.id} /\ Rows(orders) /\ head \in [Sides -> Links]
  BY <1>1, RowsOfOrders DEF Booked, InBook, TypeOK
<1>3. tx.id \in Ids /\ tx.old \in Row /\ tx.price \in Nat \ {0}
  BY <1>1 DEF RepriceTx
<1>4. tx.old \in AnyRow /\ tx.old.prev \in Links /\ tx.old.next \in Links
  BY <1>3 DEF Row, AnyRow
<1>. QED
  BY <1>1, <1>2, <1>3, <1>4 DEF RepriceOK, TypeOK, Listed

\* Putting it back after a failed walk is not seen either.
LEMMA RevertKeepsPromise ==
  ASSUME IInv, IInv', Balanced, Balanced', RevertUpdatePrice
  PROVE  UNCHANGED Promised!vars
<1>1. tx.op = "reprice" /\ tx' = Idle /\ UNCHANGED <<claims, config>>
      /\ orders' = LinkIn(orders, tx.id, tx.old, tx.old.prev, tx.old.next)
  BY DEF RevertUpdatePrice
<1>2. orders' = Settled /\ Settled' = orders'
  BY <1>1 DEF Settled, Idle
<1>3. DOMAIN Settled = DOMAIN orders /\ \A i \in DOMAIN orders : SameOrder(Settled[i], orders[i])
  BY SettledLists
<1>4. Served(Settled)' = Served(Settled)
  BY <1>2 DEF Served
<1>5. Standing' = Standing /\ Vault' = Vault
  BY <1>1, <1>2, <1>3, SameStanding
<1>6. now' = now /\ blacklisted' = blacklisted /\ (~Writable)' = ~Writable
  BY <1>1 DEF config, Writable
<1>. QED
  BY <1>4, <1>5, <1>6 DEF Promised!vars

\* Linked in at its new price, the order has arrived there last.
LEMMA RelinkKeepsPromise ==
  ASSUME IInv, IInv', Balanced, Balanced', PromInv, Relink
  PROVE  Promised!Next
<1>1. tx.op = "reprice" /\ ins.phase = "found" /\ tx' = Idle /\ UNCHANGED <<claims, config>>
      /\ orders' = LinkIn(orders, tx.id, [tx.old EXCEPT !.price = tx.price], ins.prev, ins.next)
  BY DEF Relink
<1>2. /\ tx \in RepriceTx /\ tx.id \in Ids /\ tx.id \in DOMAIN orders /\ tx.old \in Row
      /\ tx.price \in Nat \ {0} /\ orders[tx.id] \in Row /\ SameOrder(orders[tx.id], tx.old)
      /\ Rows(orders) /\ head \in [Sides -> Links] /\ Booked = DOMAIN orders \ {tx.id}
      /\ InLists(orders, head, DOMAIN orders \ {tx.id})
      /\ tx.old \in AnyRow /\ tx.old.prev \in Links /\ tx.old.next \in Links
      /\ Slot(orders, head, Booked, tx.old.side, tx.old.price, tx.old.prev, tx.old.next)
  BY <1>1, OnItsWay
<1>. PICK id \in Ids : id = tx.id
  BY <1>2
<1>0. id \in DOMAIN orders /\ orders[id] \in Row /\ id \notin DOMAIN claims
  BY <1>2 DEF IInv, BookInv, NeverInBothPlaces
<1>3. [tx.old EXCEPT !.price = tx.price] \in Row
  BY <1>2 DEF Row
<1>. PICK rec \in Row : rec = [tx.old EXCEPT !.price = tx.price]
  BY <1>3
<1>4. /\ rec.owner = orders[id].owner /\ rec.side = orders[id].side /\ rec.price = tx.price
      /\ rec.remaining = orders[id].remaining /\ rec.expires = orders[id].expires
      /\ rec.side = tx.old.side
  BY <1>2 DEF SameOrder, Row
<1>5. ins.side = rec.side /\ ins.price = rec.price
  BY <1>1, <1>4 DEF IInv, WalkInv, WalkFor
<1>6. orders' = LinkIn(orders, id, rec, ins.prev, ins.next)
  BY <1>1
<1>7. /\ ins.prev \in Links /\ ins.next \in Links
      /\ Served(LinkIn(orders, id, rec, ins.prev, ins.next))
           = Served(Rest(orders, id)) \cup Promised!Arrive(id, rec.side, rec.price)
  <2>1. Booked = DOMAIN orders \ {id} /\ WalkInOrder
    BY <1>2 DEF PromInv
  <2>. QED
    BY <1>1, <1>5, <2>1, FoundArrives
<1>8. Served(Rest(orders, id)) = Promised!Others(id)
  <2>. PICK old \in AnyRow, p \in Links, n \in Links :
         old = tx.old /\ p = tx.old.prev /\ n = tx.old.next
    BY <1>2
  <2>1. Slot(orders, head, DOMAIN orders \ {id}, old.side, old.price, p, n)
    BY <1>2
  <2>2. \A e : e \in Besides(Served(LinkIn(orders, id, old, p, n)), id) <=> e \in Served(Rest(orders, id))
    BY <1>2, <2>1, LinkServes
  <2>3. Settled = LinkIn(orders, id, old, p, n)
    BY <1>1 DEF Settled
  <2>4. Besides(Served(Settled), id) = Served(Rest(orders, id))
    BY <2>2, <2>3
  <2>. QED
    BY <2>4 DEF Besides, Promised!Others
<1>9. Served(Settled)' = Promised!Others(id) \cup Promised!Arrive(id, rec.side, rec.price)
  <2>1. Settled' = orders'
    BY <1>1 DEF Settled, Idle
  <2>2. Served(Settled)' = Served(orders')
    BY <2>1 DEF Served
  <2>. QED
    BY <1>6, <1>7, <1>8, <2>2
<1>10. /\ BesidesStand(id) /\ id \in DOMAIN orders'
       /\ orders'[id].side = rec.side /\ orders'[id].remaining = rec.remaining
  <2>1. TypeOK /\ UNCHANGED claims
    BY <1>1 DEF IInv, BookInv
  <2>. QED
    BY <1>6, <1>7, <2>1, LinkBesides
<1>11. Standing'[id] = OnBook(rec) /\ id \in DOMAIN Standing'
  <2>1. orders'[id] = [rec EXCEPT !.prev = ins.prev, !.next = ins.next]
    BY <1>6 DEF LinkIn
  <2>2. OnBook(orders'[id]) = OnBook(rec)
    BY <2>1 DEF OnBook, Row
  <2>3. Standing'[id] = OnBook(orders'[id])
    BY <1>10 DEF Standing, OnBook
  <2>. QED
    BY <1>10, <2>2, <2>3 DEF Standing
<1>12. id \in DOMAIN Standing /\ Standing[id] = OnBook(orders[id]) /\ ~Standing[id].parked
  BY <1>2, StandingRows DEF Used
<1>13. Standing' = [Standing EXCEPT ![id].price = rec.price]
  <2>1. Standing' = [Standing EXCEPT ![id] = Standing'[id]]
    BY <1>10, <1>11, <1>12, StandingAfter
  <2>2. [OnBook(orders[id]) EXCEPT !.price = rec.price] = OnBook(rec)
    BY <1>0, <1>4, RepricedRow
  <2>. QED
    BY <1>11, <1>12, <2>1, <2>2
<1>14. Vault' = Vault
  <2>1. orders[id].side \in Sides /\ orders[id].remaining \in Int
    BY <1>2 DEF Row
  <2>2. Gains(id, "bid", 0)
    BY <1>0, <1>1, <1>4, <1>10, <2>1 DEF Gains, Amount, AmountIn
  <2>3. Vault' = [Vault EXCEPT !["bid"] = @ + 0]
    BY <1>10, <2>2, VaultAfter DEF Sides
  <2>4. Vault["bid"] \in Int
    BY UnbookedIsInt DEF IInv, BookInv, TxInv, TypeOK, Vault, Sides
  <2>. QED
    BY <2>3, <2>4 DEF Vault
<1>15. /\ Standing[id].owner = orders[id].owner /\ Standing[id].side = rec.side
       /\ Standing[id].price = orders[id].price /\ Standing[id].expires = orders[id].expires
       /\ Standing'[id].price = rec.price
  <2>1. /\ OnBook(orders[id]).owner = orders[id].owner /\ OnBook(orders[id]).side = orders[id].side
        /\ OnBook(orders[id]).price = orders[id].price
        /\ OnBook(orders[id]).expires = orders[id].expires /\ OnBook(rec).price = rec.price
    BY DEF OnBook
  <2>. QED
    BY <1>4, <1>11, <1>12, <2>1
<1>16. MayTrade(orders[id].owner) /\ ~Expired(orders[id]) /\ rec.price # orders[id].price
  <2>1. MayTrade(tx.old.owner) /\ ~Expired(tx.old) /\ tx.price # tx.old.price
    BY <1>1 DEF PromInv, GatesHeld
  <2>. QED
    BY <1>2, <1>4, <2>1 DEF SameOrder, Expired
<1>17. Promised!May(Standing[id].owner) /\ ~Promised!Expired(Standing[id])
  BY <1>15, <1>16, GatesAreRules DEF Promised!Expired, Expired
<1>18. now' = now /\ blacklisted' = blacklisted /\ (~Writable)' = ~Writable
  BY <1>1 DEF config, Writable
<1>19. Promised!Reprice(id, Standing'[id].price)
  BY <1>9, <1>12, <1>13, <1>14, <1>15, <1>16, <1>17, <1>18 DEF Promised!Reprice,
     Promised!Resting, Promised!rules
<1>. QED
  BY <1>11, <1>12, <1>19 DEF Promised!Next

-----------------------------------------------------------------------------
(* Every step, the first state, and the theorem. *)
\* Every step is a promised one, or invisible.
LEMMA StepKeepsPromise ==
  ASSUME IInv, IInv', Balanced, Balanced', PromInv, [Next]_vars
  PROVE  Promised!Next \/ UNCHANGED Promised!vars
<1>0. TxOK
  BY DEF IInv, TxInv
<1>1. CASE Place
  <2>1. tx.op # "reprice" /\ tx'.op # "reprice" /\ UNCHANGED <<orders, claims, config>>
    BY <1>1 DEF Place, PlaceBatch, Idle, book
  <2>. QED
    BY <2>1, QuietKeepsPromise
<1>2. CASE Reprice
  <2>1. PICK id \in DOMAIN orders, p \in RepricePrices, h \in Hints, m \in StepCaps :
          UpdatePrice(id, p, h, m)
    BY <1>2 DEF Reprice
  <2>. QED
    BY <2>1, UpdatePriceKeepsPromise
<1>3. CASE Exit \/ Clean \/ Match
  <2>1. tx.op # "reprice" /\ tx'.op # "reprice" /\ UNCHANGED <<orders, claims, config>>
    BY <1>3 DEF Exit, Cancel, Claim, Withdraw, Clean, CleanBook, Match, MatchBook, Idle, book
  <2>. QED
    BY <2>1, QuietKeepsPromise
<1>4. CASE Probe \/ WalkForward \/ WalkBack
  <2>1. UNCHANGED <<orders, claims, config, tx>>
    BY <1>4 DEF Probe, WalkForward, WalkBack, book
  <2>. QED
    BY <2>1, QuietKeepsPromise
<1>5. CASE SkipRung
  <2>1. tx.op = "place" /\ tx \in PlaceTx /\ UNCHANGED <<orders, claims, config>>
    BY <1>0, <1>5, OpOfTx DEF SkipRung, book
  <2>2. tx'.op = "place"
    BY <1>5, <2>1 DEF SkipRung, PlaceTx
  <2>. QED
    BY <2>1, <2>2, QuietKeepsPromise
<1>6. CASE FinishPlace \/ FinishWithdraw \/ FinishClean \/ FinishMatch
  <2>1. tx.op # "reprice" /\ tx'.op # "reprice" /\ UNCHANGED <<orders, claims, config>>
    BY <1>6 DEF FinishPlace, FinishWithdraw, FinishClean, FinishMatch, Idle, book
  <2>. QED
    BY <2>1, QuietKeepsPromise
<1>7. CASE MatchPass
  <2>1. tx.op = "match" /\ tx'.op = "match" /\ UNCHANGED <<orders, claims, config>>
    BY <1>7, MatchRuns DEF MatchPass, book
  <2>. QED
    BY <2>1, QuietKeepsPromise
<1>8. CASE Environment
  BY <1>8, EnvironmentKeepsPromise
<1>9. CASE UNCHANGED vars
  BY <1>9, QuietKeepsPromise DEF vars, config
<1>. QED
  BY <1>1, <1>2, <1>3, <1>4, <1>5, <1>6, <1>7, <1>8, <1>9, PlaceRungKeepsPromise,
     RelinkKeepsPromise, RevertKeepsPromise, CancelKeepsPromise, ClaimKeepsPromise,
     CleanVisitKeepsPromise, MatchDeadKeepsPromise, FillKeepsPromise
     DEF Next, Message, TxStep

\* The promise sums as the book does.
LEMMA SameSum ==
  ASSUME NEW f, NEW S
  PROVE  Promised!SumFunctionOnSet(f, S) = SumFunctionOnSet(f, S)
<1>1. Promised!SumFunctionOnSet(f, S) = PartialSums(f, S)[S]
  BY DEF Promised!SumFunctionOnSet, Promised!FoldFunctionOnSet, Promised!MapThenFoldSet,
     PartialSums, IsSum, Pick
<1>. QED
  BY <1>1, SumIsPartial

\* The vault is the sum of what stands.
LEMMA VaultIsFull ==
  ASSUME IInv, Balanced, NEW s \in Sides
  PROVE  Vault[s] = Promised!SumFunctionOnSet([i \in DOMAIN Standing |-> Standing[i].amount],
                                              Promised!AllOf(s))
<1>. DEFINE f == [i \in DOMAIN Standing |-> Standing[i].amount]
            l == LedgerOf(orders, claims, s)
            A == Promised!AllOf(s)
            R == Ids \ A
<1>1. Accounts(orders, claims) /\ DOMAIN Standing = Used /\ Used \subseteq Ids
  BY AccountsOfBook, StandingRows DEF IInv, BookInv, TypeOK, Used
<1>2. ASSUME NEW i \in DOMAIN Standing
      PROVE  l[i] = IF i \in A THEN f[i] ELSE 0
  <2>1. i \in A <=> Standing[i].side = s
    BY DEF Promised!AllOf
  <2>2. l[i] = AmountIn(orders, claims, s, i)
    BY <1>1 DEF LedgerOf
  <2>3. f[i] = Standing[i].amount
    OBVIOUS
  <2>. HIDE DEF f, l, A
  <2>4. CASE i \in DOMAIN orders
    <3>1. Standing[i] = OnBook(orders[i]) /\ i \notin DOMAIN claims
      BY <2>4, StandingRows DEF IInv, BookInv, NeverInBothPlaces
    <3>2. Standing[i].side = orders[i].side /\ Standing[i].amount = orders[i].remaining
      BY <3>1 DEF OnBook
    <3>. QED
      BY <2>1, <2>2, <2>3, <2>4, <3>1, <3>2 DEF AmountIn
  <2>5. CASE i \notin DOMAIN orders
    <3>1. i \in DOMAIN claims
      BY <1>1, <2>5 DEF Used
    <3>2. Standing[i] = InClaims(claims[i])
      BY <3>1, StandingRows
    <3>3. Standing[i].side = claims[i].side /\ Standing[i].amount = claims[i].remaining
      BY <3>2 DEF InClaims
    <3>. QED
      BY <2>1, <2>2, <2>3, <2>5, <3>1, <3>3 DEF AmountIn
  <2>. QED
    BY <2>4, <2>5
<1>3. A \subseteq DOMAIN Standing /\ A \cap R = {} /\ Ids = A \cup R
  BY <1>1 DEF Promised!AllOf
<1>4. \A i \in R : l[i] = 0
  <2>1. \A i \in Ids \ Used : l[i] = 0
    BY DEF LedgerOf, AmountIn, Used
  <2>. HIDE DEF l, A
  <2>. QED
    BY <1>1, <1>2, <2>1
<1>5. \A i \in A : l[i] = f[i]
  <2>. HIDE DEF l, A, f
  <2>. QED
    BY <1>2, <1>3
<1>6. \A i \in Ids : l[i] \in Int
  BY <1>1, LedgerIsInt
<1>7. Vault[s] = SumFunctionOnSet(l, Ids)
  BY <1>1, VaultIsOwed, OwedIsLedger DEF OwedTo
<1>. HIDE DEF f, l, A, R
<1>8. IsFiniteSet(A) /\ IsFiniteSet(R)
  BY <1>3, IdsFinite, FS_Subset
<1>9. SumFunctionOnSet(l, A \cup R) = SumFunctionOnSet(l, A) + SumFunctionOnSet(l, R)
  BY <1>3, <1>6, <1>8, SumOfBoth
<1>10. SumFunctionOnSet(l, R) = 0 /\ SumFunctionOnSet(l, A) = SumFunctionOnSet(f, A)
  BY <1>4, <1>5, <1>8, SumOfZeros, SumOfEqual
<1>11. SumFunctionOnSet(l, A) \in Int
  BY <1>3, <1>6, <1>8, SumIsInt
<1>12. Vault[s] = SumFunctionOnSet(f, A)
  BY <1>3, <1>7, <1>9, <1>10, <1>11
<1>. QED
  BY <1>12, SameSum DEF f, A

\* The invariants say that the promised state is sound.
LEMMA BookIsSound ==
  ASSUME IInv, Balanced
  PROVE  Promised!Sound
<1>. PICK os : os = Settled
  OBVIOUS
<1>1. /\ DOMAIN os = DOMAIN orders /\ Rows(os)
      /\ \A i \in DOMAIN orders : SameOrder(os[i], orders[i])
      /\ \E hs : InLists(os, hs, DOMAIN os)
  BY SettledLists
<1>2. Ordered(os)
  BY <1>1, ServedInOrder
<1>3. ASSUME NEW i \in DOMAIN orders
      PROVE  /\ i \in DOMAIN Standing /\ Promised!Resting(i)
             /\ Standing[i].side = os[i].side /\ Standing[i].price = os[i].price
             /\ os[i].price \in Nat
  <2>1. i \in DOMAIN Standing /\ Standing[i] = OnBook(orders[i]) /\ ~Standing[i].parked
    BY StandingRows DEF Used
  <2>2. Standing[i].side = orders[i].side /\ Standing[i].price = orders[i].price
    BY <2>1 DEF OnBook
  <2>3. os[i].side = orders[i].side /\ os[i].price = orders[i].price /\ os[i].price \in Nat
    BY <1>1 DEF SameOrder, Rows, AnyRow
  <2>. QED
    BY <2>1, <2>2, <2>3 DEF Promised!Resting
<1>4. \A i : Promised!Resting(i) => i \in DOMAIN orders
  <2>1. \A i \in DOMAIN claims : Standing[i].parked
    BY StandingRows
  <2>. QED
    BY <2>1 DEF Promised!Resting, Standing
<1>5. \A e \in Served(os) : /\ Promised!Resting(e[1]) /\ Promised!Resting(e[2])
                           /\ Standing[e[1]].side = Standing[e[2]].side
  <2>. TAKE e \in Served(os)
  <2>1. e[1] \in DOMAIN os /\ e[2] \in DOMAIN os /\ os[e[1]].side = os[e[2]].side
    BY <1>2 DEF Ordered
  <2>. QED
    BY <1>1, <1>3, <2>1
<1>6. ASSUME NEW s \in Sides
      PROVE  LET here == {i \in Promised!AllOf(s) : Promised!Resting(i)} IN
             /\ \A i, j \in here : <<i, j>> \in Served(os) <=> i # j /\ <<j, i>> \notin Served(os)
             /\ \A i, j, k \in here : <<i, j>> \in Served(os) /\ <<j, k>> \in Served(os)
                                        => <<i, k>> \in Served(os)
             /\ \A i, j \in here : <<i, j>> \in Served(os)
                  => ~Promised!Worse(s, Standing[i].price, Standing[j].price)
  <2>. DEFINE here == {i \in Promised!AllOf(s) : Promised!Resting(i)}
  <2>1. \A i \in here : i \in DOMAIN os /\ os[i].side = s
    BY <1>1, <1>3, <1>4 DEF Promised!AllOf
  <2>. HIDE DEF here
  <2>2. \A i, j \in here : <<i, j>> \in Served(os) <=> i # j /\ <<j, i>> \notin Served(os)
    BY <1>2, <2>1 DEF Ordered
  <2>3. \A i, j, k \in here : <<i, j>> \in Served(os) /\ <<j, k>> \in Served(os)
                               => <<i, k>> \in Served(os)
    BY <1>2, <2>1 DEF Ordered
  <2>4. ASSUME NEW i \in here, NEW j \in here, <<i, j>> \in Served(os)
        PROVE  ~Promised!Worse(s, Standing[i].price, Standing[j].price)
    <3>1. <<i, j>>[1] = i /\ <<i, j>>[2] = j
      OBVIOUS
    <3>2. \A e \in Served(os) : ~Better(os[e[1]].side, os[e[2]].price, os[e[1]].price)
      BY <1>2 DEF Ordered
    <3>3. ~Better(s, os[j].price, os[i].price)
      BY <2>1, <2>4, <3>1, <3>2
    <3>4. /\ Standing[i].price = os[i].price /\ Standing[j].price = os[j].price
          /\ os[i].price \in Nat /\ os[j].price \in Nat
      BY <1>1, <1>3, <2>1
    <3>. QED
      BY <3>3, <3>4 DEF Better, Promised!Worse
  <2>. QED
    BY <2>2, <2>3, <2>4 DEF here
<1>7. \A s \in Sides : Vault[s] = Promised!SumFunctionOnSet(
          [i \in DOMAIN Standing |-> Standing[i].amount], Promised!AllOf(s))
  BY VaultIsFull
<1>8. Promised!Sides = Sides
  BY DEF Promised!Sides, Sides
<1>. QED
  BY <1>5, <1>6, <1>7, <1>8 DEF Promised!Sound

\* The first state is one the promise begins with.
LEMMA PromiseBegins ==
  ASSUME Init
  PROVE  Promised!Init
<1>1. IInv /\ Balanced
  BY InitIInv, InitBalanced
<1>2. Promised!Sound
  BY <1>1, BookIsSound
<1>3. now = 0 /\ blacklisted = {} /\ (~Writable) = FALSE
  BY DEF Init, Writable
<1>. QED
  BY <1>2, <1>3 DEF Promised!Init

\* In every state each side is served in one order by price, and the vault holds
\* exactly what the orders add up to.
THEOREM AlwaysSound == Spec => []Promised!Sound
<1>1. Init => Balanced
  BY InitIInv, InitBalanced
<1>2. IInv /\ IInv' /\ Balanced /\ [Next]_vars => Balanced'
  BY NextBalanced
<1>3. IInv /\ Balanced => Promised!Sound
  BY BookIsSound
<1>. QED
  BY AlwaysIInv, <1>1, <1>2, <1>3, PTL DEF Spec

\* Whatever the hints, the step limits and the batches, each step of the contract
\* is one operation of the price-time book or none: an order that is placed or
\* repriced comes behind all whose price is not worse, nobody overtakes anybody, a
\* fill takes from live orders of unlisted owners only, a row is paid out once.
THEOREM BookKeepsPromises == Spec => KeepsPromises
<1>1. Init => Balanced /\ PromInv /\ Promised!Init
  BY InitIInv, InitBalanced, InitProm, PromiseBegins
<1>2. IInv /\ IInv' /\ Balanced /\ [Next]_vars => Balanced'
  BY NextBalanced
<1>3. IInv /\ IInv' /\ PromInv /\ [Next]_vars => PromInv'
  BY NextProm
<1>4. IInv /\ IInv' /\ Balanced /\ Balanced' /\ PromInv /\ [Next]_vars
        => [Promised!Next]_(Promised!vars)
  BY StepKeepsPromise
<1>. QED
  BY AlwaysIInv, <1>1, <1>2, <1>3, <1>4, PTL DEF Spec, KeepsPromises, Promised!Spec
=============================================================================
