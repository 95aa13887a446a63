-------------------------- MODULE BlockIngestProofs --------------------------
(***************************************************************************)
(* What BlockIngest promises for every chain, set of pollers and number of *)
(* faults.  The inductive invariant says, besides types and ranges, what a *)
(* poller in the middle of a block has already stored, that one poller     *)
(* runs at a time, and at the checkpoint, while no lock session was lost,  *)
(* so that a pair enters the database ahead of every block it counts for,  *)
(* and what each projection still owes the swap at hand.                   *)
(***************************************************************************)
EXTENDS BlockIngest, FiniteSetTheorems, TLAPS

AtBlock == {"compare", "marker", "hash", "txs"} \cup Writing
AtEvent == {"insert", "fee", "candle", "trade", "position"}

TxsOf(r) == Block[r.last + 1][r.branch]

\* Where a poller is within the chain and within its block.
Ranged(r) ==
  /\ r.pc \in AtBlock => r.last < Tip
  /\ r.pc \in AtEvent => r.done < Len(TxsOf(r))
  /\ r.pc = "next" => r.done <= Len(TxsOf(r))
  /\ r.pc \in {"commit", "clear"} => r.done = Len(TxsOf(r))

Shape == TypeOK /\ \A p \in Pollers : Ranged(poller[p])

\* The transactions a poller reads are events of the block it is at.
LEMMA TxsTyped ==
  ASSUME Shape, NEW p \in Pollers, poller[p].pc \in Writing
  PROVE  /\ Txs(p) \in Seq(Events)
         /\ Txs(p) = TxsOf(poller[p])
         /\ Height(p) \in 1..Tip
         /\ \A i \in 1..Len(Txs(p)) : Txs(p)[i] \in Events
         /\ Len(Txs(p)) \in Nat
<1>1. poller[p].pc \in AtBlock /\ poller[p].last < Tip /\ poller[p] \in Poller
  BY DEF Shape, Ranged, AtBlock, TypeOK
<1>2. Height(p) \in 1..Tip /\ poller[p].branch \in 0..MaxBranch
  BY <1>1, BlockAssumption DEF Height, Poller
<1>3. Txs(p) \in Seq(Events)
  BY <1>2, BlockAssumption DEF Txs
<1>4. \A s \in Seq(Events) : Len(s) \in Nat /\ \A i \in 1..Len(s) : s[i] \in Events
  OBVIOUS
<1>5. Txs(p) = TxsOf(poller[p])
  BY DEF Txs, TxsOf, Height
<1> QED BY <1>2, <1>3, <1>4, <1>5

LEMMA EventTyped ==
  ASSUME Shape, NEW p \in Pollers, poller[p].pc \in AtEvent
  PROVE  /\ Event(p) \in Events
         /\ poller[p].done + 1 \in 1..Len(Txs(p))
<1>1. poller[p].pc \in Writing BY DEF AtEvent, Writing
<1>2. poller[p].done < Len(Txs(p)) /\ poller[p] \in Poller
  BY <1>1, TxsTyped DEF Shape, Ranged, TypeOK
<1>3. poller[p].done + 1 \in 1..Len(Txs(p))
  BY <1>1, <1>2, TxsTyped DEF Poller
<1> QED BY <1>1, <1>3, TxsTyped DEF Event

\* Going on to the next event of the block.
LEMMA DoneRanged ==
  ASSUME Shape, NEW p \in Pollers, poller[p].pc \in AtEvent \cup {"next"},
         poller[p].done < Len(Txs(p))
  PROVE  Done(p) \in Poller /\ Ranged(Done(p))
<1> DEFINE r == poller[p]
           d == Done(p)
<1>1. r \in Poller /\ Ranged(r) BY DEF Shape, TypeOK
<1>2. r.done + 1 \in Nat BY <1>1 DEF Poller
<1>3. d \in Poller BY <1>1, <1>2 DEF Poller, Phases, Writing, Done
<1>4. r.pc \in Writing BY DEF AtEvent, Writing
<1>5. Txs(p) = TxsOf(r) /\ Len(Txs(p)) \in Nat BY <1>4, TxsTyped
<1>6. TxsOf(d) = TxsOf(r) BY <1>1 DEF TxsOf, Done, Poller
<1>7. r.done + 1 <= Len(Txs(p)) BY <1>1, <1>5 DEF Poller
<1>8. r.last < Tip BY <1>1, <1>4 DEF Ranged, AtBlock
<1>9. Ranged(d)
  <2>1. d.pc = "next" /\ d.last = r.last /\ d.done = r.done + 1
    BY <1>1 DEF Done, Poller
  <2> HIDE DEF d
  <2> QED BY <2>1, <1>5, <1>6, <1>7, <1>8 DEF Ranged, AtEvent
<1> QED BY <1>3, <1>9

\* A step that gives one poller a new record, and nothing else of the shape.
LEMMA Put ==
  ASSUME Shape, NEW p \in Pollers, NEW r \in Poller, Ranged(r), Become(p, r)
  PROVE  /\ poller' \in [Pollers -> Poller]
         /\ \A q \in Pollers : Ranged(poller'[q])
         /\ poller'[p] = r
         /\ \A q \in Pollers \ {p} : poller'[q] = poller[q]
BY DEF Shape, TypeOK, Become

\* A record outside the block has no range to keep.
LEMMA Outside ==
  ASSUME NEW r, r.pc \notin AtBlock
  PROVE  Ranged(r)
BY DEF Ranged, AtBlock, AtEvent, Writing

\* A phase outside the block, the rest of the record as it was.
LEMMA PutPhase ==
  ASSUME Shape, NEW p \in Pollers, NEW pc \in Phases \ AtBlock, Goto(p, pc)
  PROVE  /\ [poller[p] EXCEPT !.pc = pc] \in Poller
         /\ Ranged([poller[p] EXCEPT !.pc = pc])
         /\ Become(p, [poller[p] EXCEPT !.pc = pc])
<1>1. poller[p] \in Poller BY DEF Shape, TypeOK
<1>2. [poller[p] EXCEPT !.pc = pc] \in Poller BY <1>1 DEF Poller
<1>3. [poller[p] EXCEPT !.pc = pc].pc = pc BY <1>1 DEF Poller
<1> QED BY <1>2, <1>3, Outside DEF Goto, Become, Shape, TypeOK

\* From one write of an event to the next.
LEMMA PutWrite ==
  ASSUME Shape, NEW p \in Pollers, poller[p].pc \in AtEvent, NEW pc \in AtEvent,
         Goto(p, pc)
  PROVE  /\ [poller[p] EXCEPT !.pc = pc] \in Poller
         /\ Ranged([poller[p] EXCEPT !.pc = pc])
         /\ Become(p, [poller[p] EXCEPT !.pc = pc])
<1> DEFINE r == [poller[p] EXCEPT !.pc = pc]
<1>1. poller[p] \in Poller /\ Ranged(poller[p]) BY DEF Shape, TypeOK
<1>2. r \in Poller BY <1>1 DEF Poller, Phases, Writing, AtEvent
<1>3. r.pc = pc /\ r.last = poller[p].last /\ r.done = poller[p].done
      /\ r.branch = poller[p].branch
  BY <1>1 DEF Poller
<1>4. TxsOf(r) = TxsOf(poller[p]) BY <1>3 DEF TxsOf
<1>5. poller[p].last < Tip /\ poller[p].done < Len(TxsOf(poller[p]))
  BY <1>1 DEF Ranged, AtBlock, AtEvent, Writing
<1>6. Ranged(r)
  <2> HIDE DEF r
  <2> QED BY <1>3, <1>4, <1>5 DEF Ranged, AtEvent
<1> QED BY <1>2, <1>6 DEF Goto, Become, Shape, TypeOK

Moves(p) == \E r \in Poller : Ranged(r) /\ Become(p, r)

-----------------------------------------------------------------------------
LEMMA ShapeInit == Init => Shape
<1> SUFFICES ASSUME Init PROVE Shape OBVIOUS
<1>1. Waiting \in Poller
  BY BlockAssumption DEF Waiting, Poller, Phases
<1>2. chain \in [1..Tip -> 0..MaxBranch] BY BlockAssumption DEF Init
<1>3. cursor \in [height : 0..Tip, hash : 0..MaxBranch]
  BY BlockAssumption DEF Init
<1>4. failed \in [1..Tip -> {"none", "generic", "unsafe"}] BY DEF Init
<1>5. poller \in [Pollers -> Poller] BY <1>1 DEF Init
<1>s. since \in [Pairs -> 0..Never] BY BlockAssumption DEF Init, Never
<1>6. TypeOK
  BY <1>2, <1>3, <1>4, <1>5, <1>s DEF Init, TypeOK
<1>7. \A p \in Pollers : Ranged(poller[p])
  BY DEF Init, Ranged, Waiting, AtBlock, AtEvent, Writing
<1> QED BY <1>6, <1>7 DEF Shape

\* Every step of a poller leaves it in range.
LEMMA RepairMoves ==
  ASSUME Shape, NEW p \in Pollers, AcquireLock(p) \/ Repair(p)
  PROVE  Moves(p)
<1> USE DEF Phases, Healing, Following, Writing, AtBlock, Reads, Moves
<1>t. poller[p] \in Poller BY DEF Shape, TypeOK
<1>1. CASE AcquireLock(p) BY <1>1, PutPhase DEF AcquireLock
<1>s. CASE SyncPairs(p) BY <1>s, PutPhase DEF SyncPairs
<1>2. CASE BackfillFees(p) BY <1>2, PutPhase DEF BackfillFees
<1>3. CASE HealTraders(p) BY <1>3, PutPhase DEF HealTraders
<1>4. CASE CheckPositions(p)
  <2>1. Goto(p, "load") \/ Goto(p, "snapshot") BY <1>4 DEF CheckPositions
  <2> QED BY <2>1, PutPhase
<1>5. CASE SnapshotSwaps(p)
  <2> DEFINE r == [poller[p] EXCEPT !.pc = "replay", !.left = Cardinality(Indexed)]
  <2>1. Cardinality(Indexed) \in Nat
    <3>1. IsFiniteSet(Indexed) BY BlockAssumption, FS_Subset DEF Indexed
    <3> QED BY <3>1, FS_CardinalityType
  <2>2. r \in Poller /\ r.pc = "replay" BY <2>1, <1>t DEF Poller
  <2>3. Become(p, r) BY <1>5 DEF SnapshotSwaps
  <2> HIDE DEF r
  <2> QED BY <2>2, <2>3, Outside
<1>6. CASE ReplaySwap(p)
  <2>1. CASE poller[p].left = 0 BY <2>1, <1>6, PutPhase DEF ReplaySwap
  <2>2. CASE poller[p].left # 0
    <3> DEFINE r == [poller[p] EXCEPT !.left = @ - 1]
    <3>1. poller[p].left - 1 \in Nat BY <2>2, <1>t DEF Poller
    <3>2. r \in Poller /\ r.pc = "replay"
      BY <3>1, <1>t, <1>6 DEF Poller, ReplaySwap, At
    <3>3. Become(p, r) BY <2>2, <1>6 DEF ReplaySwap
    <3> HIDE DEF r
    <3> QED BY <3>2, <3>3, Outside
  <2> QED BY <2>1, <2>2
<1>7. CASE LoadCursor(p)
  <2> DEFINE r == [poller[p] EXCEPT !.pc = "verify", !.last = cursor.height]
  <2>1. r \in Poller /\ r.pc = "verify" BY <1>t DEF Poller, Shape, TypeOK
  <2>2. Become(p, r) BY <1>7 DEF LoadCursor
  <2> HIDE DEF r
  <2> QED BY <2>1, <2>2, Outside
<1> QED BY <1>1, <1>s, <1>2, <1>3, <1>4, <1>5, <1>6, <1>7 DEF Repair

LEMMA GuardMoves ==
  ASSUME Shape, NEW p \in Pollers, Guard(p)
  PROVE  Moves(p)
<1> USE BlockAssumption DEF Phases, Healing, Following, Writing, AtBlock, Reads, Moves
<1>t. poller[p] \in Poller /\ cursor \in [height : 0..Tip, hash : 0..MaxBranch]
  BY DEF Shape, TypeOK
<1>1. CASE VerifyHeight(p)
  <2> DEFINE m == [poller[p] EXCEPT !.pc = "marker"]
             h == [poller[p] EXCEPT !.last = cursor.height]
             c == [poller[p] EXCEPT !.pc = "compare", !.hash = cursor.hash]
  <2>1. poller[p].pc = "verify" /\ poller[p].last < Tip
    BY <1>1 DEF VerifyHeight, At
  <2>2. m \in Poller /\ m.pc = "marker" /\ m.last = poller[p].last
    BY <1>t DEF Poller
  <2>3. h \in Poller /\ h.pc = "verify" BY <1>t, <2>1 DEF Poller
  <2>4. c \in Poller /\ c.pc = "compare" /\ c.last = poller[p].last
    BY <1>t DEF Poller
  <2>5. Become(p, m) \/ Become(p, h) \/ Become(p, c)
    BY <1>1 DEF VerifyHeight, Become
  <2> HIDE DEF m, h, c
  <2>6. Ranged(m) /\ Ranged(c) BY <2>1, <2>2, <2>4 DEF Ranged, AtEvent
  <2>7. Ranged(h) BY <2>3, Outside
  <2> QED BY <2>2, <2>3, <2>4, <2>5, <2>6, <2>7
<1>2. CASE CompareHash(p)
  <2> DEFINE m == [poller[p] EXCEPT !.pc = "marker"]
  <2>1. CASE Goto(p, "halted") BY <2>1, PutPhase
  <2>2. CASE Goto(p, "marker")
    <3>1. poller[p].pc = "compare" BY <1>2 DEF CompareHash, At
    <3>2. m \in Poller /\ m.pc = "marker" /\ m.last = poller[p].last
      BY <1>t DEF Poller
    <3>3. poller[p].last < Tip BY <3>1 DEF Shape, Ranged
    <3>4. Become(p, m) BY <2>2 DEF Goto, Become, Shape, TypeOK
    <3>5. Ranged(m)
      <4> HIDE DEF m
      <4> QED BY <3>2, <3>3 DEF Ranged, AtEvent
    <3> HIDE DEF m
    <3> QED BY <3>2, <3>4, <3>5
  <2> QED BY <2>1, <2>2, <1>2 DEF CompareHash
<1>3. CASE ReadMarker(p)
  <2> DEFINE h == [poller[p] EXCEPT !.pc = "hash", !.attempt = 1]
  <2>1. CASE Goto(p, "halted") BY <2>1, PutPhase
  <2>2. CASE Become(p, h)
    <3>1. poller[p].pc = "marker" BY <1>3 DEF ReadMarker, At
    <3>2. h \in Poller /\ h.pc = "hash" /\ h.last = poller[p].last
      BY <1>t DEF Poller
    <3>3. poller[p].last < Tip BY <3>1 DEF Shape, Ranged
    <3>4. Ranged(h)
      <4> HIDE DEF h
      <4> QED BY <3>2, <3>3 DEF Ranged, AtEvent
    <3> HIDE DEF h
    <3> QED BY <2>2, <3>2, <3>4
  <2> QED BY <2>1, <2>2, <1>3 DEF ReadMarker
<1> QED BY <1>1, <1>2, <1>3 DEF Guard

LEMMA IngestMoves ==
  ASSUME Shape, NEW p \in Pollers, Ingest(p)
  PROVE  Moves(p)
<1> USE BlockAssumption DEF Phases, Healing, Following, Writing, AtBlock, Reads, Moves
<1>t. poller[p] \in Poller /\ chain \in [1..Tip -> 0..MaxBranch]
  BY DEF Shape, TypeOK
<1>h. ASSUME poller[p].pc \in AtBlock
      PROVE  poller[p].last < Tip /\ Height(p) \in 1..Tip
  <2>1. poller[p].last < Tip BY <1>h DEF Shape, Ranged
  <2>2. poller[p].last \in 0..Tip BY <1>t DEF Poller
  <2> QED BY <2>1, <2>2 DEF Height
<1>1. CASE FetchHash(p)
  <2> DEFINE r == [poller[p] EXCEPT !.pc = "txs", !.hash = chain[Height(p)]]
  <2>1. poller[p].last < Tip /\ Height(p) \in 1..Tip BY <1>1, <1>h DEF FetchHash, At
  <2>2. r \in Poller /\ r.pc = "txs" /\ r.last = poller[p].last
    BY <1>t, <2>1 DEF Poller
  <2>3. Become(p, r) BY <1>1 DEF FetchHash
  <2> HIDE DEF r
  <2>4. Ranged(r) BY <2>1, <2>2 DEF Ranged, AtEvent
  <2> QED BY <2>2, <2>3, <2>4
<1>2. CASE FetchTxs(p)
  <2> DEFINE r == [poller[p] EXCEPT !.pc = "next", !.done = 0,
                     !.branch = chain[Height(p)]]
  <2>1. poller[p].last < Tip /\ Height(p) \in 1..Tip BY <1>2, <1>h DEF FetchTxs, At
  <2>2. r \in Poller /\ r.pc = "next" /\ r.last = poller[p].last /\ r.done = 0
        /\ r.branch = chain[Height(p)]
    BY <1>t, <2>1 DEF Poller
  <2>3. Become(p, r) BY <1>2 DEF FetchTxs
  <2> HIDE DEF r
  <2>t. r.last + 1 \in 1..Tip /\ r.branch \in 0..MaxBranch
    BY <2>1, <2>2, <1>t DEF Height
  <2>4. TxsOf(r) \in Seq(Events) BY <2>t, BlockAssumption DEF TxsOf
  <2>5. Len(TxsOf(r)) >= 0 BY <2>4
  <2>6. Ranged(r) BY <2>1, <2>2, <2>5 DEF Ranged, AtEvent
  <2> QED BY <2>2, <2>3, <2>6
<1>3. CASE CheckExists(p)
  <2> DEFINE i == [poller[p] EXCEPT !.pc = "insert", !.replayed = FALSE]
             f == [poller[p] EXCEPT !.pc = "fee", !.replayed = TRUE]
  <2>1. poller[p].pc = "next" /\ poller[p].done < Len(Txs(p))
    BY <1>3 DEF CheckExists, At
  <2>2. Txs(p) = TxsOf(poller[p])
    BY <2>1, TxsTyped
  <2>3. i \in Poller /\ i.pc = "insert" /\ i.last = poller[p].last
        /\ i.branch = poller[p].branch /\ i.done = poller[p].done
    BY <1>t DEF Poller
  <2>4. f \in Poller /\ f.pc = "fee" /\ f.last = poller[p].last
        /\ f.branch = poller[p].branch /\ f.done = poller[p].done
    BY <1>t DEF Poller
  <2>5. Become(p, i) \/ Become(p, f) \/ Become(p, Done(p))
    BY <1>3 DEF CheckExists, Become
  <2> HIDE DEF i, f
  <2>6. TxsOf(i) = TxsOf(poller[p]) /\ TxsOf(f) = TxsOf(poller[p])
    BY <2>3, <2>4 DEF TxsOf
  <2>7. poller[p].last < Tip BY <2>1, <1>h
  <2>8. Ranged(i) BY <2>1, <2>2, <2>3, <2>6, <2>7 DEF Ranged, AtEvent
  <2>9. Ranged(f) BY <2>1, <2>2, <2>4, <2>6, <2>7 DEF Ranged, AtEvent
  <2>10. Done(p) \in Poller /\ Ranged(Done(p)) BY <2>1, DoneRanged
  <2> QED BY <2>3, <2>4, <2>5, <2>8, <2>9, <2>10
<1>d. CASE DiscoverPair(p)
  <2>1. Become(p, poller[p]) /\ Ranged(poller[p])
    BY <1>d DEF DiscoverPair, Become, Shape, TypeOK
  <2> QED BY <2>1, <1>t
<1>o. CASE PassOver(p) \/ TooLarge(p)
  <2>1. poller[p].pc = "next" /\ poller[p].done < Len(Txs(p)) /\ Become(p, Done(p))
    BY <1>o DEF PassOver, TooLarge, At
  <2> QED BY <2>1, DoneRanged
<1>e. ASSUME poller[p].pc \in AtEvent
      PROVE  Done(p) \in Poller /\ Ranged(Done(p))
  <2>1. poller[p].pc \in Writing BY <1>e DEF AtEvent
  <2>2. poller[p].done < Len(Txs(p)) BY <2>1, <1>e, TxsTyped DEF Shape, Ranged
  <2> QED BY <2>2, <1>e, DoneRanged
<1>4. CASE InsertRow(p)
  <2>1. poller[p].pc = "insert" BY <1>4 DEF InsertRow, At
  <2>2. Done(p) \in Poller /\ Ranged(Done(p)) BY <2>1, <1>e DEF AtEvent
  <2>3. Become(p, Done(p)) \/ Goto(p, "fee")
    BY <1>4 DEF InsertRow, Become, Goto, Shape, TypeOK
  <2> QED BY <2>1, <2>2, <2>3, PutWrite DEF AtEvent
<1>5. CASE InsertConflict(p) BY <1>5, PutPhase DEF InsertConflict
<1>6. CASE IngestFee(p)
  <2>1. poller[p].pc = "fee" BY <1>6 DEF IngestFee, At
  <2>2. Done(p) \in Poller /\ Ranged(Done(p)) BY <2>1, <1>e DEF AtEvent
  <2>3. Become(p, Done(p)) \/ Goto(p, "candle")
    BY <1>6 DEF IngestFee, Become, Goto, Shape, TypeOK
  <2> QED BY <2>1, <2>2, <2>3, PutWrite DEF AtEvent
<1>7. CASE UpdateCandles(p)
  BY <1>7, PutWrite DEF UpdateCandles, At, AtEvent
<1>8. CASE UpdateTrader(p)
  BY <1>8, PutWrite DEF UpdateTrader, At, AtEvent
<1>9. CASE UpdatePosition(p)
  BY <1>9, <1>e DEF UpdatePosition, At, AtEvent
<1>10. CASE EndOfBlock(p)
  <2> DEFINE r == [poller[p] EXCEPT !.pc = "commit"]
  <2>1. poller[p].pc = "next" /\ poller[p].done = Len(Txs(p))
    BY <1>10 DEF EndOfBlock, At
  <2>2. Txs(p) = TxsOf(poller[p]) /\ poller[p].last < Tip
    BY <2>1, <1>h, TxsTyped
  <2>3. r \in Poller /\ r.pc = "commit" /\ r.last = poller[p].last
        /\ r.branch = poller[p].branch /\ r.done = poller[p].done
    BY <1>t DEF Poller
  <2>4. Become(p, r) BY <1>10 DEF EndOfBlock, Goto, Become, Shape, TypeOK
  <2> HIDE DEF r
  <2>5. Ranged(r) BY <2>1, <2>2, <2>3 DEF Ranged, AtEvent, TxsOf
  <2> QED BY <2>3, <2>4, <2>5
<1>11. CASE Commit(p)
  <2> DEFINE r == [poller[p] EXCEPT !.pc = "clear"]
  <2>1. poller[p].pc = "commit" BY <1>11 DEF Commit, At
  <2>2. poller[p].done = Len(TxsOf(poller[p])) /\ poller[p].last < Tip
    BY <2>1 DEF Shape, Ranged
  <2>3. r \in Poller /\ r.pc = "clear" /\ r.last = poller[p].last
        /\ r.branch = poller[p].branch /\ r.done = poller[p].done
    BY <1>t DEF Poller
  <2>4. Become(p, r) BY <1>11 DEF Commit, Goto, Become, Shape, TypeOK
  <2> HIDE DEF r
  <2>5. Ranged(r) BY <2>1, <2>2, <2>3 DEF Ranged, AtEvent, TxsOf
  <2> QED BY <2>3, <2>4, <2>5
<1>12. CASE ClearFailed(p)
  <2> DEFINE r == [poller[p] EXCEPT !.pc = "verify", !.last = Height(p)]
  <2>1. Height(p) \in 0..Tip BY <1>12, <1>h DEF ClearFailed, At
  <2>2. r \in Poller /\ r.pc = "verify" BY <2>1, <1>t DEF Poller
  <2>3. Become(p, r) BY <1>12 DEF ClearFailed
  <2> HIDE DEF r
  <2> QED BY <2>2, <2>3, Outside
<1> QED BY <1>1, <1>2, <1>3, <1>d, <1>o, <1>4, <1>5, <1>6, <1>7, <1>8, <1>9,
           <1>10, <1>11, <1>12 DEF Ingest

LEMMA FaultMoves ==
  ASSUME Shape, NEW p \in Pollers,
         RepairFails(p) \/ Outage(p) \/ LcdError(p) \/ ReadFails(p)
           \/ WriteFails(p) \/ Restart(p) \/ LeadershipLost(p)
  PROVE  Moves(p)
<1> USE BlockAssumption DEF Phases, Healing, Following, Writing, AtBlock, Moves
<1>t. poller[p] \in Poller BY DEF Shape, TypeOK
<1>1. CASE RepairFails(p)
  <2> DEFINE r(pc) == [poller[p] EXCEPT !.pc = pc,
                         !.healed = @ /\ At(p, "backfill")]
  <2>1. PICK pc \in {"traders", "positions", "load"} : Become(p, r(pc))
    BY <1>1 DEF RepairFails
  <2>2. r(pc) \in Poller /\ r(pc).pc = pc BY <1>t DEF Poller
  <2> HIDE DEF r
  <2> QED BY <2>1, <2>2, Outside
<1>2. CASE Outage(p)
  <2>1. CASE At(p, "compare")
    <3>1. Goto(p, "verify") BY <2>1, <1>2 DEF Outage
    <3> QED BY <3>1, PutPhase
  <2>2. CASE ~At(p, "compare")
    <3> DEFINE r == [poller[p] EXCEPT !.pc = "hash"]
    <3>1. Become(p, r) BY <1>2, <2>2 DEF Outage, Goto, Become, Shape, TypeOK
    <3>2. poller[p].last < Tip BY <1>2, <1>t DEF Outage, Shape, Ranged
    <3>3. r \in Poller /\ r.pc = "hash" /\ r.last = poller[p].last
      BY <1>t DEF Poller
    <3> HIDE DEF r
    <3>4. Ranged(r) BY <3>2, <3>3 DEF Ranged, AtEvent
    <3> QED BY <3>1, <3>3, <3>4
  <2> QED BY <2>1, <2>2
<1>3. CASE LcdError(p)
  <2> DEFINE r == [poller[p] EXCEPT !.pc = "hash", !.attempt = @ + 1]
  <2>1. Goto(p, "halted") \/ Become(p, r) BY <1>3 DEF LcdError
  <2>2. poller[p].last < Tip BY <1>3, <1>t DEF LcdError, Shape, Ranged
  <2>3. poller[p].attempt + 1 \in Nat BY <1>t DEF Poller
  <2>4. r \in Poller /\ r.pc = "hash" /\ r.last = poller[p].last
    BY <2>3, <1>t DEF Poller
  <2> HIDE DEF r
  <2>5. Ranged(r) BY <2>2, <2>4 DEF Ranged, AtEvent
  <2> QED BY <2>1, <2>4, <2>5, PutPhase
<1>4. CASE ReadFails(p) BY <1>4, PutPhase DEF ReadFails
<1>5. CASE WriteFails(p) BY <1>5, PutPhase DEF WriteFails
<1>6. CASE Restart(p)
  <2>1. Waiting \in Poller /\ Waiting.pc = "waiting" BY DEF Waiting, Poller
  <2>2. Become(p, Waiting) BY <1>6 DEF Restart
  <2> QED BY <2>1, <2>2, Outside
<1>7. CASE LeadershipLost(p) BY <1>7, PutPhase DEF LeadershipLost
<1> QED BY <1>1, <1>2, <1>3, <1>4, <1>5, <1>6, <1>7

\* A pair enters the database as of the checkpoint or of the block at hand.
LEMMA SinceTyped ==
  ASSUME Shape, NEW p \in Pollers, SyncPairs(p) \/ DiscoverPair(p)
  PROVE  since' \in [Pairs -> 0..Never]
<1>t. since \in [Pairs -> 0..Never] /\ cursor.height \in 0..Tip
  BY DEF Shape, TypeOK
<1>n. \A h \in 0..Tip : h \in 0..Never BY BlockAssumption DEF Never
<1>1. CASE SyncPairs(p)
  <2>1. PICK S \in SUBSET Factory :
          since' = [a \in Pairs |-> IF a \in S /\ ~Known(a)
                                   THEN cursor.height ELSE since[a]]
    BY <1>1 DEF SyncPairs
  <2> QED BY <2>1, <1>t, <1>n
<1>2. CASE DiscoverPair(p)
  <2>1. Height(p) \in 1..Tip BY <1>2, TxsTyped DEF DiscoverPair, At, Writing
  <2>2. Height(p) \in 0..Never BY <2>1, BlockAssumption DEF Never
  <2> QED BY <2>2, <1>2, <1>t DEF DiscoverPair
<1> QED BY <1>1, <1>2

LEMMA StepTyped ==
  ASSUME Shape, NEW p \in Pollers,
         Moves(p),
         chain' = chain, lost' \in BOOLEAN, holder' \in Pollers \cup {Nobody},
         faults' \in {faults, faults + 1},
         cursor' \in [height : 0..Tip, hash : 0..MaxBranch],
         failed' \in [1..Tip -> {"none", "generic", "unsafe"}],
         since' \in [Pairs -> 0..Never],
         rows' \subseteq Events, fees' \subseteq Events,
         candles' \in Nat, trades' \in Nat, positions' \in Nat
  PROVE  Shape'
<1>1. PICK r \in Poller : Ranged(r) /\ Become(p, r) BY DEF Moves
<1>2. /\ poller' \in [Pollers -> Poller]
      /\ \A q \in Pollers : Ranged(poller'[q])
  BY <1>1, Put
<1> QED BY <1>2 DEF Shape, TypeOK

LEMMA ShapeStep == Shape /\ [Next]_vars => Shape'
<1> SUFFICES ASSUME Shape, [Next]_vars PROVE Shape'
  OBVIOUS
<1> USE DEF Reads, Writes, Fault, Release, ledger, projections
<1>t. TypeOK BY DEF Shape
<1>c. Cardinality(Indexed) \in Nat
  <2>1. IsFiniteSet(Indexed) BY BlockAssumption, FS_Subset DEF Indexed
  <2> QED BY <2>1, FS_CardinalityType
<1>1. ASSUME NEW p \in Pollers, AcquireLock(p) \/ Repair(p) PROVE Shape'
  <2>1. Moves(p) BY <1>1, RepairMoves
  <2>4. UNCHANGED <<chain, cursor, failed, rows, candles, lost, faults>>
    BY <1>1
    DEF AcquireLock, Repair, SyncPairs, BackfillFees, HealTraders, CheckPositions,
        SnapshotSwaps, ReplaySwap, LoadCursor
  <2>5. holder' \in Pollers \cup {Nobody}
    BY <1>1, <1>t
    DEF TypeOK, AcquireLock, Repair, SyncPairs, BackfillFees, HealTraders,
        CheckPositions, SnapshotSwaps, ReplaySwap, LoadCursor
  <2>6. fees' \subseteq Events /\ trades' \in Nat /\ positions' \in Nat
    BY <1>1, <1>t, <1>c
    DEF TypeOK, AcquireLock, Repair, SyncPairs, BackfillFees, HealTraders,
        CheckPositions, SnapshotSwaps, ReplaySwap, LoadCursor, Indexed, Events
  <2>7. SyncPairs(p) \/ since' = since
    BY <1>1
    DEF AcquireLock, Repair, BackfillFees, HealTraders, CheckPositions,
        SnapshotSwaps, ReplaySwap, LoadCursor
  <2>3. since' \in [Pairs -> 0..Never] BY <2>7, <1>t, SinceTyped DEF TypeOK
  <2> QED BY <2>1, <2>3, <2>4, <2>5, <2>6, <1>t, StepTyped DEF TypeOK
<1>2. ASSUME NEW p \in Pollers, Guard(p) PROVE Shape'
  <2>1. Moves(p) BY <1>2, GuardMoves
  <2>2. /\ UNCHANGED <<chain, cursor, failed, since, ledger, lost, faults>>
        /\ holder' \in Pollers \cup {Nobody}
    BY <1>2, <1>t DEF TypeOK, Guard, VerifyHeight, CompareHash, ReadMarker
  <2> QED BY <2>1, <2>2, <1>t, StepTyped DEF TypeOK
<1>3. ASSUME NEW p \in Pollers, Ingest(p) PROVE Shape'
  <2>1. Moves(p) BY <1>3, IngestMoves
  <2>2. UNCHANGED <<chain, lost, faults>> /\ holder' \in Pollers \cup {Nobody}
    BY <1>3, <1>t
    DEF TypeOK, Ingest, FetchHash, FetchTxs, DiscoverPair, PassOver, CheckExists,
        TooLarge, InsertRow,
        InsertConflict, IngestFee, UpdateCandles, UpdateTrader, UpdatePosition,
        EndOfBlock, Commit, ClearFailed
  <2>3. candles' \in Nat /\ trades' \in Nat /\ positions' \in Nat
    BY <1>3, <1>t
    DEF TypeOK, Ingest, FetchHash, FetchTxs, DiscoverPair, PassOver, CheckExists,
        TooLarge, InsertRow,
        InsertConflict, IngestFee, UpdateCandles, UpdateTrader, UpdatePosition,
        EndOfBlock, Commit, ClearFailed
  <2>4. poller[p].pc \in AtEvent => Event(p) \in Events BY EventTyped
  <2>5. rows' \subseteq Events /\ fees' \subseteq Events
    BY <1>3, <1>t, <2>4
    DEF TypeOK, Ingest, FetchHash, FetchTxs, DiscoverPair, PassOver, CheckExists,
        TooLarge, InsertRow,
        InsertConflict, IngestFee, UpdateCandles, UpdateTrader, UpdatePosition,
        EndOfBlock, Commit, ClearFailed, AtEvent, At
  <2>6. poller[p].pc \in Writing => Height(p) \in 1..Tip BY TxsTyped
  <2>7. cursor' \in [height : 0..Tip, hash : 0..MaxBranch]
    <3>1. CASE Commit(p)
      <4>1. Height(p) \in 1..Tip BY <3>1, <2>6 DEF Commit, At, Writing
      <4>2. poller[p].hash \in 0..MaxBranch BY <1>t DEF TypeOK, Poller
      <4>3. Height(p) \in 0..Tip BY <4>1, BlockAssumption
      <4> QED BY <4>2, <4>3, <3>1 DEF Commit
    <3>2. CASE ~Commit(p)
      BY <3>2, <1>3, <1>t
      DEF TypeOK, Ingest, FetchHash, FetchTxs, DiscoverPair, PassOver, CheckExists,
        TooLarge, InsertRow,
          InsertConflict, IngestFee, UpdateCandles, UpdateTrader, UpdatePosition,
          EndOfBlock, ClearFailed
    <3> QED BY <3>1, <3>2
  <2>9. since' \in [Pairs -> 0..Never]
    <3>1. CASE DiscoverPair(p) BY <3>1, SinceTyped
    <3>2. CASE ~DiscoverPair(p)
      BY <3>2, <1>3, <1>t
      DEF TypeOK, Ingest, FetchHash, FetchTxs, PassOver, CheckExists, TooLarge,
          InsertRow, InsertConflict, IngestFee, UpdateCandles, UpdateTrader,
          UpdatePosition, EndOfBlock, Commit, ClearFailed
    <3> QED BY <3>1, <3>2
  <2>8. failed' \in [1..Tip -> {"none", "generic", "unsafe"}]
    BY <1>3, <1>t
    DEF TypeOK, Ingest, FetchHash, FetchTxs, DiscoverPair, PassOver, CheckExists,
        TooLarge, InsertRow,
        InsertConflict, IngestFee, UpdateCandles, UpdateTrader, UpdatePosition,
        EndOfBlock, Commit, ClearFailed
  <2> QED BY <2>1, <2>2, <2>3, <2>5, <2>7, <2>8, <2>9, <1>t, StepTyped DEF TypeOK
<1>4. ASSUME NEW p \in Pollers,
             RepairFails(p) \/ Outage(p) \/ LcdError(p) \/ ReadFails(p)
               \/ WriteFails(p) \/ Restart(p) \/ LeadershipLost(p)
      PROVE  Shape'
  <2>1. Moves(p) BY <1>4, FaultMoves
  <2>2. /\ UNCHANGED <<chain, cursor, since, ledger, lost>>
        /\ holder' \in Pollers \cup {Nobody} /\ faults' \in {faults, faults + 1}
        /\ failed' \in [1..Tip -> {"none", "generic", "unsafe"}]
    BY <1>4, <1>t
    DEF TypeOK, RepairFails, Outage, LcdError, ReadFails, WriteFails, Restart,
        LeadershipLost
  <2> QED BY <2>1, <2>2, <1>t, StepTyped DEF TypeOK
<1>5. ASSUME NEW p \in Pollers, LoseSession(p) PROVE Shape'
  BY <1>5, <1>t DEF LoseSession, Shape, TypeOK
<1>6. ASSUME NEW h \in 1..Tip, Reorg(h) PROVE Shape'
  <2>1. \A k \in 1..Tip : k >= h => k \in h..Tip /\ chain[k] < MaxBranch
    BY <1>6, BlockAssumption DEF Reorg
  <2>2. \A k \in 1..Tip : k >= h => chain[k] + 1 \in 0..MaxBranch
    BY <2>1, <1>t, BlockAssumption DEF TypeOK
  <2>3. chain' \in [1..Tip -> 0..MaxBranch]
    BY <1>6, <1>t, <2>2 DEF Reorg, TypeOK
  <2>4. UNCHANGED <<cursor, failed, since, ledger, holder, poller, lost>>
        /\ faults' = faults + 1
    BY <1>6 DEF Reorg
  <2> QED BY <1>t, <2>3, <2>4 DEF Shape, TypeOK
<1>7. CASE UNCHANGED vars
  BY <1>7 DEF vars, Shape, TypeOK
<1> QED BY <1>1, <1>2, <1>3, <1>4, <1>5, <1>6, <1>7 DEF Next, Work, Fails

-----------------------------------------------------------------------------
(* One poller at a time, while no session was lost. *)

Mutex == ~lost => \A p \in Pollers : Running(p) => holder = p

LEMMA MutexStep == Shape /\ Mutex /\ [Next]_vars => Mutex'
<1> SUFFICES ASSUME Shape, Mutex, [Next]_vars, ~lost' PROVE Mutex'
  BY DEF Mutex
<1> USE DEF Reads, Writes, Fault, Release, Healing, Following, Writing
<1>t. poller \in [Pollers -> Poller] BY DEF Shape, TypeOK
<1>1. ASSUME NEW p \in Pollers, AcquireLock(p) PROVE Mutex'
  <2>1. ~lost /\ holder = Nobody /\ holder' = p
        /\ poller' = [poller EXCEPT ![p].pc = "sync"]
    BY <1>1 DEF AcquireLock, Goto
  <2>2. \A q \in Pollers : ~Running(q)
    BY <2>1, NobodyAssumption DEF Mutex
  <2>3. \A q \in Pollers : q # p => poller'[q] = poller[q]
    BY <2>1, <1>t
  <2> QED BY <2>1, <2>2, <2>3 DEF Mutex, Running
<1>2. ASSUME NEW p \in Pollers, Moves(p), Running(p), ~lost,
             holder' = holder \/ (poller'[p].pc = "halted" /\ holder = p)
      PROVE  Mutex'
  <2>1. holder = p /\ \A q \in Pollers : q # p => ~Running(q)
    BY <1>2 DEF Mutex
  <2>2. \A q \in Pollers : q # p => poller'[q] = poller[q]
    BY <1>2, <1>t DEF Moves, Become
  <2> QED BY <2>1, <2>2, <1>2 DEF Mutex, Running
<1>3. ASSUME NEW p \in Pollers, Moves(p), poller'[p].pc \in {"waiting", "halted"},
             ~lost, holder' = (IF holder = p THEN Nobody ELSE holder)
      PROVE  Mutex'
  <2>1. \A q \in Pollers : q # p => poller'[q] = poller[q]
    BY <1>3, <1>t DEF Moves, Become
  <2> QED BY <2>1, <1>3 DEF Mutex, Running
<1>h. ASSUME NEW p \in Pollers, Goto(p, "halted") PROVE poller'[p].pc = "halted"
  BY <1>h, <1>t DEF Goto, Poller
<1>4. ASSUME NEW p \in Pollers, Repair(p) PROVE Mutex'
  <2>1. Moves(p) BY <1>4, RepairMoves
  <2>2. ~lost /\ holder' = holder /\ Running(p)
    BY <1>4 DEF Repair, SyncPairs, BackfillFees, HealTraders, CheckPositions,
      SnapshotSwaps, ReplaySwap, LoadCursor, Running, At
  <2> QED BY <2>1, <2>2, <1>2
<1>5. ASSUME NEW p \in Pollers, Guard(p) PROVE Mutex'
  <2>1. Moves(p) BY <1>5, GuardMoves
  <2>2. ~lost /\ Running(p)
        /\ (holder' = holder \/ (Goto(p, "halted") /\ Release(p)))
    BY <1>5 DEF Guard, VerifyHeight, CompareHash, ReadMarker, Running, At
  <2> QED BY <2>1, <2>2, <1>2, <1>3, <1>h
<1>6. ASSUME NEW p \in Pollers, Ingest(p) PROVE Mutex'
  <2>1. Moves(p) BY <1>6, IngestMoves
  <2>2. ~lost /\ Running(p)
        /\ (holder' = holder \/ (Goto(p, "halted") /\ Release(p)))
    BY <1>6 DEF Ingest, FetchHash, FetchTxs, DiscoverPair, PassOver, CheckExists,
        TooLarge, InsertRow,
        InsertConflict, IngestFee, UpdateCandles, UpdateTrader, UpdatePosition,
        EndOfBlock, Commit, ClearFailed, Running, At
  <2> QED BY <2>1, <2>2, <1>2, <1>3, <1>h
<1>7. ASSUME NEW p \in Pollers, RepairFails(p) \/ Outage(p) \/ LcdError(p)
      PROVE  Mutex'
  <2>1. Moves(p) BY <1>7, FaultMoves
  <2>2. ~lost /\ Running(p)
        /\ (holder' = holder \/ (Goto(p, "halted") /\ Release(p)))
    BY <1>7 DEF RepairFails, Outage, LcdError, Running, At
  <2> QED BY <2>1, <2>2, <1>2, <1>3, <1>h
<1>8. ASSUME NEW p \in Pollers, ReadFails(p) \/ WriteFails(p) PROVE Mutex'
  <2>1. Moves(p) BY <1>8, FaultMoves
  <2>2. ~lost /\ Goto(p, "halted") /\ Release(p)
    BY <1>8 DEF ReadFails, WriteFails
  <2> QED BY <2>1, <2>2, <1>3, <1>h
<1>9. ASSUME NEW p \in Pollers, Restart(p) PROVE Mutex'
  <2>1. Moves(p) BY <1>9, FaultMoves
  <2>2. ~lost /\ Become(p, Waiting) /\ Release(p) BY <1>9 DEF Restart
  <2>3. poller'[p].pc = "waiting" BY <2>2, <1>t DEF Become, Waiting
  <2> QED BY <2>1, <2>2, <2>3, <1>3
<1>10. ASSUME NEW p \in Pollers, LoseSession(p) PROVE Mutex'
  BY <1>10 DEF LoseSession
<1>11. ASSUME NEW p \in Pollers, LeadershipLost(p) PROVE Mutex'
  BY <1>11 DEF LeadershipLost, Mutex
<1>12. ASSUME NEW h \in 1..Tip, Reorg(h) PROVE Mutex'
  BY <1>12 DEF Reorg, Mutex, Running
<1>13. CASE UNCHANGED vars
  BY <1>13 DEF vars, Mutex, Running
<1> QED BY <1>1, <1>4, <1>5, <1>6, <1>7, <1>8, <1>9, <1>10, <1>11, <1>12, <1>13
        DEF Next, Work, Fails

-----------------------------------------------------------------------------
(* While there is one writer, no poller is ahead of the checkpoint, and the *)
(* one at work is at it, or has just moved it.                              *)

AtCursor == {"verify"} \cup (AtBlock \ {"clear"})
Level(r) ==
  /\ r.last <= cursor.height
  /\ r.pc \in AtCursor => r.last = cursor.height
  /\ r.pc = "clear" => r.last + 1 = cursor.height
Abreast == ~lost => \A p \in Pollers : Level(poller[p])

\* Steps that leave the checkpoint where it is.
LEMMA LevelKept ==
  ASSUME Shape, NEW p \in Pollers, Level(poller[p]), cursor' = cursor,
         NEW s, s = poller'[p],
         \/ s.last \in {poller[p].last, 0} /\ s.pc \notin AtCursor \cup {"clear"}
         \/ s.last = poller[p].last /\ poller[p].pc \in AtCursor /\ s.pc \in AtCursor
         \/ s.last = cursor.height /\ s.pc # "clear"
  PROVE  Level(poller[p])'
<1>1. cursor.height \in 0..Tip /\ 0 <= cursor.height
  BY BlockAssumption DEF Shape, TypeOK
<1>2. cursor.height <= cursor.height BY <1>1, BlockAssumption
<1>3. s.last <= cursor.height BY <1>1, <1>2 DEF Level
<1>4. s.pc \in AtCursor => s.last = cursor.height BY DEF Level
<1>5. s.pc # "clear" BY DEF AtCursor
<1> QED BY <1>3, <1>4, <1>5 DEF Level, AtCursor, AtBlock, Writing

\* Repairs and the guard.
LEMMA LevelBefore ==
  ASSUME Shape, NEW p \in Pollers, Level(poller[p]),
         AcquireLock(p) \/ Repair(p) \/ Guard(p) \/ RepairFails(p)
  PROVE  Level(poller[p])'
<1> DEFINE o == poller[p]
<1>t. poller \in [Pollers -> Poller] /\ o \in Poller BY DEF Shape, TypeOK
<1> USE DEF AtCursor, AtBlock, Writing
<1>c. cursor' = cursor
  BY DEF AcquireLock, Repair, SyncPairs, BackfillFees, HealTraders, CheckPositions,
    SnapshotSwaps, ReplaySwap, LoadCursor, Guard, VerifyHeight, CompareHash,
    ReadMarker, RepairFails, Reads, Writes
<1>g. ASSUME NEW pc, Goto(p, pc),
             \/ pc \in {"sync", "backfill", "traders", "positions", "snapshot",
                        "load", "halted"}
             \/ pc = "marker" /\ o.pc = "compare"
      PROVE  Level(poller[p])'
  <2>1. poller'[p].pc = pc /\ poller'[p].last = o.last BY <1>g, <1>t DEF Goto, Poller
  <2> QED BY <2>1, <1>g, <1>c, LevelKept
<1>b. ASSUME NEW r, Become(p, r),
             \/ r.last = o.last /\ r.pc \notin AtCursor \cup {"clear"}
             \/ r.last = o.last /\ o.pc \in AtCursor /\ r.pc \in AtCursor
             \/ r.last = cursor.height /\ r.pc # "clear"
      PROVE  Level(poller[p])'
  <2>1. poller'[p] = r BY <1>b, <1>t DEF Become
  <2> QED BY <2>1, <1>b, <1>c, LevelKept
<1>1. CASE AcquireLock(p) BY <1>1, <1>g DEF AcquireLock
<1>2. CASE Repair(p)
  <2> DEFINE s == [poller[p] EXCEPT !.pc = "replay", !.left = Cardinality(Indexed)]
             l == [poller[p] EXCEPT !.left = @ - 1]
             c == [poller[p] EXCEPT !.pc = "verify", !.last = cursor.height]
  <2>1. /\ s.pc = "replay" /\ s.last = o.last
        /\ l.pc = o.pc /\ l.last = o.last
        /\ c.pc = "verify" /\ c.last = cursor.height
    BY <1>t DEF Poller
  <2>2. \/ Become(p, s) \/ Become(p, c)
        \/ o.pc = "replay" /\ Become(p, l)
        \/ \E pc \in {"backfill", "traders", "positions", "load", "snapshot"}
              : Goto(p, pc)
    BY <1>2 DEF Repair, SyncPairs, BackfillFees, HealTraders, CheckPositions,
      SnapshotSwaps, ReplaySwap, LoadCursor, At
  <2> HIDE DEF s, l, c
  <2> QED BY <2>1, <2>2, <1>g, <1>b
<1>3. CASE Guard(p)
  <2> DEFINE m == [poller[p] EXCEPT !.pc = "marker"]
             h == [poller[p] EXCEPT !.last = cursor.height]
             c == [poller[p] EXCEPT !.pc = "compare", !.hash = cursor.hash]
             a == [poller[p] EXCEPT !.pc = "hash", !.attempt = 1]
  <2>1. \/ o.pc = "verify" /\ (Become(p, m) \/ Become(p, h) \/ Become(p, c))
        \/ Goto(p, "halted")
        \/ o.pc = "compare" /\ Goto(p, "marker")
        \/ o.pc = "marker" /\ Become(p, a)
    BY <1>3 DEF Guard, VerifyHeight, CompareHash, ReadMarker, Become, At
  <2>2. /\ m.pc = "marker" /\ m.last = o.last
        /\ c.pc = "compare" /\ c.last = o.last
        /\ a.pc = "hash" /\ a.last = o.last
        /\ h.pc = o.pc /\ h.last = cursor.height
    BY <1>t DEF Poller
  <2> HIDE DEF m, h, c, a
  <2> QED BY <2>1, <2>2, <1>g, <1>b
<1>4. CASE RepairFails(p)
  <2> DEFINE r(pc) == [poller[p] EXCEPT !.pc = pc,
                         !.healed = @ /\ At(p, "backfill")]
  <2>1. PICK pc \in {"traders", "positions", "load"} : Become(p, r(pc))
    BY <1>4 DEF RepairFails
  <2>2. r(pc).pc = pc /\ r(pc).last = o.last BY <1>t DEF Poller
  <2> HIDE DEF r
  <2> QED BY <2>1, <2>2, <1>b
<1> QED BY <1>1, <1>2, <1>3, <1>4

\* The block, and the faults.
LEMMA LevelWithin ==
  ASSUME Shape, NEW p \in Pollers, Level(poller[p]),
         \/ Ingest(p) \/ Outage(p) \/ LcdError(p) \/ ReadFails(p)
         \/ WriteFails(p) \/ Restart(p) \/ LeadershipLost(p)
  PROVE  Level(poller[p])'
<1> DEFINE o == poller[p]
<1>t. poller \in [Pollers -> Poller] /\ o \in Poller /\ cursor.height \in 0..Tip
  BY DEF Shape, TypeOK
<1>p. o.last \in 0..Tip BY <1>t DEF Poller
<1> USE DEF AtCursor, AtBlock, Writing
<1>g. ASSUME cursor' = cursor, NEW pc, Goto(p, pc),
             pc = "halted" \/ (o.pc \in AtCursor /\ pc \in AtCursor)
      PROVE  Level(poller[p])'
  <2>1. poller'[p].pc = pc /\ poller'[p].last = o.last BY <1>g, <1>t DEF Goto, Poller
  <2> QED BY <2>1, <1>g, LevelKept
<1>b. ASSUME cursor' = cursor, NEW r, Become(p, r), o.pc \in AtCursor,
             r.pc \in AtCursor, r.last = o.last
      PROVE  Level(poller[p])'
  <2>1. poller'[p] = r BY <1>b, <1>t DEF Become
  <2> QED BY <2>1, <1>b, LevelKept
<1>D. Done(p).pc = "next" /\ Done(p).last = o.last BY <1>t DEF Done, Poller
<1>1. CASE FetchHash(p) \/ FetchTxs(p)
  <2> DEFINE a == [poller[p] EXCEPT !.pc = "txs", !.hash = chain[Height(p)]]
             b == [poller[p] EXCEPT !.pc = "next", !.done = 0,
                     !.branch = chain[Height(p)]]
  <2>1. cursor' = cursor /\ o.pc \in AtCursor /\ (Become(p, a) \/ Become(p, b))
    BY <1>1 DEF FetchHash, FetchTxs, Reads, At
  <2>2. a.pc = "txs" /\ a.last = o.last /\ b.pc = "next" /\ b.last = o.last
    BY <1>t DEF Poller
  <2> HIDE DEF a, b
  <2> QED BY <2>1, <2>2, <1>b
<1>2. CASE CheckExists(p)
  <2> DEFINE i == [poller[p] EXCEPT !.pc = "insert", !.replayed = FALSE]
             f == [poller[p] EXCEPT !.pc = "fee", !.replayed = TRUE]
  <2>1. cursor' = cursor /\ o.pc = "next"
        /\ (Become(p, i) \/ Become(p, f) \/ Become(p, Done(p)))
    BY <1>2 DEF CheckExists, Become, Reads, At
  <2>2. i.pc = "insert" /\ i.last = o.last /\ f.pc = "fee" /\ f.last = o.last
    BY <1>t DEF Poller
  <2> HIDE DEF i, f
  <2> QED BY <2>1, <2>2, <1>D, <1>b
<1>3. CASE \/ PassOver(p) \/ TooLarge(p) \/ InsertRow(p) \/ IngestFee(p)
           \/ UpdatePosition(p)
  <2>1. cursor' = cursor /\ o.pc \in {"next", "insert", "fee", "position"}
        /\ (Become(p, Done(p)) \/ Goto(p, "fee") \/ Goto(p, "candle"))
    BY <1>3 DEF PassOver, TooLarge, InsertRow, IngestFee, UpdatePosition, Become, Goto,
      Reads, Writes, At
  <2> QED BY <2>1, <1>D, <1>b, <1>g
<1>4. CASE UpdateCandles(p) \/ UpdateTrader(p) \/ EndOfBlock(p)
  BY <1>4, <1>g DEF UpdateCandles, UpdateTrader, EndOfBlock, Reads, Writes, At
<1>5. CASE DiscoverPair(p) BY <1>5, LevelKept DEF DiscoverPair, At
<1>6. CASE Commit(p)
  <2>1. o.pc = "commit" /\ cursor'.height = Height(p) /\ Goto(p, "clear")
    BY <1>6 DEF Commit, At
  <2>2. poller'[p].pc = "clear" /\ poller'[p].last = o.last
    BY <2>1, <1>t DEF Goto, Poller
  <2>3. o.last <= o.last + 1 BY <1>p, BlockAssumption
  <2> QED BY <2>1, <2>2, <2>3 DEF Level, Height
<1>7. CASE ClearFailed(p)
  <2> DEFINE r == [poller[p] EXCEPT !.pc = "verify", !.last = Height(p)]
  <2>1. o.pc = "clear" /\ poller'[p] = r /\ cursor' = cursor
    BY <1>7, <1>t DEF ClearFailed, At, Become
  <2>2. r.pc = "verify" /\ r.last = Height(p) BY <1>t DEF Poller
  <2> HIDE DEF r
  <2>3. Height(p) = cursor.height BY <2>1 DEF Level, Height
  <2> QED BY <2>1, <2>2, <2>3, LevelKept
<1>8. CASE InsertConflict(p) \/ ReadFails(p) \/ WriteFails(p) \/ LeadershipLost(p)
  BY <1>8, <1>g DEF InsertConflict, ReadFails, WriteFails, LeadershipLost
<1>9. CASE Outage(p) BY <1>9, <1>g DEF Outage
<1>10. CASE LcdError(p)
  <2> DEFINE r == [poller[p] EXCEPT !.pc = "hash", !.attempt = @ + 1]
  <2>1. r.pc = "hash" /\ r.last = o.last BY <1>t DEF Poller
  <2>2. cursor' = cursor /\ o.pc \in AtCursor /\ (Goto(p, "halted") \/ Become(p, r))
    BY <1>10 DEF LcdError
  <2> HIDE DEF r
  <2> QED BY <2>1, <2>2, <1>b, <1>g
<1>11. CASE Restart(p)
  <2>1. poller'[p] = Waiting /\ cursor' = cursor BY <1>11, <1>t DEF Restart, Become
  <2>2. Waiting.pc = "waiting" /\ Waiting.last = 0 BY DEF Waiting
  <2> QED BY <2>1, <2>2, LevelKept
<1> QED BY <1>1, <1>2, <1>3, <1>4, <1>5, <1>6, <1>7, <1>8, <1>9, <1>10, <1>11 DEF Ingest

LEMMA AbreastStep == Shape /\ Mutex /\ Abreast /\ [Next]_vars => Abreast'
<1> SUFFICES ASSUME Shape, Mutex, Abreast, [Next]_vars, ~lost' PROVE Abreast'
  BY DEF Abreast
<1>t. poller \in [Pollers -> Poller] /\ cursor.height \in 0..Tip
  BY DEF Shape, TypeOK
<1>l. ~lost
  BY DEF Next, Work, AcquireLock, Repair, SyncPairs, BackfillFees, HealTraders,
    CheckPositions, SnapshotSwaps, ReplaySwap, LoadCursor, Guard, VerifyHeight,
    CompareHash, ReadMarker, Ingest, FetchHash, FetchTxs, DiscoverPair, PassOver,
    CheckExists, TooLarge, InsertRow, InsertConflict, IngestFee, UpdateCandles,
    UpdateTrader, UpdatePosition, EndOfBlock, Commit, ClearFailed, Fails,
    RepairFails, Outage, LcdError, ReadFails, WriteFails, Restart, LoseSession,
    LeadershipLost, Reorg, Reads, Writes, vars
<1>a. \A q \in Pollers : Level(poller[q]) BY <1>l DEF Abreast
<1>k. ASSUME cursor' = cursor, NEW q \in Pollers, poller'[q] = poller[q]
      PROVE  Level(poller[q])'
  BY <1>k, <1>a DEF Level, AtCursor, AtBlock, Writing
<1>s. ASSUME cursor' = cursor, poller' = poller PROVE Abreast'
  BY <1>s, <1>k DEF Abreast
<1>1. ASSUME NEW p \in Pollers, Moves(p), Level(poller[p])',
             cursor' = cursor \/ Commit(p)
      PROVE  Abreast'
  <2>1. \A q \in Pollers \ {p} : poller'[q] = poller[q]
    BY <1>1, <1>t DEF Moves, Become
  <2>2. ASSUME NEW q \in Pollers \ {p}, Commit(p) PROVE Level(poller[q])'
    <3>1. Running(p) /\ poller[p].pc = "commit" BY <2>2 DEF Commit, At, Running
    <3>2. ~Running(q) BY <3>1, <1>l DEF Mutex
    <3>3. poller[q].last <= cursor.height /\ poller[q].last \in 0..Tip
      BY <1>a, <1>t DEF Level, Poller
    <3>4. cursor'.height = cursor.height + 1
      BY <2>2, <3>1, <1>a DEF Commit, Height, Level, AtCursor, AtBlock, Writing
    <3>5. poller[q].last <= cursor'.height BY <3>3, <3>4, <1>t, BlockAssumption
    <3> QED BY <2>1, <3>2, <3>5 DEF Level, Running, AtCursor, AtBlock, Writing
  <2> QED BY <2>1, <2>2, <1>1, <1>k DEF Abreast
<1>2. ASSUME NEW p \in Pollers,
             AcquireLock(p) \/ Repair(p) \/ Guard(p) \/ RepairFails(p)
      PROVE  Abreast'
  <2>1. Moves(p) BY <1>2, RepairMoves, GuardMoves, FaultMoves
  <2>2. Level(poller[p])' BY <1>2, <1>a, LevelBefore
  <2>3. cursor' = cursor
    BY <1>2 DEF AcquireLock, Repair, SyncPairs, BackfillFees, HealTraders,
      CheckPositions, SnapshotSwaps, ReplaySwap, LoadCursor, Guard, VerifyHeight,
      CompareHash, ReadMarker, RepairFails, Reads, Writes
  <2> QED BY <2>1, <2>2, <2>3, <1>1
<1>3. ASSUME NEW p \in Pollers,
             \/ Ingest(p) \/ Outage(p) \/ LcdError(p) \/ ReadFails(p)
             \/ WriteFails(p) \/ Restart(p) \/ LeadershipLost(p)
      PROVE  Abreast'
  <2>1. Moves(p) BY <1>3, IngestMoves, FaultMoves
  <2>2. Level(poller[p])' BY <1>3, <1>a, LevelWithin
  <2>3. cursor' = cursor \/ Commit(p)
    BY <1>3 DEF Ingest, FetchHash, FetchTxs, DiscoverPair, PassOver, CheckExists,
      TooLarge, InsertRow, InsertConflict, IngestFee, UpdateCandles, UpdateTrader,
      UpdatePosition, EndOfBlock, ClearFailed, Outage, LcdError, ReadFails,
      WriteFails, Restart, LeadershipLost, Reads, Writes
  <2> QED BY <2>1, <2>2, <2>3, <1>1
<1>4. ASSUME NEW p \in Pollers, LoseSession(p) PROVE Abreast'
  BY <1>4, <1>s DEF LoseSession
<1>5. ASSUME NEW h \in 1..Tip, Reorg(h) PROVE Abreast'
  BY <1>5, <1>s DEF Reorg
<1>6. CASE UNCHANGED vars BY <1>6, <1>s DEF vars
<1> QED BY <1>2, <1>3, <1>4, <1>5, <1>6 DEF Next, Work, Fails

-----------------------------------------------------------------------------
(* What a poller has stored of the chain below it and of its block. *)

Kept(e, h) ==
  Indexable(e, h) => e \in rows /\ (lost \/ (e \in Swaps => e \in fees))
EventOf(r) == TxsOf(r)[r.done + 1]

HasStored(r) ==
  /\ \A h \in 1..r.last : Covered(h)
  /\ r.pc \in Writing => \A i \in 1..r.done : Kept(TxsOf(r)[i], r.last + 1)
  /\ r.pc \in {"fee", "candle", "trade", "position"} => EventOf(r) \in rows
  /\ r.pc \in {"candle", "trade", "position"} => EventOf(r) \in fees
  /\ r.pc = "insert" /\ ~lost => EventOf(r) \notin rows

Storage ==
  /\ NothingSkipped
  /\ \A p \in Pollers : HasStored(poller[p])

\* The pairs that were there from the start; the others come with a height the
\* checkpoint has not passed.
Entered == \A a \in Synced : since[a] = 0
Founded == Abreast /\ Entered

LEMMA PairsTyped ==
  /\ \A e \in Events : PairOf[e] \in Pairs
  /\ Synced \subseteq Pairs
  /\ 0 # Never /\ Tip \in Nat
BY BlockAssumption DEF Never

\* What a step may do to the pairs table.
LEMMA SinceMoves ==
  ASSUME Shape, [Next]_vars
  PROVE  \/ since' = since
         \/ \E p \in Pollers : SyncPairs(p)
         \/ \E p \in Pollers : DiscoverPair(p)
<1>1. ASSUME NEW p \in Pollers, Work(p) \/ Fails(p) \/ LeadershipLost(p),
             ~SyncPairs(p), ~DiscoverPair(p)
      PROVE  since' = since
  BY <1>1 DEF Work, AcquireLock, Repair, BackfillFees, HealTraders, CheckPositions,
    SnapshotSwaps, ReplaySwap, LoadCursor, Guard, VerifyHeight, CompareHash,
    ReadMarker, Ingest, FetchHash, FetchTxs, PassOver, CheckExists, TooLarge,
    InsertRow, InsertConflict, IngestFee, UpdateCandles, UpdateTrader,
    UpdatePosition, EndOfBlock, Commit, ClearFailed, Fails, RepairFails, Outage,
    LcdError, ReadFails, WriteFails, Restart, LoseSession, LeadershipLost, Reads,
    Writes
<1>2. ASSUME NEW h \in 1..Tip, Reorg(h) PROVE since' = since BY <1>2 DEF Reorg
<1> QED BY <1>1, <1>2 DEF Next, vars

\* Only a pair that was not there enters, as of the checkpoint or the block.
LEMMA SinceGrows ==
  ASSUME Shape, [Next]_vars, NEW a \in Pairs, since'[a] # since[a]
  PROVE  /\ since[a] = Never
         /\ \/ since'[a] = cursor.height /\ \E p \in Pollers : SyncPairs(p)
            \/ \E p \in Pollers : DiscoverPair(p) /\ since'[a] = Height(p)
<1>t. since \in [Pairs -> 0..Never] BY DEF Shape, TypeOK
<1>1. ASSUME NEW p \in Pollers, SyncPairs(p)
      PROVE  since[a] = Never /\ since'[a] = cursor.height
  BY <1>1 DEF SyncPairs, Known
<1>2. ASSUME NEW p \in Pollers, DiscoverPair(p)
      PROVE  since[a] = Never /\ since'[a] = Height(p)
  BY <1>2, <1>t DEF DiscoverPair, PairKnown, Known
<1> QED BY <1>1, <1>2, SinceMoves

LEMMA EnteredStep == Shape /\ Entered /\ [Next]_vars => Entered'
<1> SUFFICES ASSUME Shape, Entered, [Next]_vars, NEW a \in Synced PROVE since'[a] = 0
  BY DEF Entered
<1>1. since[a] = 0 /\ a \in Pairs BY PairsTyped DEF Entered
<1> QED BY <1>1, SinceGrows, PairsTyped

\* Nothing stored is ever removed.
LEMMA Grows ==
  ASSUME Shape, [Next]_vars
  PROVE  rows \subseteq rows' /\ fees \subseteq fees' /\ (lost => lost')
<1> USE DEF Reads, Writes, ledger, projections
<1>1. ASSUME NEW p \in Pollers, Work(p) \/ Fails(p) \/ LeadershipLost(p)
      PROVE  rows \subseteq rows' /\ fees \subseteq fees' /\ (lost => lost')
  BY <1>1 DEF Work, AcquireLock, Repair, SyncPairs, BackfillFees, HealTraders,
    CheckPositions, SnapshotSwaps, ReplaySwap, LoadCursor, Guard, VerifyHeight, CompareHash,
    ReadMarker, Ingest, FetchHash, FetchTxs, DiscoverPair, PassOver, CheckExists,
        TooLarge, InsertRow,
    InsertConflict, IngestFee, UpdateCandles, UpdateTrader, UpdatePosition,
    EndOfBlock, Commit, ClearFailed, Fails, RepairFails, Outage, LcdError,
    ReadFails, WriteFails, Restart, LoseSession, LeadershipLost
<1>2. ASSUME NEW h \in 1..Tip, Reorg(h)
      PROVE  rows \subseteq rows' /\ fees \subseteq fees' /\ (lost => lost')
  BY <1>2 DEF Reorg
<1>3. CASE UNCHANGED vars BY <1>3 DEF vars
<1> QED BY <1>1, <1>2, <1>3 DEF Next

\* The block a step has to do with is at the checkpoint, below it or at hand.
Within(h) == \/ lost'
             \/ h <= cursor.height
             \/ since' = since
             \/ \E p \in Pollers : DiscoverPair(p) /\ h <= Height(p)

\* A step makes no event of such a block one that must be stored.
LEMMA IndexableFalls ==
  ASSUME Shape, Founded, [Next]_vars, NEW e \in Events, NEW h \in 1..Tip,
         Within(h), Indexable(e, h)'
  PROVE  Indexable(e, h)
<1> DEFINE a == PairOf[e]
<1>1. a \in Pairs BY PairsTyped
<1>2. e \notin Large /\ since'[a] < h /\ (lost' => a \in Synced)
  BY DEF Indexable
<1>3. lost => lost' BY Grows
<1>t. since \in [Pairs -> 0..Never] /\ cursor.height \in 0..Tip
      /\ since' \in [Pairs -> 0..Never]
  BY ShapeStep DEF Shape, TypeOK
<1> HIDE DEF a
<1>4. CASE since'[a] = since[a] BY <1>2, <1>3, <1>4 DEF Indexable, a
<1>5. CASE since'[a] # since[a]
  <2>1. ~lost'
    <3>1. since[a] = Never BY <1>1, <1>5, SinceGrows
    <3>2. a \notin Synced BY <3>1, PairsTyped DEF Founded, Entered
    <3> QED BY <3>2, <1>2
  <2>2. since' # since BY <1>5
  <2>3. ~lost /\ (h <= cursor.height
                  \/ \E p \in Pollers : DiscoverPair(p) /\ h <= Height(p))
    BY <2>1, <2>2, <1>3 DEF Within
  <2>4. \A p \in Pollers : DiscoverPair(p) => Height(p) = cursor.height + 1
    BY <2>3 DEF Founded, Abreast, Level, AtCursor, AtBlock, Writing, DiscoverPair, At,
                Height
  <2>5. \A p, q \in Pollers : ~(SyncPairs(p) /\ DiscoverPair(q))
    <3> SUFFICES ASSUME NEW p \in Pollers, NEW q \in Pollers, SyncPairs(p),
                        DiscoverPair(q)
                 PROVE  FALSE
      OBVIOUS
    <3>1. poller \in [Pollers -> Poller] /\ poller[p].pc = "sync"
      BY DEF Shape, TypeOK, SyncPairs, At
    <3>2. poller' = [poller EXCEPT ![p].pc = "backfill"] BY DEF SyncPairs, Goto
    <3>3. poller'[p].pc = "backfill" BY <3>1, <3>2 DEF Poller
    <3>4. poller' = poller BY DEF DiscoverPair
    <3> QED BY <3>1, <3>3, <3>4
  <2>6. \A x, y \in Nat : x <= y => ~(y < x) /\ ~(y + 1 < x) OBVIOUS
  <2>7. cursor.height \in Nat /\ h \in Nat BY <1>t
  <2>8. CASE since'[a] = cursor.height /\ \E p \in Pollers : SyncPairs(p)
    <3>1. h <= cursor.height BY <2>3, <2>5, <2>8
    <3> QED BY <3>1, <2>6, <2>7, <2>8, <1>2
  <2>9. CASE \E p \in Pollers : DiscoverPair(p) /\ since'[a] = Height(p)
    <3>1. since'[a] = cursor.height + 1 BY <2>4, <2>9
    <3>2. h <= cursor.height + 1 BY <2>3, <2>4, <2>7
    <3> QED BY <3>1, <3>2, <2>7, <1>2
  <2> QED BY <1>1, <1>5, <2>8, <2>9, SinceGrows
<1> QED BY <1>4, <1>5

LEMMA StoredStays ==
  ASSUME Shape, Founded, [Next]_vars, NEW h \in 1..Tip, NEW b \in 0..MaxBranch,
         Within(h)
  PROVE  /\ Stored(Block[h][b], h) => Stored(Block[h][b], h)'
         /\ FeesIn(Block[h][b], h) => FeesIn(Block[h][b], h)'
<1>1. rows \subseteq rows' /\ fees \subseteq fees' BY Grows
<1>2. PICK s : s = Block[h][b] OBVIOUS
<1>3. s \in Seq(Events) BY <1>2, BlockAssumption
<1>4. \A i \in DOMAIN s : s[i] \in Events BY <1>3
<1>5. \A i \in DOMAIN s : Indexable(s[i], h)' => Indexable(s[i], h)
  BY <1>4, IndexableFalls
<1>6. (Stored(s, h) => Stored(s, h)') /\ (FeesIn(s, h) => FeesIn(s, h)')
  BY <1>1, <1>5 DEF Stored, FeesIn
<1> QED BY <1>2, <1>6 DEF Stored, FeesIn

LEMMA StaysCovered ==
  ASSUME Shape, Founded, [Next]_vars, NEW h \in 1..Tip, Within(h), Covered(h)
  PROVE  Covered(h)'
<1>1. PICK b \in 0..MaxBranch :
        Stored(Block[h][b], h) /\ (lost \/ FeesIn(Block[h][b], h))
  BY DEF Covered
<1>2. Stored(Block[h][b], h)' /\ (lost' \/ FeesIn(Block[h][b], h)')
  BY <1>1, Grows, StoredStays
<1> QED BY <1>2 DEF Covered

\* The blocks below a poller stay covered.
LEMMA BelowStays ==
  ASSUME Shape, Founded, [Next]_vars, NEW p \in Pollers, HasStored(poller[p])
  PROVE  \A h \in 1..poller[p].last : Covered(h)'
<1> SUFFICES ASSUME NEW h \in 1..poller[p].last PROVE Covered(h)'
  OBVIOUS
<1>1. poller[p].last \in 0..Tip /\ cursor.height \in 0..Tip
  BY DEF Shape, TypeOK, Poller
<1>2. h \in 1..Tip BY <1>1, BlockAssumption
<1>3. lost' \/ h <= cursor.height
  <2>1. lost => lost' BY Grows
  <2>2. ~lost => poller[p].last <= cursor.height BY DEF Founded, Abreast, Level
  <2> QED BY <2>1, <2>2, <1>1
<1> QED BY <1>2, <1>3, StaysCovered DEF HasStored, Within

LEMMA CheckpointStays ==
  ASSUME Shape, Founded, Storage, [Next]_vars
  PROVE  \A h \in 1..cursor.height : Covered(h)'
<1>1. cursor.height \in 0..Tip BY DEF Shape, TypeOK
<1>2. \A h \in 1..cursor.height : h \in 1..Tip /\ Within(h)
  BY <1>1, BlockAssumption DEF Within
<1> QED BY <1>2, StaysCovered DEF Storage, NothingSkipped

LEMMA KeptStays ==
  ASSUME Shape, Founded, [Next]_vars, NEW e \in Events, NEW h \in 1..Tip, Within(h),
         Kept(e, h)
  PROVE  Kept(e, h)'
<1>1. rows \subseteq rows' /\ fees \subseteq fees' /\ (lost => lost') BY Grows
<1>2. Indexable(e, h)' => Indexable(e, h) BY IndexableFalls
<1> QED BY <1>1, <1>2 DEF Kept

\* So do the events a poller in its block is done with.
LEMMA DoneStays ==
  ASSUME Shape, Founded, [Next]_vars, NEW p \in Pollers, NEW r, r = poller[p],
         r.pc \in Writing, HasStored(r), Within(r.last + 1)
  PROVE  \A i \in 1..r.done : Kept(TxsOf(r)[i], r.last + 1)'
<1> SUFFICES ASSUME NEW i \in 1..r.done PROVE Kept(TxsOf(r)[i], r.last + 1)'
  OBVIOUS
<1>1. r \in Poller /\ Ranged(r) BY DEF Shape, TypeOK
<1>2. Txs(p) = TxsOf(r) /\ Len(TxsOf(r)) \in Nat /\ r.last + 1 \in 1..Tip
      /\ \A j \in 1..Len(TxsOf(r)) : TxsOf(r)[j] \in Events
  BY TxsTyped DEF Height
<1>3. r.done <= Len(TxsOf(r))
  BY <1>1, <1>2 DEF Ranged, Poller, Writing, AtEvent
<1>4. i \in 1..Len(TxsOf(r)) BY <1>1, <1>2, <1>3 DEF Poller
<1>5. PICK e, h : e = TxsOf(r)[i] /\ h = r.last + 1 OBVIOUS
<1>6. e \in Events /\ h \in 1..Tip BY <1>2, <1>4, <1>5
<1>7. Kept(e, h) BY <1>5 DEF HasStored
<1>8. Within(h) BY <1>5 DEF Within
<1>9. Kept(e, h)' BY <1>6, <1>7, <1>8, KeptStays
<1> QED BY <1>5, <1>9 DEF Kept, Indexable, TxsOf

LEMMA SameRecord ==
  ASSUME NEW p \in Pollers, NEW s, poller'[p] = s, HasStored(s)'
  PROVE  HasStored(poller[p])'
BY DEF HasStored, TxsOf, EventOf

\* What one poller does leaves what the others have stored: a row or a pair
\* appears only under a poller that holds the lock, unless a session was lost.
LEMMA OthersKeep ==
  ASSUME Shape, Mutex, Storage, Founded, [Next]_vars, NEW q \in Pollers,
         poller'[q] = poller[q],
         <<rows, since>>' = <<rows, since>> \/ lost \/ ~Running(q)
  PROVE  HasStored(poller[q])'
<1> DEFINE r == poller[q]
<1>1. HasStored(r) BY DEF Storage
<1>2. \A h \in 1..r.last : Covered(h)' BY <1>1, BelowStays
<1>3. rows \subseteq rows' /\ fees \subseteq fees' /\ (lost => lost') BY Grows
<1>4. r.pc = "insert" /\ ~lost' => EventOf(r) \notin rows'
  BY <1>1, <1>3 DEF HasStored, Running
<1>5. ASSUME r.pc \in Writing
      PROVE  \A i \in 1..r.done : Kept(TxsOf(r)[i], r.last + 1)'
  <2>1. Running(q) BY <1>5 DEF Running, Writing
  <2>2. Within(r.last + 1) BY <2>1, <1>3 DEF Within
  <2> PICK o : o = r OBVIOUS
  <2>3. \A i \in 1..o.done : Kept(TxsOf(o)[i], o.last + 1)'
    BY <2>2, <1>1, <1>5, DoneStays DEF Within
  <2> QED BY <2>3 DEF TxsOf
<1> PICK s : s = poller'[q] OBVIOUS
<1>6. HasStored(s)'
  BY <1>1, <1>2, <1>3, <1>4, <1>5 DEF HasStored, TxsOf, EventOf
<1> QED BY <1>6, SameRecord


\* A poller outside the writes of a block has only the blocks below to show.
LEMMA Leaves ==
  ASSUME Shape, Founded, Storage, [Next]_vars, NEW p \in Pollers,
         poller'[p].pc \notin Writing,
         \/ poller'[p].last = poller[p].last
         \/ poller'[p].last \in {0, cursor.height}
  PROVE  HasStored(poller[p])'
<1>1. \A h \in 1..poller[p].last : Covered(h)' BY BelowStays DEF Storage
<1>2. \A h \in 1..cursor.height : Covered(h)' BY CheckpointStays
<1>3. \A h \in 1..poller'[p].last : Covered(h)' BY <1>1, <1>2
<1> QED BY <1>3 DEF HasStored, Writing

\* From one write of an event to the next.
LEMMA Continues ==
  ASSUME Shape, Founded, Storage, [Next]_vars, NEW p \in Pollers,
         poller[p].pc \in Writing, poller'[p].pc \in Writing,
         poller'[p].last = poller[p].last, poller'[p].branch = poller[p].branch,
         poller'[p].done = poller[p].done,
         since' = since \/ DiscoverPair(p),
         poller'[p].pc \in {"fee", "candle", "trade", "position"} =>
           Event(p) \in rows',
         poller'[p].pc \in {"candle", "trade", "position"} => Event(p) \in fees',
         poller'[p].pc = "insert" /\ ~lost' => Event(p) \notin rows'
  PROVE  HasStored(poller[p])'
<1> PICK r : r = poller[p] OBVIOUS
<1> PICK s : s = poller'[p] OBVIOUS
<1>1. HasStored(poller[p]) BY DEF Storage
<1>2. HasStored(r) BY <1>1
<1>3. TxsOf(s) = TxsOf(r) /\ EventOf(s) = EventOf(r) BY DEF TxsOf, EventOf
<1>4. EventOf(r) = Event(p) BY DEF EventOf, Event, TxsOf, Txs, Height
<1>5. \A h \in 1..s.last : Covered(h)' BY <1>1, BelowStays
<1>6. Within(r.last + 1)
  <2>1. r.last + 1 <= r.last + 1 BY DEF Shape, TypeOK, Poller
  <2> QED BY <2>1 DEF Within, Height
<1>7. \A i \in 1..r.done : Kept(TxsOf(r)[i], r.last + 1)'
  BY <1>2, <1>6, DoneStays
<1>8. \A i \in 1..s.done : Kept(TxsOf(s)[i], s.last + 1)' BY <1>3, <1>7
  DEF TxsOf
<1>9. HasStored(s)'
  BY <1>3, <1>4, <1>5, <1>8 DEF HasStored, TxsOf, EventOf
<1> QED BY <1>9, SameRecord

\* The event at hand is done with.
LEMMA Finishes ==
  ASSUME Shape, Founded, Storage, [Next]_vars, NEW p \in Pollers,
         poller[p].pc \in Writing, poller'[p] = Done(p), since' = since,
         NEW e, NEW h, e = Event(p), h = Height(p), Kept(e, h)'
  PROVE  HasStored(poller[p])'
<1> PICK r : r = poller[p] OBVIOUS
<1> PICK s : s = poller'[p] OBVIOUS
<1>1. HasStored(poller[p]) /\ r \in Poller BY DEF Storage, Shape, TypeOK
<1>2. HasStored(r) BY <1>1
<1>3. s.pc = "next" /\ s.last = r.last /\ s.branch = r.branch /\ s.done = r.done + 1
  BY <1>1 DEF Done, Poller
<1>4. TxsOf(s) = TxsOf(r) /\ e = TxsOf(r)[r.done + 1] /\ h = s.last + 1
  BY <1>3 DEF TxsOf, Event, Txs, Height
<1>5. \A k \in 1..s.last : Covered(k)' BY <1>1, <1>3, BelowStays
<1>6. Within(r.last + 1) BY DEF Within
<1>7. \A i \in 1..r.done : Kept(TxsOf(r)[i], r.last + 1)'
  BY <1>2, <1>6, DoneStays
<1>8. ASSUME NEW i \in 1..s.done PROVE Kept(TxsOf(s)[i], s.last + 1)'
  <2>1. r.done \in Nat BY <1>1 DEF Poller
  <2>2. i \in 1..r.done \/ i = r.done + 1 BY <2>1, <1>3, <1>8
  <2>3. PICK f : f = TxsOf(r)[i] OBVIOUS
  <2>4. Kept(f, h)'
    <3>1. CASE i \in 1..r.done
      <4>1. Kept(TxsOf(r)[i], r.last + 1)' BY <3>1, <1>7
      <4> QED BY <4>1, <2>3, <1>3, <1>4 DEF Kept, Indexable, TxsOf
    <3>2. CASE i = r.done + 1 BY <3>2, <2>3, <1>4
    <3> QED BY <2>2, <3>1, <3>2
  <2>5. f = TxsOf(s)[i] BY <2>3, <1>4
  <2> QED BY <2>4, <2>5, <1>4 DEF Kept, Indexable, TxsOf
<1>9. HasStored(s)' BY <1>3, <1>5, <1>8 DEF HasStored, TxsOf
<1> QED BY <1>9, SameRecord

\* Steps outside the writes of a block.
LEMMA OutsideKeeps ==
  ASSUME Shape, Founded, Storage, [Next]_vars, NEW p \in Pollers,
         \/ AcquireLock(p) \/ Repair(p) \/ Guard(p) \/ FetchHash(p)
         \/ InsertConflict(p) \/ RepairFails(p) \/ Outage(p) \/ LcdError(p)
         \/ ReadFails(p) \/ WriteFails(p) \/ Restart(p) \/ LeadershipLost(p)
  PROVE  HasStored(poller[p])'
<1>t. poller \in [Pollers -> Poller] /\ cursor.height \in 0..Tip
  BY DEF Shape, TypeOK
<1>p. poller[p] \in Poller /\ poller[p].last \in 0..Tip BY <1>t DEF Poller
<1>1. ASSUME NEW pc, pc \notin Writing, Goto(p, pc)
      PROVE  HasStored(poller[p])'
  <2>1. poller'[p].pc = pc /\ poller'[p].last = poller[p].last
    BY <1>1, <1>t, <1>p DEF Goto, Poller
  <2> QED BY <2>1, <1>1, Leaves
<1>2. ASSUME NEW r, Become(p, r), r.pc \notin Writing,
             r.last = poller[p].last \/ r.last \in {0, cursor.height}
      PROVE  HasStored(poller[p])'
  <2>1. poller'[p] = r BY <1>2, <1>t DEF Become
  <2> QED BY <2>1, <1>2, Leaves
<1> USE DEF Writing
<1>3. CASE AcquireLock(p) BY <1>3, <1>1 DEF AcquireLock
<1>4. CASE Repair(p)
  <2>1. CASE SnapshotSwaps(p)
    <3> DEFINE r == [poller[p] EXCEPT !.pc = "replay", !.left = Cardinality(Indexed)]
    <3>1. r.pc = "replay" /\ r.last = poller[p].last BY <1>p DEF Poller
    <3>2. Become(p, r) BY <2>1 DEF SnapshotSwaps
    <3> HIDE DEF r
    <3> QED BY <3>1, <3>2, <1>2
  <2>2. CASE ReplaySwap(p)
    <3> DEFINE r == [poller[p] EXCEPT !.left = @ - 1]
    <3>1. r.pc = "replay" /\ r.last = poller[p].last
      BY <2>2, <1>p DEF Poller, ReplaySwap, At
    <3>2. Become(p, r) \/ Goto(p, "load") BY <2>2 DEF ReplaySwap
    <3> HIDE DEF r
    <3> QED BY <3>1, <3>2, <1>1, <1>2
  <2>3. CASE LoadCursor(p)
    <3> DEFINE r == [poller[p] EXCEPT !.pc = "verify", !.last = cursor.height]
    <3>1. r.pc = "verify" /\ r.last = cursor.height BY <1>p DEF Poller
    <3>2. Become(p, r) BY <2>3 DEF LoadCursor
    <3> HIDE DEF r
    <3> QED BY <3>1, <3>2, <1>2
  <2>4. CASE SyncPairs(p) \/ BackfillFees(p) \/ HealTraders(p) \/ CheckPositions(p)
    <3>1. \E pc \in {"backfill", "traders", "positions", "load", "snapshot"} : Goto(p, pc)
      BY <2>4 DEF SyncPairs, BackfillFees, HealTraders, CheckPositions
    <3> QED BY <3>1, <1>1
  <2> QED BY <1>4, <2>1, <2>2, <2>3, <2>4 DEF Repair
<1>5. CASE Guard(p)
  <2> DEFINE m == [poller[p] EXCEPT !.pc = "marker"]
             h == [poller[p] EXCEPT !.last = cursor.height]
             c == [poller[p] EXCEPT !.pc = "compare", !.hash = cursor.hash]
             a == [poller[p] EXCEPT !.pc = "hash", !.attempt = 1]
  <2>1. \/ VerifyHeight(p) /\ (Become(p, m) \/ Become(p, h) \/ Become(p, c))
        \/ Goto(p, "halted") \/ Goto(p, "marker") \/ Become(p, a)
    BY <1>5 DEF Guard, VerifyHeight, CompareHash, ReadMarker, Become
  <2>2. /\ m.pc = "marker" /\ m.last = poller[p].last
        /\ c.pc = "compare" /\ c.last = poller[p].last
        /\ a.pc = "hash" /\ a.last = poller[p].last
        /\ h.pc = poller[p].pc /\ h.last = cursor.height
    BY <1>p DEF Poller
  <2>3. VerifyHeight(p) => poller[p].pc = "verify" BY DEF VerifyHeight, At
  <2> HIDE DEF m, h, c, a
  <2> QED BY <2>1, <2>2, <2>3, <1>1, <1>2
<1>6. CASE FetchHash(p)
  <2> DEFINE r == [poller[p] EXCEPT !.pc = "txs", !.hash = chain[Height(p)]]
  <2>1. r.pc = "txs" /\ r.last = poller[p].last BY <1>p DEF Poller
  <2>2. Become(p, r) BY <1>6 DEF FetchHash
  <2> HIDE DEF r
  <2> QED BY <2>1, <2>2, <1>2
<1>7. CASE RepairFails(p)
  <2> DEFINE r(pc) == [poller[p] EXCEPT !.pc = pc,
                         !.healed = @ /\ At(p, "backfill")]
  <2>1. PICK pc \in {"traders", "positions", "load"} : Become(p, r(pc))
    BY <1>7 DEF RepairFails
  <2>2. r(pc).pc = pc /\ r(pc).last = poller[p].last BY <1>p DEF Poller
  <2> HIDE DEF r
  <2> QED BY <2>1, <2>2, <1>2
<1>8. CASE LcdError(p)
  <2> DEFINE r == [poller[p] EXCEPT !.pc = "hash", !.attempt = @ + 1]
  <2>1. r.pc = "hash" /\ r.last = poller[p].last BY <1>p DEF Poller
  <2>2. Goto(p, "halted") \/ Become(p, r) BY <1>8 DEF LcdError
  <2> HIDE DEF r
  <2> QED BY <2>1, <2>2, <1>1, <1>2
<1>9. CASE Restart(p)
  <2>1. Waiting.pc = "waiting" /\ Waiting.last = 0 BY DEF Waiting
  <2> QED BY <2>1, <1>9, <1>2 DEF Restart
<1>10. CASE InsertConflict(p) BY <1>10, <1>1 DEF InsertConflict
<1>11. CASE Outage(p)
  <2>1. Goto(p, "verify") \/ Goto(p, "hash") BY <1>11 DEF Outage
  <2> QED BY <2>1, <1>1
<1>12. CASE ReadFails(p) BY <1>12, <1>1 DEF ReadFails
<1>13. CASE WriteFails(p) BY <1>13, <1>1 DEF WriteFails
<1>14. CASE LeadershipLost(p) BY <1>14, <1>1 DEF LeadershipLost
<1> QED BY <1>3, <1>4, <1>5, <1>6, <1>7, <1>8, <1>9, <1>10, <1>11, <1>12, <1>13,
           <1>14

\* A poller done with the events of its block has kept them all.
LEMMA BlockCovered ==
  ASSUME Shape, NEW p \in Pollers, poller[p].pc \in {"commit", "clear"},
         HasStored(poller[p])
  PROVE  /\ Covered(Height(p))
         /\ Stored(Block[Height(p)][poller[p].branch], Height(p))
<1>1. poller[p] \in Poller /\ poller[p].pc \in Writing
  BY DEF Shape, TypeOK, Writing
<1>2. poller[p].done = Len(Txs(p)) /\ poller[p].branch \in 0..MaxBranch
  BY <1>1 DEF Shape, Ranged, TxsOf, Txs, Height, Poller
<1>3. \A i \in 1..Len(Txs(p)) : Kept(Txs(p)[i], Height(p))
  BY <1>1, <1>2 DEF HasStored, TxsOf, Txs, Height
<1>4. DOMAIN Txs(p) = 1..Len(Txs(p)) BY <1>1, TxsTyped
<1>5. Stored(Txs(p), Height(p)) /\ (lost \/ FeesIn(Txs(p), Height(p)))
  BY <1>3, <1>4 DEF Stored, FeesIn, Kept
<1> QED BY <1>2, <1>5 DEF Covered, Txs

\* Steps within the writes of a block.
LEMMA WritingKeeps ==
  ASSUME Shape, Founded, Storage, [Next]_vars, NEW p \in Pollers,
         \/ FetchTxs(p) \/ DiscoverPair(p) \/ PassOver(p) \/ CheckExists(p)
         \/ TooLarge(p) \/ InsertRow(p) \/ IngestFee(p)
         \/ UpdateCandles(p) \/ UpdateTrader(p) \/ UpdatePosition(p)
         \/ EndOfBlock(p) \/ Commit(p) \/ ClearFailed(p)
  PROVE  HasStored(poller[p])'
<1>t. poller \in [Pollers -> Poller] /\ poller[p] \in Poller BY DEF Shape, TypeOK
<1>p. poller[p].last \in 0..Tip /\ HasStored(poller[p])
  BY <1>t DEF Poller, Storage
<1>e. EventOf(poller[p]) = Event(p) BY DEF EventOf, Event, TxsOf, Txs, Height
<1>g. /\ rows \subseteq rows' /\ fees \subseteq fees' /\ (lost => lost')
      /\ \A h \in 1..poller[p].last : Covered(h)'
  BY <1>p, Grows, BelowStays
<1>u. since' = since \/ DiscoverPair(p)
  BY DEF FetchTxs, PassOver, CheckExists, TooLarge, InsertRow, IngestFee,
    UpdateCandles, UpdateTrader, UpdatePosition, EndOfBlock, Commit, ClearFailed,
    Reads, Writes
<1>1. CASE FetchTxs(p)
  <2> DEFINE r == [poller[p] EXCEPT !.pc = "next", !.done = 0,
                     !.branch = chain[Height(p)]]
  <2>1. r.pc = "next" /\ r.last = poller[p].last /\ r.done = 0
    BY <1>t DEF Poller
  <2>2. poller'[p] = r BY <1>1, <1>t DEF FetchTxs, Become
  <2> HIDE DEF r
  <2> PICK s : s = r OBVIOUS
  <2>3. s.pc = "next" /\ s.last = poller[p].last /\ s.done = 0 BY <2>1
  <2>4. \A h \in 1..s.last : Covered(h)' BY <2>3, <1>g
  <2>5. HasStored(s)' BY <2>3, <2>4 DEF HasStored, Writing
  <2> QED BY <2>2, <2>5, SameRecord
<1> USE DEF Writing
<1>c. ASSUME NEW pc \in Writing, poller[p].pc \in Writing, Goto(p, pc),
             pc \in {"fee", "candle", "trade", "position"} => Event(p) \in rows',
             pc \in {"candle", "trade", "position"} => Event(p) \in fees',
             pc # "insert"
      PROVE  HasStored(poller[p])'
  <2>1. /\ poller'[p].pc = pc /\ poller'[p].last = poller[p].last
        /\ poller'[p].branch = poller[p].branch /\ poller'[p].done = poller[p].done
    BY <1>c, <1>t DEF Goto, Poller
  <2> QED BY <2>1, <1>c, <1>u, Continues
<1>k. ASSUME poller[p].pc \in Writing, poller'[p] = Done(p), since' = since,
             Event(p) \in rows', lost' \/ (Event(p) \in Swaps => Event(p) \in fees')
      PROVE  HasStored(poller[p])'
  <2>1. PICK e, h : e = Event(p) /\ h = Height(p) OBVIOUS
  <2>2. Kept(e, h)' BY <2>1, <1>k DEF Kept
  <2> QED BY <2>1, <2>2, <1>k, Finishes
\* What is passed over need not be stored: its pair is not in the database, or
\* its values do not fit.
<1>o. CASE PassOver(p) \/ TooLarge(p)
  <2>1. PICK e, h : e = Event(p) /\ h = Height(p) OBVIOUS
  <2>2. /\ poller[p].pc = "next" /\ poller'[p] = Done(p) /\ since' = since
        /\ since[PairOf[e]] = Never \/ e \in Large
    BY <1>o, <2>1, <1>t
    DEF PassOver, TooLarge, At, Become, Reads, PairKnown, Known
  <2>3. h \in 1..Tip BY <2>1, <2>2, TxsTyped
  <2>4. ~(Never < h) BY <2>3, BlockAssumption DEF Never
  <2>5. ~Indexable(e, h)'
    <3>1. e \in Large \/ since'[PairOf[e]] = Never BY <2>2
    <3> QED BY <3>1, <2>4 DEF Indexable
  <2> QED BY <2>1, <2>2, <2>5, Finishes DEF Kept
<1>d. CASE DiscoverPair(p)
  <2>1. poller[p].pc = "next" /\ poller' = poller BY <1>d DEF DiscoverPair, At
  <2> QED BY <2>1, <1>u, Continues
<1>2. CASE CheckExists(p)
  <2> DEFINE i == [poller[p] EXCEPT !.pc = "insert", !.replayed = FALSE]
             f == [poller[p] EXCEPT !.pc = "fee", !.replayed = TRUE]
  <2>1. /\ i.pc = "insert" /\ i.last = poller[p].last
        /\ i.branch = poller[p].branch /\ i.done = poller[p].done
        /\ f.pc = "fee" /\ f.last = poller[p].last
        /\ f.branch = poller[p].branch /\ f.done = poller[p].done
    BY <1>t DEF Poller
  <2>2. poller[p].pc = "next" /\ poller[p].done < Len(Txs(p))
        /\ rows' = rows /\ fees' = fees /\ lost' = lost /\ since' = since
    BY <1>2 DEF CheckExists, At, Reads, ledger
  <2>3. CASE Event(p) \notin rows
    <3>1. poller'[p] = i BY <2>3, <1>2, <1>t DEF CheckExists, Become
    <3> HIDE DEF i, f
    <3> QED BY <3>1, <2>1, <2>2, <2>3, Continues
  <2>4. CASE Event(p) \in rows \cap Swaps
    <3>1. poller'[p] = f BY <2>4, <1>2, <1>t DEF CheckExists, Become
    <3> HIDE DEF i, f
    <3> QED BY <3>1, <2>1, <2>2, <2>4, Continues
  <2>5. CASE Event(p) \in rows \ Swaps
    <3>1. poller'[p] = Done(p) BY <2>5, <1>2, <1>t DEF CheckExists, Become
    <3> QED BY <3>1, <2>2, <2>5, <1>k
  <2> QED BY <2>3, <2>4, <2>5
<1>3. CASE InsertRow(p)
  <2>1. poller[p].pc = "insert" /\ rows' = rows \cup {Event(p)}
        /\ fees' = fees /\ lost' = lost /\ since' = since
    BY <1>3 DEF InsertRow, At, Writes
  <2>2. CASE Event(p) \in rows \cap Swaps
    <3>1. poller'[p] = Done(p) BY <2>2, <1>3, <1>t DEF InsertRow, Become
    <3>2. lost BY <2>1, <2>2, <1>p, <1>e DEF HasStored
    <3> QED BY <3>1, <3>2, <2>1, <1>k
  <2>3. CASE Event(p) \notin rows \cap Swaps
    <3>1. Goto(p, "fee") BY <2>3, <1>3 DEF InsertRow, Become, Goto
    <3> QED BY <3>1, <2>1, <1>c
  <2> QED BY <2>2, <2>3
<1>4. CASE IngestFee(p)
  <2>1. poller[p].pc = "fee" /\ fees' = fees \cup {Event(p)} /\ rows' = rows
        /\ since' = since
    BY <1>4 DEF IngestFee, At, Writes
  <2>2. Event(p) \in rows BY <2>1, <1>p, <1>e DEF HasStored
  <2>3. poller'[p] = Done(p) \/ Goto(p, "candle")
    BY <1>4, <1>t DEF IngestFee, Become, Goto
  <2>4. CASE poller'[p] = Done(p) BY <2>4, <2>1, <2>2, <1>k
  <2>5. CASE Goto(p, "candle") BY <2>5, <2>1, <2>2, <1>c
  <2> QED BY <2>3, <2>4, <2>5
<1>5. CASE UpdateCandles(p) \/ UpdateTrader(p)
  <2>1. poller[p].pc \in {"candle", "trade"} /\ (Goto(p, "trade") \/ Goto(p, "position"))
    BY <1>5 DEF UpdateCandles, UpdateTrader, At
  <2>2. Event(p) \in rows /\ Event(p) \in fees BY <2>1, <1>p, <1>e DEF HasStored
  <2>3. Event(p) \in rows' /\ Event(p) \in fees' BY <2>2, <1>g
  <2> QED BY <2>1, <2>3, <1>c
<1>6. CASE UpdatePosition(p)
  <2>1. poller[p].pc = "position" /\ poller'[p] = Done(p) /\ since' = since
    BY <1>6, <1>t DEF UpdatePosition, At, Become, Writes
  <2>2. Event(p) \in rows' /\ Event(p) \in fees'
    BY <2>1, <1>p, <1>e, <1>g DEF HasStored
  <2> QED BY <2>1, <2>2, <1>k
<1>7. CASE EndOfBlock(p) BY <1>7, <1>c DEF EndOfBlock, At
<1>8. CASE Commit(p) BY <1>8, <1>c DEF Commit, At
<1>9. CASE ClearFailed(p)
  <2> DEFINE r == [poller[p] EXCEPT !.pc = "verify", !.last = Height(p)]
  <2>1. poller[p].pc = "clear" /\ poller'[p] = r
    BY <1>9, <1>t DEF ClearFailed, At, Become
  <2>2. r.pc = "verify" /\ r.last = Height(p) BY <1>t DEF Poller
  <2> HIDE DEF r
  <2>3. PICK h : h = Height(p) OBVIOUS
  <2>4. Covered(h)'
    <3>1. Covered(h) BY <2>1, <2>3, <1>p, BlockCovered
    <3>2. h \in 1..Tip /\ since' = since
      BY <2>1, <2>3, <1>9, TxsTyped DEF ClearFailed
    <3> QED BY <3>1, <3>2, StaysCovered DEF Within
  <2>5. \A k \in 1..r.last : k \in 1..poller[p].last \/ k = h
    BY <2>2, <2>3, <1>p DEF Height
  <2> PICK s : s = r OBVIOUS
  <2>6. \A k \in 1..s.last : Covered(k)' BY <2>4, <2>5, <1>g
  <2>7. HasStored(s)' BY <2>2, <2>6 DEF HasStored
  <2> QED BY <2>1, <2>7, SameRecord
<1> QED BY <1>1, <1>o, <1>d, <1>2, <1>3, <1>4, <1>5, <1>6, <1>7, <1>8, <1>9

\* The checkpoint moves to a block whose events are all kept.
LEMMA CommitCovered ==
  ASSUME Shape, Founded, Storage, [Next]_vars, NEW p \in Pollers, Commit(p)
  PROVE  /\ \A h \in 1..Height(p) : Covered(h)'
         /\ Stored(Block[Height(p)][poller[p].branch], Height(p))
<1>1. HasStored(poller[p]) /\ poller[p].pc = "commit" /\ since' = since
  BY DEF Storage, Commit, At
<1>2. Covered(Height(p)) /\ Stored(Block[Height(p)][poller[p].branch], Height(p))
  BY <1>1, BlockCovered
<1>3. Height(p) \in 1..Tip /\ poller[p].last \in 0..Tip
  BY <1>1, TxsTyped DEF Writing, Shape, TypeOK, Poller
<1>4. \A h \in 1..Height(p) : (h \in 1..poller[p].last \/ h = Height(p)) /\ h \in 1..Tip
  BY <1>3, BlockAssumption DEF Height
<1>5. \A h \in 1..Height(p) : Covered(h) BY <1>1, <1>2, <1>4 DEF HasStored
<1>6. \A h \in 1..Height(p) : Covered(h)'
  BY <1>1, <1>4, <1>5, StaysCovered DEF Within
<1> QED BY <1>2, <1>6

LEMMA StorageStep == Shape /\ Mutex /\ Founded /\ Storage /\ [Next]_vars => Storage'
<1> SUFFICES ASSUME Shape, Mutex, Founded, Storage, [Next]_vars PROVE Storage'
  OBVIOUS
<1>t. poller \in [Pollers -> Poller] BY DEF Shape, TypeOK
<1>c. ASSUME cursor' = cursor PROVE NothingSkipped'
  BY <1>c, CheckpointStays DEF NothingSkipped
<1>o. ASSUME NEW p \in Pollers, Moves(p), HasStored(poller[p])',
             <<rows, since>>' = <<rows, since>> \/ Running(p), NothingSkipped'
      PROVE  Storage'
  <2>1. \A q \in Pollers : q # p => poller'[q] = poller[q]
    BY <1>o, <1>t DEF Moves, Become
  <2>2. \A q \in Pollers :
          q # p => <<rows, since>>' = <<rows, since>> \/ lost \/ ~Running(q)
    BY <1>o DEF Mutex
  <2>3. \A q \in Pollers : q # p => HasStored(poller[q])'
    BY <2>1, <2>2, OthersKeep
  <2>4. \A q \in Pollers : HasStored(poller[q])' BY <2>3, <1>o
  <2> QED BY <2>4, <1>o DEF Storage
<1>q. ASSUME poller' = poller, rows' = rows, since' = since, cursor' = cursor
      PROVE Storage'
  <2>1. \A q \in Pollers : HasStored(poller[q])' BY <1>q, OthersKeep
  <2> QED BY <2>1, <1>q, <1>c DEF Storage
<1> USE DEF Reads, Writes, ledger
<1>1. ASSUME NEW p \in Pollers, AcquireLock(p) \/ Repair(p) \/ Guard(p)
      PROVE  Storage'
  <2>1. Moves(p) BY <1>1, RepairMoves, GuardMoves
  <2>2. HasStored(poller[p])' BY <1>1, OutsideKeeps
  <2>3. cursor' = cursor /\ (<<rows, since>>' = <<rows, since>> \/ Running(p))
    BY <1>1 DEF AcquireLock, Repair, SyncPairs, BackfillFees, HealTraders,
      CheckPositions, SnapshotSwaps, ReplaySwap, LoadCursor, Guard, VerifyHeight,
      CompareHash, ReadMarker, Running, At
  <2> QED BY <2>1, <2>2, <2>3, <1>c, <1>o
<1>2. ASSUME NEW p \in Pollers, Ingest(p) PROVE Storage'
  <2>1. Moves(p) BY <1>2, IngestMoves
  <2>2. HasStored(poller[p])' BY <1>2, OutsideKeeps, WritingKeeps DEF Ingest
  <2>3. Running(p)
    BY <1>2 DEF Ingest, FetchHash, FetchTxs, DiscoverPair, PassOver, CheckExists,
        TooLarge, InsertRow, Running, At,
      InsertConflict, IngestFee, UpdateCandles, UpdateTrader, UpdatePosition,
      EndOfBlock, Commit, ClearFailed
  <2>4. NothingSkipped'
    <3>1. CASE Commit(p)
      <4>1. cursor'.height = Height(p) BY <3>1 DEF Commit
      <4>2. \A h \in 1..cursor'.height : Covered(h)' BY <3>1, <4>1, CommitCovered
      <4> QED BY <4>2 DEF NothingSkipped
    <3>2. CASE ~Commit(p)
      BY <3>2, <1>2, <1>c DEF Ingest, FetchHash, FetchTxs, DiscoverPair, PassOver,
        CheckExists, TooLarge, InsertRow,
        InsertConflict, IngestFee, UpdateCandles, UpdateTrader, UpdatePosition,
        EndOfBlock, ClearFailed
    <3> QED BY <3>1, <3>2
  <2> QED BY <2>1, <2>2, <2>3, <2>4, <1>o
<1>3. ASSUME NEW p \in Pollers,
             RepairFails(p) \/ Outage(p) \/ LcdError(p) \/ ReadFails(p)
               \/ WriteFails(p) \/ Restart(p) \/ LeadershipLost(p)
      PROVE  Storage'
  <2>1. Moves(p) BY <1>3, FaultMoves
  <2>2. HasStored(poller[p])' BY <1>3, OutsideKeeps
  <2>3. rows' = rows /\ since' = since /\ cursor' = cursor
    BY <1>3 DEF RepairFails, Outage, LcdError, ReadFails, WriteFails, Restart,
      LeadershipLost
  <2> QED BY <2>1, <2>2, <2>3, <1>c, <1>o
<1>4. ASSUME NEW p \in Pollers, LoseSession(p) PROVE Storage'
  BY <1>4, <1>q DEF LoseSession
<1>5. ASSUME NEW h \in 1..Tip, Reorg(h) PROVE Storage'
  BY <1>5, <1>q DEF Reorg
<1>6. CASE UNCHANGED vars BY <1>6, <1>q DEF vars
<1> QED BY <1>1, <1>2, <1>3, <1>4, <1>5, <1>6 DEF Next, Work, Fails

-----------------------------------------------------------------------------
(* The hash a poller fetched is no younger than the transactions it read. *)

Dated(r) ==
  /\ r.pc \in {"txs"} \cup Writing => r.hash <= chain[r.last + 1]
  /\ r.pc \in Writing => r.hash <= r.branch /\ r.branch <= chain[r.last + 1]

Hashes ==
  /\ HashTellsRows
  /\ cursor.height > 0 => cursor.hash <= chain[cursor.height]
  /\ \A p \in Pollers : Dated(poller[p])

LEMMA ChainGrows ==
  ASSUME Shape, [Next]_vars
  PROVE  \A h \in 1..Tip : chain[h] \in 0..MaxBranch /\ chain'[h] \in 0..MaxBranch
                            /\ chain[h] <= chain'[h]
<1> USE DEF Reads, Writes
<1>t. chain \in [1..Tip -> 0..MaxBranch] BY DEF Shape, TypeOK
<1>s. chain' \in [1..Tip -> 0..MaxBranch] BY ShapeStep DEF Shape, TypeOK
<1>1. ASSUME NEW p \in Pollers, Work(p) \/ Fails(p) \/ LeadershipLost(p)
      PROVE  chain' = chain
  BY <1>1 DEF Work, AcquireLock, Repair, SyncPairs, BackfillFees, HealTraders,
    CheckPositions, SnapshotSwaps, ReplaySwap, LoadCursor, Guard, VerifyHeight, CompareHash,
    ReadMarker, Ingest, FetchHash, FetchTxs, DiscoverPair, PassOver, CheckExists,
        TooLarge, InsertRow,
    InsertConflict, IngestFee, UpdateCandles, UpdateTrader, UpdatePosition,
    EndOfBlock, Commit, ClearFailed, Fails, RepairFails, Outage, LcdError,
    ReadFails, WriteFails, Restart, LoseSession, LeadershipLost
<1>2. ASSUME NEW k \in 1..Tip, Reorg(k)
      PROVE  \A h \in 1..Tip : chain'[h] \in {chain[h], chain[h] + 1}
  BY <1>2, <1>t DEF Reorg
<1>3. CASE UNCHANGED vars BY <1>3, <1>t, <1>s, BlockAssumption DEF vars
<1>4. CASE \E k \in 1..Tip : Reorg(k)
  <2>1. \A h \in 1..Tip : chain'[h] \in {chain[h], chain[h] + 1} BY <1>4, <1>2
  <2>2. \A h \in 1..Tip : chain[h] \in 0..MaxBranch /\ chain'[h] \in 0..MaxBranch
    BY <1>t, <1>s
  <2>3. \A a \in 0..MaxBranch : a <= a /\ a <= a + 1 BY BlockAssumption
  <2>4. ASSUME NEW h \in 1..Tip PROVE chain[h] <= chain'[h]
    <3>1. chain'[h] = chain[h] \/ chain'[h] = chain[h] + 1 BY <2>1
    <3> QED BY <3>1, <2>2, <2>3
  <2> QED BY <2>2, <2>4
<1>5. CASE chain' = chain BY <1>5, <1>t, <1>s, BlockAssumption
<1> QED BY <1>1, <1>3, <1>4, <1>5 DEF Next

\* What one poller does to the hash it holds.
LEMMA HashMoves ==
  ASSUME Shape, NEW p \in Pollers, Work(p) \/ Fails(p) \/ LeadershipLost(p),
         ~FetchHash(p), ~FetchTxs(p)
  PROVE  \/ poller'[p].pc \notin {"txs"} \cup Writing
         \/ poller'[p] = poller[p]
         \/ /\ poller[p].pc \in Writing
            /\ poller'[p].last = poller[p].last
            /\ poller'[p].hash = poller[p].hash
            /\ poller'[p].branch = poller[p].branch
<1> DEFINE Goal == \/ poller'[p].pc \notin {"txs"} \cup Writing
                   \/ poller'[p] = poller[p]
                   \/ /\ poller[p].pc \in Writing
                      /\ poller'[p].last = poller[p].last
                      /\ poller'[p].hash = poller[p].hash
                      /\ poller'[p].branch = poller[p].branch
<1>t. poller \in [Pollers -> Poller] /\ poller[p] \in Poller BY DEF Shape, TypeOK
<1>g. ASSUME NEW pc, Goto(p, pc), pc \notin {"txs"} \cup Writing PROVE Goal
  <2>1. poller'[p].pc = pc BY <1>g, <1>t DEF Goto, Poller
  <2> QED BY <2>1, <1>g
<1>b. ASSUME NEW r, Become(p, r), r.pc \notin {"txs"} \cup Writing PROVE Goal
  BY <1>b, <1>t DEF Become
<1>w. ASSUME poller[p].pc \in Writing,
             \/ \E pc : Goto(p, pc)
             \/ Become(p, Done(p))
             \/ Become(p, [poller[p] EXCEPT !.pc = "insert", !.replayed = FALSE])
             \/ Become(p, [poller[p] EXCEPT !.pc = "fee", !.replayed = TRUE])
      PROVE  Goal
  BY <1>w, <1>t DEF Goto, Become, Done, Poller
<1> SUFFICES Goal OBVIOUS
<1> HIDE DEF Goal
<1>1. CASE AcquireLock(p) BY <1>1, <1>g DEF AcquireLock, Writing
<1>2. CASE Repair(p)
  <2>1. CASE SnapshotSwaps(p) \/ ReplaySwap(p) \/ LoadCursor(p)
    <3> DEFINE s == [poller[p] EXCEPT !.pc = "replay", !.left = Cardinality(Indexed)]
               l == [poller[p] EXCEPT !.left = @ - 1]
               c == [poller[p] EXCEPT !.pc = "verify", !.last = cursor.height]
    <3>1. /\ s.pc = "replay" /\ c.pc = "verify"
          /\ l.pc = poller[p].pc
      BY <1>t DEF Poller
    <3>2. \/ Become(p, s) \/ Become(p, c) \/ Goto(p, "load")
          \/ poller[p].pc = "replay" /\ Become(p, l)
      BY <2>1 DEF SnapshotSwaps, ReplaySwap, LoadCursor, At
    <3> HIDE DEF s, l, c
    <3> QED BY <3>1, <3>2, <1>g, <1>b DEF Writing
  <2>2. CASE SyncPairs(p) \/ BackfillFees(p) \/ HealTraders(p) \/ CheckPositions(p)
    <3>1. \E pc \in {"backfill", "traders", "positions", "load", "snapshot"} : Goto(p, pc)
      BY <2>2 DEF SyncPairs, BackfillFees, HealTraders, CheckPositions
    <3> QED BY <3>1, <1>g DEF Writing
  <2> QED BY <1>2, <2>1, <2>2 DEF Repair
<1>3. CASE Guard(p)
  <2> DEFINE m == [poller[p] EXCEPT !.pc = "marker"]
             h == [poller[p] EXCEPT !.last = cursor.height]
             c == [poller[p] EXCEPT !.pc = "compare", !.hash = cursor.hash]
             a == [poller[p] EXCEPT !.pc = "hash", !.attempt = 1]
  <2>1. \/ VerifyHeight(p) /\ (Become(p, m) \/ Become(p, h) \/ Become(p, c))
        \/ Goto(p, "halted") \/ Goto(p, "marker") \/ Become(p, a)
    BY <1>3 DEF Guard, VerifyHeight, CompareHash, ReadMarker, Become
  <2>2. m.pc = "marker" /\ c.pc = "compare" /\ a.pc = "hash" /\ h.pc = poller[p].pc
    BY <1>t DEF Poller
  <2>3. VerifyHeight(p) => poller[p].pc = "verify" BY DEF VerifyHeight, At
  <2> HIDE DEF m, h, c, a
  <2> QED BY <2>1, <2>2, <2>3, <1>g, <1>b DEF Writing
<1>4. CASE Ingest(p)
  <2>1. CASE CheckExists(p)
    BY <2>1, <1>w DEF CheckExists, At, Become, Writing
  <2>2. CASE InsertRow(p)
    <3>1. Become(p, Done(p)) \/ Goto(p, "fee") BY <2>2 DEF InsertRow, Become, Goto
    <3> QED BY <3>1, <2>2, <1>w DEF InsertRow, At, Writing
  <2>3. CASE IngestFee(p)
    <3>1. Become(p, Done(p)) \/ Goto(p, "candle") BY <2>3 DEF IngestFee, Become, Goto
    <3> QED BY <3>1, <2>3, <1>w DEF IngestFee, At, Writing
  <2>6. CASE PassOver(p) \/ TooLarge(p)
    BY <2>6, <1>w DEF PassOver, TooLarge, At, Writing
  <2>7. CASE DiscoverPair(p) BY <2>7 DEF DiscoverPair, Goal
  <2>4. CASE \/ InsertConflict(p) \/ UpdateCandles(p) \/ UpdateTrader(p)
             \/ UpdatePosition(p) \/ EndOfBlock(p) \/ Commit(p)
    BY <2>4, <1>w DEF InsertConflict, UpdateCandles, UpdateTrader, UpdatePosition,
                      EndOfBlock, Commit, At, Writing
  <2>5. CASE ClearFailed(p)
    <3> DEFINE r == [poller[p] EXCEPT !.pc = "verify", !.last = Height(p)]
    <3>1. r.pc = "verify" BY <1>t DEF Poller
    <3>2. Become(p, r) BY <2>5 DEF ClearFailed
    <3> HIDE DEF r
    <3> QED BY <3>1, <3>2, <1>b DEF Writing
  <2> QED BY <1>4, <2>1, <2>2, <2>3, <2>4, <2>5, <2>6, <2>7 DEF Ingest
<1>5. CASE RepairFails(p)
  <2> DEFINE r(pc) == [poller[p] EXCEPT !.pc = pc,
                         !.healed = @ /\ At(p, "backfill")]
  <2>1. PICK pc \in {"traders", "positions", "load"} : Become(p, r(pc))
    BY <1>5 DEF RepairFails
  <2>2. r(pc).pc = pc BY <1>t DEF Poller
  <2> HIDE DEF r
  <2> QED BY <2>1, <2>2, <1>b DEF Writing
<1>6. CASE Outage(p)
  <2>1. Goto(p, "verify") \/ Goto(p, "hash") BY <1>6 DEF Outage
  <2> QED BY <2>1, <1>g DEF Writing
<1>7. CASE LcdError(p)
  <2> DEFINE r == [poller[p] EXCEPT !.pc = "hash", !.attempt = @ + 1]
  <2>1. r.pc = "hash" BY <1>t DEF Poller
  <2>2. Goto(p, "halted") \/ Become(p, r) BY <1>7 DEF LcdError
  <2> HIDE DEF r
  <2> QED BY <2>1, <2>2, <1>g, <1>b DEF Writing
<1>8. CASE ReadFails(p) \/ WriteFails(p) \/ LeadershipLost(p)
  BY <1>8, <1>g DEF ReadFails, WriteFails, LeadershipLost, Writing
<1>9. CASE Restart(p)
  <2>1. Become(p, Waiting) /\ Waiting.pc = "waiting" BY <1>9 DEF Restart, Waiting
  <2> QED BY <2>1, <1>b DEF Writing
<1>10. CASE LoseSession(p) BY <1>10 DEF LoseSession, Goal
<1> QED
  BY <1>1, <1>2, <1>3, <1>4, <1>5, <1>6, <1>7, <1>8, <1>9, <1>10 DEF Work, Fails

LEMMA HashesStep == Shape /\ Founded /\ Storage /\ Hashes /\ [Next]_vars => Hashes'
<1> SUFFICES ASSUME Shape, Founded, Storage, Hashes, [Next]_vars PROVE Hashes'
  OBVIOUS
<1>t. /\ poller \in [Pollers -> Poller]
      /\ chain \in [1..Tip -> 0..MaxBranch]
      /\ cursor \in [height : 0..Tip, hash : 0..MaxBranch]
      /\ \A p \in Pollers : poller[p] \in Poller
  BY DEF Shape, TypeOK
<1>s. Shape' BY ShapeStep
<1>g. \A h \in 1..Tip : /\ chain[h] \in 0..MaxBranch /\ chain'[h] \in 0..MaxBranch
                        /\ chain[h] <= chain'[h]
  BY ChainGrows
<1>r. ASSUME NEW p \in Pollers, poller[p].pc \in AtBlock
      PROVE  /\ poller[p].last + 1 \in 1..Tip
             /\ poller[p].hash \in 0..MaxBranch /\ poller[p].branch \in 0..MaxBranch
  <2>1. poller[p].last < Tip /\ poller[p].last \in 0..Tip
    BY <1>r, <1>t DEF Shape, Ranged, Poller
  <2>2. poller[p].last + 1 \in 1..Tip BY <2>1, BlockAssumption
  <2>3. poller[p].hash \in 0..MaxBranch /\ poller[p].branch \in 0..MaxBranch
    BY <1>t DEF Poller
  <2> QED BY <2>2, <2>3
<1>i. \A a, b, c \in 0..MaxBranch :
        a <= b /\ b <= c => a <= c /\ (c = a => b = a)
  BY BlockAssumption
<1>d. ASSUME NEW p \in Pollers, Dated(poller[p]), poller'[p].pc \in {"txs"} \cup Writing,
             poller[p].pc \in {"txs"} \cup Writing,
             poller'[p].pc \in Writing => poller[p].pc \in Writing,
             poller'[p].last = poller[p].last, poller'[p].hash = poller[p].hash,
             poller'[p].branch = poller[p].branch
      PROVE  Dated(poller[p])'
  <2> DEFINE h == poller[p].last + 1
  <2>1. /\ h \in 1..Tip
        /\ poller[p].hash \in 0..MaxBranch /\ poller[p].branch \in 0..MaxBranch
    BY <1>d, <1>r DEF AtBlock
  <2>2. chain[h] \in 0..MaxBranch /\ chain'[h] \in 0..MaxBranch /\ chain[h] <= chain'[h]
    BY <2>1, <1>g
  <2>3. poller[p].hash <= chain[h]
        /\ (poller[p].pc \in Writing =>
              poller[p].hash <= poller[p].branch /\ poller[p].branch <= chain[h])
    BY <1>d DEF Dated
  <2>4. poller'[p].last + 1 = h BY <1>d
  <2> HIDE DEF h
  <2>5. poller[p].hash <= chain'[h] BY <2>1, <2>2, <2>3, <1>i
  <2>6. poller[p].pc \in Writing => poller[p].branch <= chain'[h]
    BY <2>1, <2>2, <2>3, <1>i
  <2> QED BY <2>3, <2>4, <2>5, <2>6, <1>d DEF Dated
<1>e. ASSUME NEW p \in Pollers, poller'[p] = poller[p] PROVE Dated(poller[p])'
  <2>1. CASE poller[p].pc \in {"txs"} \cup Writing
    BY <2>1, <1>e, <1>d DEF Hashes
  <2>2. CASE poller[p].pc \notin {"txs"} \cup Writing BY <2>2, <1>e DEF Dated
  <2> QED BY <2>1, <2>2
<1>1. ASSUME NEW p \in Pollers, Work(p) \/ Fails(p) \/ LeadershipLost(p)
      PROVE  Dated(poller[p])'
  <2>1. CASE FetchHash(p)
    <3> DEFINE r == [poller[p] EXCEPT !.pc = "txs", !.hash = chain[Height(p)]]
    <3>1. r.pc = "txs" /\ r.last = poller[p].last /\ r.hash = chain[Height(p)]
      BY <1>t DEF Poller
    <3>2. poller'[p] = r /\ chain' = chain BY <2>1, <1>t DEF FetchHash, Become, Reads
    <3> HIDE DEF r
    <3>3. Height(p) \in 1..Tip BY <2>1, <1>r DEF FetchHash, At, AtBlock, Height
    <3>4. chain[Height(p)] <= chain[Height(p)] BY <3>3, <1>t, BlockAssumption
    <3> QED BY <3>1, <3>2, <3>4 DEF Dated, Writing, Height
  <2>2. CASE FetchTxs(p)
    <3> DEFINE r == [poller[p] EXCEPT !.pc = "next", !.done = 0,
                       !.branch = chain[Height(p)]]
    <3>1. r.pc = "next" /\ r.last = poller[p].last /\ r.hash = poller[p].hash
          /\ r.branch = chain[Height(p)]
      BY <1>t DEF Poller
    <3>2. poller'[p] = r /\ chain' = chain /\ poller[p].pc = "txs"
      BY <2>2, <1>t DEF FetchTxs, Become, Reads, At
    <3> HIDE DEF r
    <3>3. poller[p].hash <= chain[Height(p)] BY <3>2 DEF Hashes, Dated, Height
    <3>4. Height(p) \in 1..Tip BY <3>2, <1>r DEF AtBlock, Height
    <3>5. chain[Height(p)] <= chain[Height(p)] BY <3>4, <1>t, BlockAssumption
    <3> QED BY <3>1, <3>2, <3>3, <3>5 DEF Dated, Writing, Height
  <2>3. CASE ~FetchHash(p) /\ ~FetchTxs(p)
    <3>1. CASE poller'[p].pc \notin {"txs"} \cup Writing BY <3>1 DEF Dated
    <3>2. CASE poller'[p] = poller[p] BY <3>2, <1>e
    <3>3. CASE /\ poller'[p].pc \in {"txs"} \cup Writing
               /\ poller[p].pc \in Writing
               /\ poller'[p].last = poller[p].last
               /\ poller'[p].hash = poller[p].hash
               /\ poller'[p].branch = poller[p].branch
      BY <3>3, <1>d DEF Hashes
    <3> QED BY <3>1, <3>2, <3>3, <2>3, <1>1, HashMoves
  <2> QED BY <2>1, <2>2, <2>3
<1>2. \A p \in Pollers : Dated(poller[p])'
  <2>1. ASSUME NEW p \in Pollers, Work(p) \/ Fails(p) \/ LeadershipLost(p),
               NEW q \in Pollers, q # p
        PROVE  poller'[q] = poller[q]
    <3>1. CASE LoseSession(p) BY <3>1 DEF LoseSession
    <3>2. CASE ~LoseSession(p)
      <4>1. Moves(p)
        BY <3>2, <2>1, RepairMoves, GuardMoves, IngestMoves, FaultMoves
        DEF Work, Fails
      <4> QED BY <4>1, <2>1, <1>t DEF Moves, Become
    <3> QED BY <3>1, <3>2
  <2>2. ASSUME NEW h \in 1..Tip, Reorg(h) PROVE poller' = poller BY <2>2 DEF Reorg
  <2> QED BY <2>1, <2>2, <1>1, <1>e DEF Next, vars
<1>3. cursor' = cursor \/ \E p \in Pollers : Commit(p)
  <2>1. ASSUME NEW p \in Pollers, Work(p) \/ Fails(p) \/ LeadershipLost(p), ~Commit(p)
        PROVE  cursor' = cursor
    BY <2>1 DEF Reads, Writes, Work, AcquireLock, Repair, SyncPairs, BackfillFees,
      HealTraders, CheckPositions, SnapshotSwaps, ReplaySwap, LoadCursor, Guard, VerifyHeight,
      CompareHash, ReadMarker, Ingest, FetchHash, FetchTxs, DiscoverPair, PassOver,
      CheckExists, TooLarge, InsertRow,
      InsertConflict, IngestFee, UpdateCandles, UpdateTrader, UpdatePosition,
      EndOfBlock, ClearFailed, Fails, RepairFails, Outage, LcdError,
      ReadFails, WriteFails, Restart, LoseSession, LeadershipLost
  <2>2. ASSUME NEW h \in 1..Tip, Reorg(h) PROVE cursor' = cursor BY <2>2 DEF Reorg
  <2> QED BY <2>1, <2>2 DEF Next, vars
<1>5. CASE cursor' = cursor
  <2>1. ASSUME cursor.height > 0
        PROVE  /\ cursor.hash <= chain'[cursor.height]
               /\ chain'[cursor.height] = cursor.hash =>
                    chain[cursor.height] = cursor.hash
    <3>1. cursor.height \in 1..Tip /\ cursor.hash \in 0..MaxBranch BY <2>1, <1>t
    <3>2. cursor.hash <= chain[cursor.height] BY <2>1 DEF Hashes
    <3>3. /\ chain[cursor.height] \in 0..MaxBranch
          /\ chain'[cursor.height] \in 0..MaxBranch
          /\ chain[cursor.height] <= chain'[cursor.height]
      BY <3>1, <1>g
    <3> QED BY <3>1, <3>2, <3>3, <1>i
  <2>2. ASSUME cursor.height > 0, chain[cursor.height] = cursor.hash
        PROVE  Stored(Block[cursor.height][cursor.hash], cursor.height)'
    <3>1. PICK h, b : h = cursor.height /\ b = cursor.hash OBVIOUS
    <3>5. cursor.height \in 1..Tip /\ cursor.hash \in 0..MaxBranch BY <2>2, <1>t
    <3>2. h \in 1..Tip /\ b \in 0..MaxBranch /\ h <= cursor.height
      BY <3>1, <3>5, BlockAssumption
    <3>3. Stored(Block[h][b], h) BY <2>2, <3>1 DEF Hashes, HashTellsRows
    <3>4. Stored(Block[h][b], h)' BY <3>2, <3>3, StoredStays DEF Within
    <3> QED BY <3>1, <3>4, <1>5 DEF Stored, Indexable
  <2>3. HashTellsRows'
    BY <2>1, <2>2, <1>5 DEF HashTellsRows, Stored, Indexable
  <2> QED BY <2>1, <2>3, <1>2, <1>5 DEF Hashes
<1>6. ASSUME NEW p \in Pollers, Commit(p) PROVE Hashes'
  <2>1. /\ cursor'.height = Height(p) /\ cursor'.hash = poller[p].hash
        /\ chain' = chain /\ poller[p].pc = "commit"
    BY <1>6 DEF Commit, At
  <2>2. Height(p) \in 1..Tip /\ poller[p].hash \in 0..MaxBranch
        /\ poller[p].branch \in 0..MaxBranch
    BY <2>1, <1>r DEF AtBlock, Writing, Height
  <2>3. poller[p].hash <= chain[Height(p)] /\ poller[p].hash <= poller[p].branch
        /\ poller[p].branch <= chain[Height(p)]
    BY <2>1 DEF Hashes, Dated, Writing, Height
  <2>4. Stored(Block[Height(p)][poller[p].branch], Height(p)) /\ since' = since
    BY <1>6, CommitCovered DEF Commit
  <2>5. chain[Height(p)] \in 0..MaxBranch BY <2>2, <1>t
  <2>6. chain[Height(p)] = poller[p].hash => poller[p].branch = poller[p].hash
    BY <2>2, <2>3, <2>5, BlockAssumption
  <2> PICK h, x, b : h = Height(p) /\ x = poller[p].hash /\ b = poller[p].branch
    OBVIOUS
  <2>7. chain[h] = x => Stored(Block[h][x], h)'
    BY <2>2, <2>4, <2>6, StoredStays DEF Within
  <2>8. HashTellsRows'
    BY <2>1, <2>7 DEF HashTellsRows, Stored, Indexable
  <2> QED BY <2>1, <2>3, <2>8, <1>2 DEF Hashes
<1> QED BY <1>3, <1>5, <1>6

-----------------------------------------------------------------------------
(* What the projections still owe the swap at hand, while one poller writes. *)

N == Cardinality(Indexed)
Due(r, phases) ==
  IF r.pc \in phases \/ (r.pc = "fee" /\ ~r.replayed /\ EventOf(r) \in Swaps)
  THEN 1 ELSE 0
DueCandle(r) == Due(r, {"candle"})
DueTrade(r) == Due(r, {"candle", "trade"})
DuePosition(r) == Due(r, {"candle", "trade", "position"})
AfterRepairs == {"load"} \cup Following \cup Writing

Owed(r) ==
  /\ candles + DueCandle(r) <= N
  /\ trades + DueTrade(r) <= N
  /\ positions + DuePosition(r) <= N
  /\ r.pc = "snapshot" => positions = 0
  /\ r.pc = "replay" => positions + r.left = N
  /\ r.pc = "insert" => ~r.replayed
  /\ r.healed /\ r.pc \in {"positions", "snapshot", "replay"} => trades = N
  /\ r.healed /\ r.pc \in AfterRepairs =>
       trades + DueTrade(r) = N /\ positions + DuePosition(r) = N

Counts ==
  ~lost => /\ candles <= N /\ trades <= N /\ positions <= N
           /\ \A p \in Pollers : Owed(poller[p])

LEMMA CountTyped ==
  ASSUME TypeOK
  PROVE  candles \in Nat /\ trades \in Nat /\ positions \in Nat /\ N \in Nat
<1>1. IsFiniteSet(Indexed) BY BlockAssumption, FS_Subset DEF Indexed
<1> QED BY <1>1, FS_CardinalityType DEF N, TypeOK

\* A new row of a swap is one more swap; any other row is none.
LEMMA OneMore ==
  ASSUME TypeOK, NEW e \in Events, rows' = rows \cup {e}, e \notin rows \cap Swaps
  PROVE  N' = IF e \in Swaps THEN N + 1 ELSE N
<1>1. IsFiniteSet(Indexed) BY BlockAssumption, FS_Subset DEF Indexed
<1>2. CASE e \in Swaps
  <2>1. Indexed' = Indexed \cup {e} /\ e \notin Indexed BY <1>2 DEF Indexed
  <2>2. Cardinality(Indexed \cup {e}) = Cardinality(Indexed) + 1
    BY <1>1, <2>1, FS_AddElement
  <2> QED BY <2>1, <2>2, <1>2 DEF N
<1>3. CASE e \notin Swaps
  <2>1. Indexed' = Indexed BY <1>3 DEF Indexed
  <2> QED BY <2>1, <1>3 DEF N
<1> QED BY <1>2, <1>3

LEMMA DueIsOneOrNone ==
  ASSUME NEW r
  PROVE  /\ DueCandle(r) \in {0, 1} /\ DueTrade(r) \in {0, 1} /\ DuePosition(r) \in {0, 1}
         /\ r.pc \notin {"fee", "candle", "trade", "position"} =>
              DueCandle(r) = 0 /\ DueTrade(r) = 0 /\ DuePosition(r) = 0
BY DEF DueCandle, DueTrade, DuePosition, Due

LEMMA SameOwed ==
  ASSUME NEW p \in Pollers, NEW s, poller'[p] = s, Owed(s)'
  PROVE  Owed(poller[p])'
BY DEF Owed, DueCandle, DueTrade, DuePosition, Due, EventOf, TxsOf, AfterRepairs,
       Following, Writing

\* The one poller at work settles Counts.
LEMMA CountsBy ==
  ASSUME Shape, Shape', Mutex, NEW p \in Pollers, Moves(p), ~lost,
         \A q \in Pollers \ {p} : ~Running(q),
         NEW s, poller'[p] = s, Owed(s)'
  PROVE  Counts'
<1>t. poller \in [Pollers -> Poller] /\ TypeOK' BY DEF Shape, TypeOK
<1>1. (candles \in Nat /\ trades \in Nat /\ positions \in Nat /\ N \in Nat)'
  BY <1>t, CountTyped, PTL
<1>2. (candles <= N /\ trades <= N /\ positions <= N)'
  <2>1. DueCandle(s) \in {0, 1} /\ DueTrade(s) \in {0, 1} /\ DuePosition(s) \in {0, 1}
    BY DueIsOneOrNone
  <2>2. /\ candles' + DueCandle(s) <= N' /\ trades' + DueTrade(s) <= N'
        /\ positions' + DuePosition(s) <= N'
    BY DEF Owed, DueCandle, DueTrade, DuePosition, Due, EventOf, TxsOf
  <2> HIDE DEF N
  <2> QED BY <2>1, <2>2, <1>1
<1>3. ASSUME NEW q \in Pollers \ {p} PROVE Owed(poller[q])'
  <2>1. poller'[q] = poller[q] BY <1>3, <1>t DEF Moves, Become
  <2>2. PICK r : r = poller'[q] OBVIOUS
  <2>3. r.pc \in {"waiting", "halted"} BY <2>1, <2>2, <1>3 DEF Running
  <2>4. (DueCandle(r) = 0 /\ DueTrade(r) = 0 /\ DuePosition(r) = 0)'
    BY <2>3 DEF DueCandle, DueTrade, DuePosition, Due, EventOf, TxsOf
  <2>5. (r.pc \notin AfterRepairs)' BY <2>3 DEF AfterRepairs, Following, Writing
  <2>6. (candles + 0 <= N /\ trades + 0 <= N /\ positions + 0 <= N)'
    <3>1. \A a, b \in Nat : a <= b => a + 0 <= b OBVIOUS
    <3> QED BY <3>1, <1>1, <1>2
  <2>7. Owed(r)' BY <2>3, <2>4, <2>5, <2>6 DEF Owed
  <2> QED BY <2>2, <2>7, SameOwed
<1>4. Owed(poller[p])' BY SameOwed
<1> QED BY <1>2, <1>3, <1>4 DEF Counts

\* What Owed says after a step, in terms of the new totals.
LEMMA OwedNext ==
  ASSUME NEW s,
         /\ candles' + DueCandle(s) <= N'
         /\ trades' + DueTrade(s) <= N'
         /\ positions' + DuePosition(s) <= N'
         /\ s.pc = "snapshot" => positions' = 0
         /\ s.pc = "replay" => positions' + s.left = N'
         /\ s.pc = "insert" => ~s.replayed
         /\ s.healed /\ s.pc \in {"positions", "snapshot", "replay"} => trades' = N'
         /\ s.healed /\ s.pc \in AfterRepairs =>
              trades' + DueTrade(s) = N' /\ positions' + DuePosition(s) = N'
  PROVE  Owed(s)'
<1>1. DueCandle(s)' = DueCandle(s) /\ DueTrade(s)' = DueTrade(s)
      /\ DuePosition(s)' = DuePosition(s) /\ AfterRepairs' = AfterRepairs
  BY DEF DueCandle, DueTrade, DuePosition, Due, EventOf, TxsOf, AfterRepairs
<1> QED BY <1>1 DEF Owed

\* Steps between events, and those that end the work: no total moves.
LEMMA QuietOwed ==
  ASSUME TypeOK, NEW r, NEW s, Owed(r),
         N' = N, candles' = candles, trades' = trades, positions' = positions,
         s.pc \notin {"fee", "candle", "trade", "position", "snapshot", "replay"},
         s.pc = "insert" => ~s.replayed,
         s.pc = "positions" => ~s.healed,
         s.pc \in AfterRepairs /\ s.healed =>
           /\ r.healed /\ r.pc \in AfterRepairs
           /\ DueTrade(r) = 0 /\ DuePosition(r) = 0
  PROVE  Owed(s)'
<1>1. candles \in Nat /\ trades \in Nat /\ positions \in Nat /\ N \in Nat
  BY CountTyped
<1>2. DueCandle(s) = 0 /\ DueTrade(s) = 0 /\ DuePosition(s) = 0
  BY DueIsOneOrNone
<1>3. DueCandle(r) \in {0, 1} /\ DueTrade(r) \in {0, 1} /\ DuePosition(r) \in {0, 1}
  BY DueIsOneOrNone
<1>4. candles <= N /\ trades <= N /\ positions <= N
  <2>1. \A a, b \in Nat : \A d \in {0, 1} : a + d <= b => a <= b OBVIOUS
  <2> QED BY <2>1, <1>1, <1>3 DEF Owed
<1>5. \A a, b \in Nat : (a <= b => a + 0 <= b) /\ a + 0 = a OBVIOUS
<1>6. s.pc \in AfterRepairs /\ s.healed => trades + 0 = N /\ positions + 0 = N
  BY DEF Owed
<1> QED BY <1>1, <1>2, <1>4, <1>5, <1>6, OwedNext

\* A write of the swap at hand pays what its projection was owed.
LEMMA PaidOwed ==
  ASSUME TypeOK, NEW r, NEW s, Owed(r), N' = N,
         s.pc \notin {"insert", "snapshot", "replay", "positions"},
         s.pc \in AfterRepairs => r.pc \in AfterRepairs /\ s.healed = r.healed,
         candles' \in Nat, trades' \in Nat, positions' \in Nat,
         candles' + DueCandle(s) = candles + DueCandle(r),
         trades' + DueTrade(s) = trades + DueTrade(r),
         positions' + DuePosition(s) = positions + DuePosition(r)
  PROVE  Owed(s)'
BY OwedNext DEF Owed

\* The repairs: each sets its total to the swaps stored.
LEMMA RepairOwed ==
  ASSUME Shape, NEW p \in Pollers, Owed(poller[p]), Repair(p),
         NEW s, s = poller'[p]
  PROVE  Owed(s)'
<1>t. poller \in [Pollers -> Poller] /\ poller[p] \in Poller /\ TypeOK
  BY DEF Shape, TypeOK
<1>n. candles \in Nat /\ trades \in Nat /\ positions \in Nat /\ N \in Nat
  BY <1>t, CountTyped
<1>r. rows' = rows /\ candles' = candles
  BY DEF Repair, SyncPairs, BackfillFees, HealTraders, CheckPositions, SnapshotSwaps,
         ReplaySwap, LoadCursor, Reads, Writes, ledger, projections
<1>N. N' = N BY <1>r DEF N, Indexed
<1>a. \A a, b \in Nat : (a <= b => a + 0 <= b) /\ a + 0 = a /\ a <= a OBVIOUS
<1>o. ASSUME poller[p].pc \in Healing
      PROVE  candles <= N /\ trades <= N /\ positions <= N
  <2>1. DueCandle(poller[p]) = 0 /\ DueTrade(poller[p]) = 0 /\ DuePosition(poller[p]) = 0
    BY <1>o, DueIsOneOrNone DEF Healing
  <2> QED BY <2>1, <1>n, <1>a DEF Owed
<1>g. ASSUME NEW pc \in Phases, Goto(p, pc)
      PROVE  s.pc = pc /\ s.healed = poller[p].healed
  BY <1>g, <1>t DEF Goto, Poller
<1>7. CASE SyncPairs(p)
  <2>1. s.pc = "backfill" BY <1>7, <1>g DEF SyncPairs, Phases, Healing
  <2>2. trades' = trades /\ positions' = positions
    BY <1>7 DEF SyncPairs, ledger, projections
  <2>3. s.pc \notin AfterRepairs BY <2>1 DEF AfterRepairs, Following, Writing
  <2> QED BY <2>1, <2>2, <2>3, <1>t, <1>r, <1>N, QuietOwed
<1>1. CASE BackfillFees(p)
  <2>1. s.pc = "traders" BY <1>1, <1>g DEF BackfillFees, Phases, Healing
  <2>2. trades' = trades /\ positions' = positions
    BY <1>1 DEF BackfillFees, projections
  <2>3. s.pc \notin AfterRepairs BY <2>1 DEF AfterRepairs, Following, Writing
  <2> QED BY <2>1, <2>2, <2>3, <1>t, <1>r, <1>N, QuietOwed
<1>2. CASE HealTraders(p)
  <2>1. s.pc = "positions" BY <1>2, <1>g DEF HealTraders, Phases, Healing
  <2>2. trades' = N /\ positions' = positions
    BY <1>2 DEF HealTraders, projections, N
  <2>3. s.pc \notin AfterRepairs BY <2>1 DEF AfterRepairs, Following, Writing
  <2>4. DueCandle(s) = 0 /\ DueTrade(s) = 0 /\ DuePosition(s) = 0
    BY <2>1, DueIsOneOrNone
  <2>5. candles <= N /\ positions <= N BY <1>o, <1>2 DEF HealTraders, At, Healing
  <2> QED BY <2>1, <2>2, <2>3, <2>4, <2>5, <1>r, <1>N, <1>n, <1>a, OwedNext
<1>3. CASE CheckPositions(p)
  <2>1. candles <= N /\ trades <= N /\ positions <= N /\ poller[p].pc = "positions"
    BY <1>o, <1>3 DEF CheckPositions, At, Healing
  <2>2. poller[p].healed => trades = N BY <2>1 DEF Owed
  <2>3. trades' = trades BY <1>3 DEF CheckPositions
  <2>4. \/ positions = N /\ Goto(p, "load") /\ positions' = positions
        \/ Goto(p, "snapshot") /\ positions' = 0
    BY <1>3 DEF CheckPositions, N
  <2>5. CASE positions = N /\ Goto(p, "load") /\ positions' = positions
    <3>1. s.pc = "load" /\ s.healed = poller[p].healed
      BY <2>5, <1>g DEF Phases, Healing, Following
    <3>2. DueCandle(s) = 0 /\ DueTrade(s) = 0 /\ DuePosition(s) = 0
      BY <3>1, DueIsOneOrNone
    <3> QED BY <2>1, <2>2, <2>3, <2>5, <3>1, <3>2, <1>r, <1>N, <1>n, <1>a, OwedNext
  <2>6. CASE Goto(p, "snapshot") /\ positions' = 0
    <3>1. s.pc = "snapshot" /\ s.healed = poller[p].healed
      BY <2>6, <1>g DEF Phases, Healing
    <3>2. DueCandle(s) = 0 /\ DueTrade(s) = 0 /\ DuePosition(s) = 0
      BY <3>1, DueIsOneOrNone
    <3>3. s.pc \notin AfterRepairs BY <3>1 DEF AfterRepairs, Following, Writing
    <3>4. 0 + 0 <= N BY <1>n
    <3> QED BY <2>1, <2>2, <2>3, <2>6, <3>1, <3>2, <3>3, <3>4, <1>r, <1>N, <1>n, <1>a,
               OwedNext
  <2> QED BY <2>4, <2>5, <2>6
<1>4. CASE SnapshotSwaps(p)
  <2> DEFINE r == [poller[p] EXCEPT !.pc = "replay", !.left = Cardinality(Indexed)]
  <2>1. r.pc = "replay" /\ r.left = N /\ r.healed = poller[p].healed
    BY <1>t DEF Poller, N
  <2>2. s = r /\ poller[p].pc = "snapshot" BY <1>4, <1>t DEF SnapshotSwaps, Become, At
  <2> HIDE DEF r
  <2>3. positions' = positions /\ trades' = trades
    BY <1>4 DEF SnapshotSwaps, Reads, ledger, projections
  <2>4. candles <= N /\ trades <= N /\ positions = 0 /\ (r.healed => trades = N)
    BY <2>1, <2>2, <1>o DEF Owed, Healing
  <2>5. s.pc \notin AfterRepairs BY <2>1, <2>2 DEF AfterRepairs, Following, Writing
  <2>6. DueCandle(s) = 0 /\ DueTrade(s) = 0 /\ DuePosition(s) = 0
    BY <2>1, <2>2, DueIsOneOrNone
  <2>7. 0 + N = N /\ 0 + 0 <= N BY <1>n
  <2> QED BY <2>1, <2>2, <2>3, <2>4, <2>5, <2>6, <2>7, <1>r, <1>N, <1>n, <1>a, OwedNext
<1>5. CASE ReplaySwap(p)
  <2>1. /\ poller[p].pc = "replay" /\ trades' = trades /\ poller[p].left \in Nat
        /\ candles <= N /\ trades <= N /\ positions <= N
        /\ positions + poller[p].left = N /\ (poller[p].healed => trades = N)
    BY <1>5, <1>o, <1>t DEF ReplaySwap, At, Healing, Owed, Poller
  <2>2. CASE poller[p].left = 0
    <3>1. Goto(p, "load") /\ positions' = positions /\ positions = N
      BY <1>5, <2>1, <2>2, <1>n, <1>a DEF ReplaySwap
    <3>2. s.pc = "load" /\ s.healed = poller[p].healed
      BY <3>1, <1>g DEF Phases, Healing, Following
    <3>3. DueCandle(s) = 0 /\ DueTrade(s) = 0 /\ DuePosition(s) = 0
      BY <3>2, DueIsOneOrNone
    <3> QED BY <2>1, <3>1, <3>2, <3>3, <1>r, <1>N, <1>n, <1>a, OwedNext
  <2>3. CASE poller[p].left # 0
    <3> DEFINE r == [poller[p] EXCEPT !.left = @ - 1]
    <3>1. r.pc = "replay" /\ r.left = poller[p].left - 1 /\ r.healed = poller[p].healed
      BY <2>1, <1>t DEF Poller
    <3>2. s = r /\ positions' = positions + 1
      BY <1>5, <2>3, <1>t DEF ReplaySwap, Become
    <3> HIDE DEF r
    <3>3. positions' + s.left = N /\ positions' + 0 <= N
      BY <2>1, <2>3, <3>1, <3>2, <1>n
    <3>4. s.pc \notin AfterRepairs BY <3>1, <3>2 DEF AfterRepairs, Following, Writing
    <3>5. DueCandle(s) = 0 /\ DueTrade(s) = 0 /\ DuePosition(s) = 0
      BY <3>1, <3>2, DueIsOneOrNone
    <3> QED BY <2>1, <3>1, <3>2, <3>3, <3>4, <3>5, <1>r, <1>N, <1>n, <1>a, OwedNext
  <2> QED BY <2>2, <2>3
<1>6. CASE LoadCursor(p)
  <2> DEFINE r == [poller[p] EXCEPT !.pc = "verify", !.last = cursor.height]
  <2>1. r.pc = "verify" /\ r.healed = poller[p].healed BY <1>t DEF Poller
  <2>2. s = r /\ poller[p].pc = "load" BY <1>6, <1>t DEF LoadCursor, Become, At
  <2> HIDE DEF r
  <2>3. positions' = positions /\ trades' = trades
    BY <1>6 DEF LoadCursor, Reads, ledger, projections
  <2>4. poller[p].pc \in AfterRepairs BY <2>2 DEF AfterRepairs
  <2>5. DueTrade(poller[p]) = 0 /\ DuePosition(poller[p]) = 0
    BY <2>2, DueIsOneOrNone
  <2> QED BY <2>1, <2>2, <2>3, <2>4, <2>5, <1>t, <1>r, <1>N, QuietOwed
<1> QED BY <1>1, <1>2, <1>3, <1>4, <1>5, <1>6, <1>7 DEF Repair

LEMMA QuietSteps ==
  ASSUME Shape, NEW p \in Pollers, Owed(poller[p]),
         \/ AcquireLock(p) \/ Guard(p) \/ FetchHash(p) \/ FetchTxs(p)
         \/ DiscoverPair(p) \/ PassOver(p) \/ TooLarge(p)
         \/ CheckExists(p) \/ InsertConflict(p) \/ EndOfBlock(p) \/ Commit(p)
         \/ ClearFailed(p) \/ RepairFails(p) \/ Outage(p) \/ LcdError(p)
         \/ ReadFails(p) \/ WriteFails(p) \/ Restart(p) \/ LeadershipLost(p),
         NEW s, s = poller'[p]
  PROVE  Owed(s)'
<1> DEFINE o == poller[p]
<1>t. poller \in [Pollers -> Poller] /\ poller[p] \in Poller /\ TypeOK
  BY DEF Shape, TypeOK
<1>r. /\ rows' = rows /\ candles' = candles /\ trades' = trades
      /\ positions' = positions
  BY DEF AcquireLock, Guard, VerifyHeight, CompareHash, ReadMarker, FetchHash,
    FetchTxs, DiscoverPair, PassOver, TooLarge, CheckExists, InsertConflict,
    EndOfBlock, Commit, ClearFailed, RepairFails, Outage, LcdError, ReadFails,
    WriteFails, Restart, LeadershipLost,
    Reads, ledger, projections
<1>N. N' = N BY <1>r DEF N, Indexed
<1> USE DEF AfterRepairs, Following, Writing
<1>z. o.pc \in {"load", "next", "commit", "clear"} \cup Following =>
        DueTrade(o) = 0 /\ DuePosition(o) = 0
  BY DueIsOneOrNone
<1>1. ASSUME s.pc \in {"waiting", "halted", "sync", "backfill", "traders"} PROVE Owed(s)'
  BY <1>1, <1>t, <1>r, <1>N, QuietOwed
<1>2. ASSUME s.pc \in {"next", "commit", "clear"} \cup Following,
             s.healed = o.healed,
             o.pc \in {"load", "next", "commit", "clear"} \cup Following
      PROVE  Owed(s)'
  BY <1>2, <1>z, <1>t, <1>r, <1>N, QuietOwed
<1>3. ASSUME NEW pc, Goto(p, pc) PROVE s.pc = pc /\ s.healed = o.healed
  BY <1>3, <1>t DEF Goto, Poller
<1>4. CASE AcquireLock(p) BY <1>4, <1>3, <1>1 DEF AcquireLock
<1>5. CASE Guard(p)
  <2> DEFINE m == [poller[p] EXCEPT !.pc = "marker"]
             h == [poller[p] EXCEPT !.last = cursor.height]
             c == [poller[p] EXCEPT !.pc = "compare", !.hash = cursor.hash]
             a == [poller[p] EXCEPT !.pc = "hash", !.attempt = 1]
  <2>1. /\ o.pc \in Following
        /\ \/ o.pc = "verify" /\ (s = m \/ s = h \/ s = c)
           \/ Goto(p, "halted") \/ Goto(p, "marker") \/ s = a
    BY <1>5, <1>t DEF Guard, VerifyHeight, CompareHash, ReadMarker, Become, At
  <2>2. /\ m.pc = "marker" /\ m.healed = o.healed
        /\ c.pc = "compare" /\ c.healed = o.healed
        /\ a.pc = "hash" /\ a.healed = o.healed
        /\ h.pc = o.pc /\ h.healed = o.healed
    BY <1>t DEF Poller
  <2> HIDE DEF m, h, c, a, o
  <2> QED BY <2>1, <2>2, <1>1, <1>2, <1>3
<1>6. CASE FetchHash(p) \/ FetchTxs(p)
  <2> DEFINE a == [poller[p] EXCEPT !.pc = "txs", !.hash = chain[Height(p)]]
             b == [poller[p] EXCEPT !.pc = "next", !.done = 0,
                                    !.branch = chain[Height(p)]]
  <2>1. o.pc \in Following /\ (s = a \/ s = b)
    BY <1>6, <1>t DEF FetchHash, FetchTxs, Become, At
  <2>2. a.pc = "txs" /\ a.healed = o.healed /\ b.pc = "next" /\ b.healed = o.healed
    BY <1>t DEF Poller
  <2> HIDE DEF a, b, o
  <2> QED BY <2>1, <2>2, <1>2
<1>7. CASE CheckExists(p)
  <2> DEFINE i == [poller[p] EXCEPT !.pc = "insert", !.replayed = FALSE]
             f == [poller[p] EXCEPT !.pc = "fee", !.replayed = TRUE]
  <2>1. o.pc = "next" /\ (s = i \/ s = f \/ s = Done(p))
    BY <1>7, <1>t DEF CheckExists, Become, At
  <2>2. /\ i.pc = "insert" /\ ~i.replayed /\ i.healed = o.healed
        /\ f.pc = "fee" /\ f.replayed /\ f.healed = o.healed
        /\ Done(p).pc = "next" /\ Done(p).healed = o.healed
    BY <1>t DEF Poller, Done
  <2> HIDE DEF i, f, o
  <2>3. CASE s = Done(p) BY <2>1, <2>2, <2>3, <1>2
  <2>4. CASE s = i
    BY <2>1, <2>2, <2>4, <1>z, <1>t, <1>r, <1>N, QuietOwed DEF o
  <2>5. CASE s = f
    <3>1. DueCandle(s) = 0 /\ DueTrade(s) = 0 /\ DuePosition(s) = 0
      BY <2>2, <2>5 DEF DueCandle, DueTrade, DuePosition, Due
    <3>2. DueCandle(o) = 0 /\ DueTrade(o) = 0 /\ DuePosition(o) = 0
      BY <2>1, DueIsOneOrNone
    <3>3. candles \in Nat /\ trades \in Nat /\ positions \in Nat
      BY <1>t, CountTyped
    <3> QED BY <2>1, <2>2, <2>5, <3>1, <3>2, <3>3, <1>t, <1>r, <1>N, PaidOwed DEF o
  <2> QED BY <2>1, <2>3, <2>4, <2>5
<1>15. CASE DiscoverPair(p) \/ PassOver(p) \/ TooLarge(p)
  <2>1. o.pc = "next" /\ (s = o \/ s = Done(p))
    BY <1>15, <1>t DEF DiscoverPair, PassOver, TooLarge, Become, At
  <2>2. Done(p).pc = "next" /\ Done(p).healed = o.healed BY <1>t DEF Done, Poller
  <2> HIDE DEF o
  <2> QED BY <2>1, <2>2, <1>2
<1>8. CASE EndOfBlock(p) \/ Commit(p)
  <2>1. o.pc \in {"next", "commit"} /\ (Goto(p, "commit") \/ Goto(p, "clear"))
    BY <1>8 DEF EndOfBlock, Commit, At
  <2> HIDE DEF o
  <2> QED BY <2>1, <1>2, <1>3
<1>9. CASE ClearFailed(p)
  <2> DEFINE r == [poller[p] EXCEPT !.pc = "verify", !.last = Height(p)]
  <2>1. o.pc = "clear" /\ s = r BY <1>9, <1>t DEF ClearFailed, Become, At
  <2>2. r.pc = "verify" /\ r.healed = o.healed BY <1>t DEF Poller
  <2> HIDE DEF r, o
  <2> QED BY <2>1, <2>2, <1>2
<1>10. CASE RepairFails(p)
  <2> DEFINE r(pc) == [poller[p] EXCEPT !.pc = pc, !.healed = @ /\ At(p, "backfill")]
  <2>1. \/ At(p, "backfill") /\ Become(p, r("traders"))
        \/ ~At(p, "backfill") /\ (Become(p, r("positions")) \/ Become(p, r("load")))
    <3>1. At(p, "backfill") => ~At(p, "traders") BY DEF At
    <3> QED BY <3>1, <1>10 DEF RepairFails
  <2>2. r("traders").pc = "traders" /\ r("positions").pc = "positions"
        /\ r("load").pc = "load"
        /\ (~At(p, "backfill") => ~r("positions").healed /\ ~r("load").healed)
    BY <1>t DEF Poller
  <2>3. \/ s = r("traders")
        \/ ~At(p, "backfill") /\ (s = r("positions") \/ s = r("load"))
    BY <2>1, <1>t DEF Become
  <2> HIDE DEF r
  <2> QED BY <2>2, <2>3, <1>t, <1>r, <1>N, QuietOwed
<1>11. CASE Outage(p)
  <2>1. o.pc \in {"next"} \cup Following /\ (Goto(p, "verify") \/ Goto(p, "hash"))
    BY <1>11 DEF Outage
  <2> HIDE DEF o
  <2> QED BY <2>1, <1>2, <1>3
<1>12. CASE LcdError(p)
  <2> DEFINE r == [poller[p] EXCEPT !.pc = "hash", !.attempt = @ + 1]
  <2>1. r.pc = "hash" /\ r.healed = o.healed BY <1>t DEF Poller
  <2>2. o.pc \in Following /\ (Goto(p, "halted") \/ s = r)
    BY <1>12, <1>t DEF LcdError, Become
  <2> HIDE DEF r, o
  <2> QED BY <2>1, <2>2, <1>1, <1>2, <1>3
<1>13. CASE \/ InsertConflict(p) \/ ReadFails(p) \/ WriteFails(p) \/ LeadershipLost(p)
  <2>1. Goto(p, "halted")
    BY <1>13 DEF InsertConflict, ReadFails, WriteFails, LeadershipLost
  <2> QED BY <2>1, <1>1, <1>3
<1>14. CASE Restart(p)
  <2>1. s = Waiting /\ Waiting.pc = "waiting"
    BY <1>14, <1>t DEF Restart, Become, Waiting
  <2> QED BY <2>1, <1>1
<1> QED BY <1>4, <1>5, <1>6, <1>7, <1>8, <1>9, <1>10, <1>11, <1>12, <1>13, <1>14,
           <1>15

\* The writes of an event: a new row is owed to all three, each write pays one.
LEMMA WriteOwed ==
  ASSUME Shape, NEW p \in Pollers, Owed(poller[p]), ~lost, HasStored(poller[p]),
         \/ InsertRow(p) \/ IngestFee(p)
         \/ UpdateCandles(p) \/ UpdateTrader(p) \/ UpdatePosition(p),
         NEW s, s = poller'[p]
  PROVE  Owed(s)'
<1> DEFINE o == poller[p]
           e == Event(p)
<1>t. poller \in [Pollers -> Poller] /\ poller[p] \in Poller /\ TypeOK
  BY DEF Shape, TypeOK
<1>n. candles \in Nat /\ trades \in Nat /\ positions \in Nat /\ N \in Nat
  BY <1>t, CountTyped
<1>e. e = EventOf(o) BY DEF Event, EventOf, TxsOf, Txs, Height
<1>d. /\ o.pc = "insert" => DueCandle(o) = 0 /\ DueTrade(o) = 0 /\ DuePosition(o) = 0
      /\ o.pc = "candle" => DueCandle(o) = 1 /\ DueTrade(o) = 1 /\ DuePosition(o) = 1
      /\ o.pc = "trade" => DueCandle(o) = 0 /\ DueTrade(o) = 1 /\ DuePosition(o) = 1
      /\ o.pc = "position" => DueCandle(o) = 0 /\ DueTrade(o) = 0 /\ DuePosition(o) = 1
  BY DEF DueCandle, DueTrade, DuePosition, Due
<1>f. o.pc = "fee" => LET d == IF ~o.replayed /\ e \in Swaps THEN 1 ELSE 0
                      IN  DueCandle(o) = d /\ DueTrade(o) = d /\ DuePosition(o) = d
  BY <1>e DEF DueCandle, DueTrade, DuePosition, Due
<1>s. /\ s.pc = "next" => DueCandle(s) = 0 /\ DueTrade(s) = 0 /\ DuePosition(s) = 0
      /\ s.pc = "candle" => DueCandle(s) = 1 /\ DueTrade(s) = 1 /\ DuePosition(s) = 1
      /\ s.pc = "trade" => DueCandle(s) = 0 /\ DueTrade(s) = 1 /\ DuePosition(s) = 1
      /\ s.pc = "position" => DueCandle(s) = 0 /\ DueTrade(s) = 0 /\ DuePosition(s) = 1
  BY DEF DueCandle, DueTrade, DuePosition, Due
<1>g. ASSUME NEW pc, Goto(p, pc)
      PROVE  s.pc = pc /\ s.healed = o.healed /\ s.replayed = o.replayed
             /\ EventOf(s) = EventOf(o)
  BY <1>g, <1>t DEF Goto, Poller, EventOf, TxsOf
<1>D. Done(p).pc = "next" /\ Done(p).healed = o.healed BY <1>t DEF Done, Poller
<1>w. o.pc \in Writing => o.pc \in AfterRepairs BY DEF AfterRepairs
<1>a. \A a \in Nat : a + 0 = a /\ a + 1 = a + 1 + 0 OBVIOUS
<1> HIDE DEF o, e
<1>p. ASSUME o.pc \in {"fee", "candle", "trade", "position"},
             rows' = rows,
             s.pc \in {"next", "candle", "trade", "position"}, s.healed = o.healed,
             candles' \in Nat, trades' \in Nat, positions' \in Nat,
             candles' + DueCandle(s) = candles + DueCandle(o),
             trades' + DueTrade(s) = trades + DueTrade(o),
             positions' + DuePosition(s) = positions + DuePosition(o)
      PROVE  Owed(s)'
  <2>1. N' = N BY <1>p DEF N, Indexed
  <2> QED BY <2>1, <1>p, <1>w, <1>t, PaidOwed DEF Writing, o
<1>1. CASE InsertRow(p)
  <2>1. /\ o.pc = "insert" /\ rows' = rows \cup {e} /\ e \notin rows
        /\ candles' = candles /\ trades' = trades /\ positions' = positions
    BY <1>1, <1>e DEF InsertRow, At, projections, HasStored, o, e
  <2>2. Goto(p, "fee") BY <1>1, <2>1 DEF InsertRow, Goto, Become, e
  <2>3. s.pc = "fee" /\ s.healed = o.healed /\ ~s.replayed /\ EventOf(s) = e
    BY <2>1, <2>2, <1>g, <1>e DEF Owed, o
  <2>4. e \in Events
    <3>1. o.pc \in AtEvent BY <2>1 DEF AtEvent
    <3> QED BY <3>1, EventTyped DEF o, e
  <2>5. N' = IF e \in Swaps THEN N + 1 ELSE N BY <2>1, <2>4, <1>t, OneMore
  <2>6. LET d == IF e \in Swaps THEN 1 ELSE 0
        IN  DueCandle(s) = d /\ DueTrade(s) = d /\ DuePosition(s) = d /\ N' = N + d
    BY <2>3, <2>5, <1>n DEF DueCandle, DueTrade, DuePosition, Due
  <2>7. /\ candles + 0 <= N /\ trades + 0 <= N /\ positions + 0 <= N
        /\ (o.healed => trades + 0 = N /\ positions + 0 = N)
    BY <2>1, <1>d, <1>w DEF Owed, Writing, o
  <2>8. \A a, b \in Nat : \A d \in {0, 1} :
          (a + 0 <= b => a + d <= b + d) /\ (a + 0 = b => a + d = b + d)
    OBVIOUS
  <2> QED BY <2>1, <2>3, <2>6, <2>7, <2>8, <1>n, OwedNext
<1>2. CASE IngestFee(p)
  <2>1. /\ o.pc = "fee" /\ rows' = rows
        /\ candles' = candles /\ trades' = trades /\ positions' = positions
    BY <1>2 DEF IngestFee, At, projections, o
  <2>2. CASE e \in Swaps /\ ~o.replayed
    <3>1. Goto(p, "candle") BY <1>2, <2>2 DEF IngestFee, Goto, Become, e, o
    <3>2. s.pc = "candle" /\ s.healed = o.healed BY <3>1, <1>g
    <3> QED BY <2>1, <2>2, <3>2, <1>f, <1>s, <1>n, <1>p
  <2>3. CASE ~(e \in Swaps /\ ~o.replayed)
    <3>1. s = Done(p) BY <1>2, <2>3, <1>t DEF IngestFee, Become, e, o
    <3> QED BY <2>1, <2>3, <3>1, <1>D, <1>f, <1>s, <1>n, <1>p
  <2> QED BY <2>2, <2>3
<1>3. CASE UpdateCandles(p)
  <2>1. /\ o.pc = "candle" /\ rows' = rows /\ Goto(p, "trade")
        /\ candles' = candles + 1 /\ trades' = trades /\ positions' = positions
    BY <1>3 DEF UpdateCandles, At, o
  <2>2. s.pc = "trade" /\ s.healed = o.healed BY <2>1, <1>g
  <2> QED BY <2>1, <2>2, <1>d, <1>s, <1>n, <1>a, <1>p
<1>4. CASE UpdateTrader(p)
  <2>1. /\ o.pc = "trade" /\ rows' = rows /\ Goto(p, "position")
        /\ candles' = candles /\ trades' = trades + 1 /\ positions' = positions
    BY <1>4 DEF UpdateTrader, At, o
  <2>2. s.pc = "position" /\ s.healed = o.healed BY <2>1, <1>g
  <2> QED BY <2>1, <2>2, <1>d, <1>s, <1>n, <1>a, <1>p
<1>5. CASE UpdatePosition(p)
  <2>1. /\ o.pc = "position" /\ rows' = rows /\ s = Done(p)
        /\ candles' = candles /\ trades' = trades /\ positions' = positions + 1
    BY <1>5, <1>t DEF UpdatePosition, At, Become, o
  <2> QED BY <2>1, <1>D, <1>d, <1>s, <1>n, <1>a, <1>p
<1> QED BY <1>1, <1>2, <1>3, <1>4, <1>5

LEMMA CountsStep ==
  Shape /\ Mutex /\ Storage /\ Counts /\ [Next]_vars => Counts'
<1> SUFFICES ASSUME Shape, Mutex, Storage, Counts, [Next]_vars, ~lost' PROVE Counts'
  BY DEF Counts
<1>1. ~lost /\ Shape' /\ Mutex' BY Grows, ShapeStep, MutexStep
<1>2. \A p \in Pollers : Owed(poller[p]) /\ HasStored(poller[p])
  BY <1>1 DEF Counts, Storage
<1>3. ASSUME NEW p \in Pollers, Moves(p), Running(p) \/ AcquireLock(p),
             NEW s, s = poller'[p], Owed(s)'
      PROVE  Counts'
  <2>1. \A q \in Pollers \ {p} : ~Running(q)
    BY <1>1, <1>3, NobodyAssumption DEF Mutex, AcquireLock
  <2> QED BY <2>1, <1>1, <1>3, CountsBy
<1>4. ASSUME NEW p \in Pollers,
             \/ AcquireLock(p) \/ Guard(p) \/ FetchHash(p) \/ FetchTxs(p)
             \/ DiscoverPair(p) \/ PassOver(p) \/ TooLarge(p)
             \/ CheckExists(p) \/ InsertConflict(p) \/ EndOfBlock(p) \/ Commit(p)
             \/ ClearFailed(p) \/ RepairFails(p) \/ Outage(p) \/ LcdError(p)
             \/ WriteFails(p) \/ LeadershipLost(p)
      PROVE  Counts'
  <2>1. Moves(p)
    BY <1>4, RepairMoves, GuardMoves, IngestMoves, FaultMoves DEF Ingest
  <2>2. Running(p) \/ AcquireLock(p)
    BY <1>4 DEF Guard, VerifyHeight, CompareHash, ReadMarker, FetchHash, FetchTxs,
      DiscoverPair, PassOver, TooLarge, CheckExists, InsertConflict, EndOfBlock,
      Commit, ClearFailed, RepairFails,
      Outage, LcdError, WriteFails, LeadershipLost, Running, At, Healing, Writing
  <2>3. PICK s : s = poller'[p] OBVIOUS
  <2>4. Owed(s)' BY <2>3, <1>2, <1>4, QuietSteps
  <2> QED BY <2>1, <2>2, <2>3, <2>4, <1>3
<1>5. ASSUME NEW p \in Pollers, Repair(p) PROVE Counts'
  <2>1. Moves(p) BY <1>5, RepairMoves
  <2>2. Running(p)
    BY <1>5 DEF Repair, SyncPairs, BackfillFees, HealTraders, CheckPositions,
      SnapshotSwaps, ReplaySwap, LoadCursor, Running, At
  <2>3. PICK s : s = poller'[p] OBVIOUS
  <2>4. Owed(s)' BY <2>3, <1>2, <1>5, RepairOwed
  <2> QED BY <2>1, <2>2, <2>3, <2>4, <1>3
<1>6. ASSUME NEW p \in Pollers,
             \/ InsertRow(p) \/ IngestFee(p)
             \/ UpdateCandles(p) \/ UpdateTrader(p) \/ UpdatePosition(p)
      PROVE  Counts'
  <2>1. Moves(p) BY <1>6, IngestMoves DEF Ingest
  <2>2. Running(p)
    BY <1>6 DEF InsertRow, IngestFee, UpdateCandles, UpdateTrader, UpdatePosition,
      Running, At
  <2>3. PICK s : s = poller'[p] OBVIOUS
  <2>4. Owed(s)' BY <2>3, <1>1, <1>2, <1>6, WriteOwed
  <2> QED BY <2>1, <2>2, <2>3, <2>4, <1>3
\* A waiting or halted poller may fail or start afresh beside the one at work.
<1>7. ASSUME NEW p \in Pollers, ReadFails(p) \/ Restart(p) PROVE Counts'
  <2>1. Moves(p) BY <1>7, FaultMoves
  <2>2. poller \in [Pollers -> Poller] BY DEF Shape, TypeOK
  <2>3. /\ rows' = rows /\ candles' = candles /\ trades' = trades
        /\ positions' = positions
    BY <1>7 DEF ReadFails, Restart, ledger, projections
  <2>4. N' = N BY <2>3 DEF N, Indexed
  <2>5. ASSUME NEW q \in Pollers PROVE Owed(poller[q])'
    <3>1. PICK s : s = poller'[q] OBVIOUS
    <3>2. CASE q = p
      <4>1. Owed(s)' BY <3>1, <3>2, <1>2, <1>7, QuietSteps
      <4> QED BY <3>1, <4>1, SameOwed
    <3>3. CASE q # p
      <4>1. poller'[q] = poller[q] BY <3>3, <2>1, <2>2 DEF Moves, Become
      <4>2. Owed(s) BY <3>1, <4>1, <1>2
      <4>3. Owed(s)' BY <4>2, <2>3, <2>4, OwedNext DEF Owed
      <4> QED BY <3>1, <4>3, SameOwed
    <3> QED BY <3>2, <3>3
  <2>6. candles <= N /\ trades <= N /\ positions <= N BY <1>1 DEF Counts
  <2> QED BY <2>3, <2>4, <2>5, <2>6 DEF Counts
<1>8. ASSUME NEW p \in Pollers, LoseSession(p) PROVE Counts'
  BY <1>8 DEF LoseSession
<1>9. ASSUME UNCHANGED <<rows, candles, trades, positions, poller>> PROVE Counts'
  <2>1. N' = N BY <1>9 DEF N, Indexed
  <2>2. ASSUME NEW q \in Pollers PROVE Owed(poller[q])'
    <3>1. PICK s : s = poller'[q] OBVIOUS
    <3>2. Owed(s) BY <3>1, <1>2, <1>9
    <3>3. Owed(s)' BY <3>2, <2>1, <1>9, OwedNext DEF Owed
    <3> QED BY <3>1, <3>3, SameOwed
  <2>3. candles <= N /\ trades <= N /\ positions <= N BY <1>1 DEF Counts
  <2> QED BY <2>1, <2>2, <2>3, <1>9 DEF Counts
<1>10. ASSUME NEW h \in 1..Tip, Reorg(h) PROVE Counts'
  BY <1>10, <1>9 DEF Reorg, ledger, projections
<1>11. CASE UNCHANGED vars BY <1>11, <1>9 DEF vars, ledger, projections
<1> QED BY <1>4, <1>5, <1>6, <1>7, <1>8, <1>10, <1>11
        DEF Next, Work, Ingest, Fails

-----------------------------------------------------------------------------
IInv == Shape /\ Mutex /\ Founded /\ Storage /\ Hashes /\ Counts

LEMMA IInvInit == Init => IInv
<1> SUFFICES ASSUME Init PROVE IInv OBVIOUS
<1>1. Shape BY ShapeInit
<1>2. \A p \in Pollers : poller[p] = Waiting BY DEF Init
<1>3. Waiting.pc = "waiting" /\ Waiting.last = 0 BY DEF Waiting
<1>4. Mutex BY <1>2, <1>3 DEF Mutex, Running
<1>5. \A h : h \notin 1..0 OBVIOUS
<1>6. cursor.height = 0 BY DEF Init
<1>7. HasStored(Waiting) BY <1>3, <1>5 DEF HasStored, Writing
<1>8. NothingSkipped BY <1>5, <1>6 DEF NothingSkipped
<1>9. Storage BY <1>2, <1>7, <1>8 DEF Storage
<1>16. Founded
  <2>1. Level(Waiting)
    BY <1>3, <1>6 DEF Level, AtCursor, AtBlock, Writing
  <2>2. \A a \in Synced : since[a] = 0 BY PairsTyped DEF Init
  <2> QED BY <2>1, <2>2, <1>2 DEF Founded, Abreast, Entered
<1>10. Dated(Waiting) BY <1>3 DEF Dated, Writing
<1>11. Hashes BY <1>2, <1>6, <1>10 DEF Hashes, HashTellsRows
<1>12. N = 0
  <2>1. Indexed = {} BY DEF Init, Indexed
  <2> QED BY <2>1, FS_EmptySet DEF N
<1>13. candles = 0 /\ trades = 0 /\ positions = 0 BY DEF Init
<1>14. Owed(Waiting)
  <2>1. DueCandle(Waiting) = 0 /\ DueTrade(Waiting) = 0 /\ DuePosition(Waiting) = 0
    BY <1>3, DueIsOneOrNone
  <2>2. Waiting.pc \notin AfterRepairs BY <1>3 DEF AfterRepairs, Following, Writing
  <2> QED BY <2>1, <2>2, <1>3, <1>12, <1>13 DEF Owed
<1>15. Counts BY <1>2, <1>12, <1>13, <1>14 DEF Counts
<1> QED BY <1>1, <1>4, <1>9, <1>11, <1>15, <1>16 DEF IInv

LEMMA IInvNext == IInv /\ [Next]_vars => IInv'
BY ShapeStep, MutexStep, AbreastStep, EnteredStep, StorageStep, HashesStep, CountsStep
DEF IInv, Founded

THEOREM Invariant == Spec => []IInv
BY IInvInit, IInvNext, PTL DEF Spec

\* The variables of the model keep their types: no phase, height or event but
\* those of the chain.
THEOREM Types == Spec => []TypeOK
<1>1. IInv => TypeOK BY DEF IInv, Shape
<1> QED BY <1>1, Invariant, PTL

\* Whatever crashes, retries, reorgs and second writers there are, events are left
\* out by policy alone: the checkpoint never passes a block with an event that
\* fits, of a pair in the database before that block, which is not stored, nor,
\* while there is one writer, with such a swap without its fee.  With two writers
\* only the pairs known from the start are spoken of.
THEOREM CheckpointSkipsNothing == Spec => []NothingSkipped
<1>1. IInv => NothingSkipped BY DEF IInv, Storage
<1> QED BY <1>1, Invariant, PTL

\* If the chain still serves the hash of the checkpoint, the rows stored are of
\* that very block: none is missing but those the policy leaves out.
THEOREM CheckpointTellsRows == Spec => []HashTellsRows
<1>1. IInv => HashTellsRows BY DEF IInv, Hashes
<1> QED BY <1>1, Invariant, PTL

\* With one writer, no crash, retry or repair counts a swap twice.
THEOREM NothingCountedTwice == Spec => []CountedAtMostOnce
<1>1. IInv => CountedAtMostOnce BY DEF IInv, Counts, CountedAtMostOnce, N
<1> QED BY <1>1, Invariant, PTL

\* With one writer, a poller whose repairs ran works with totals that agree with
\* the swaps stored.
THEOREM RepairsRepair == Spec => []RepairedTotals
<1>1. ASSUME IInv PROVE RepairedTotals
  <2>1. SUFFICES ASSUME NEW p \in Pollers, ~lost, poller[p].healed,
                        poller[p].pc \in Following \cup {"next", "commit"}
                 PROVE  trades = N /\ positions = N
    BY DEF RepairedTotals, N
  <2>2. Owed(poller[p]) /\ poller[p].pc \in AfterRepairs
    BY <1>1, <2>1 DEF IInv, Counts, AfterRepairs, Writing
  <2>3. DueTrade(poller[p]) = 0 /\ DuePosition(poller[p]) = 0
    BY <2>1, DueIsOneOrNone DEF Following
  <2>4. trades + 0 = N /\ positions + 0 = N BY <2>1, <2>2, <2>3 DEF Owed
  <2> QED BY <2>4, <1>1, CountTyped DEF IInv, Shape
<1> QED BY <1>1, Invariant, PTL
=============================================================================
