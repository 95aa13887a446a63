----------------------------- MODULE BlockIngest -----------------------------
(***************************************************************************)
(* Block ingestion of the indexer: pollers (processes of overlapping       *)
(* deployments) that take turns at one database.  The poller holding the   *)
(* advisory lock repairs the projections, then follows the chain: reorg    *)
(* guard, hash, transactions, one SQL write after the other, checkpoint    *)
(* (indexer/src/indexer/{poller,block_indexer,parser}.rs).  Every await is *)
(* a step of its own, at which the process may die, be cancelled, meet an  *)
(* SQL error or find the provider away; a lock session may be lost while   *)
(* its poller goes on writing.                                             *)
(*                                                                         *)
(* A projection is the count of the swaps in it, over all its traders,     *)
(* pairs and candles.  The read and the upsert of a count are one step:    *)
(* only two writers at once could tell.  Block holds the events the parser *)
(* makes of a block's transactions; malformed ones never become events.    *)
(***************************************************************************)
EXTENDS Integers, Sequences, FiniteSets

CONSTANTS
  Pollers,      \* processes of the indexer
  Swaps, Fills, \* events, named by (tx_hash, pair, swap_index or order_id)
  Large,        \* swaps whose price or reserves may not fit their columns
  Pairs, PairOf, \* the pair contract of each event
  Factory,      \* pairs the factory lists, sooner or later
  Synced,       \* pairs in the database from the start
  Tip,          \* height of the chain
  MaxBranch,    \* branches a height may be reorganised to
  Block,        \* Block[h][b]: the events of block h on branch b, in order
  MaxRetries,   \* block_process_max_retries
  MaxFaults     \* bound on faults (crashes, errors, outages, reorgs)

Events == Swaps \cup Fills

ASSUME BlockAssumption ==
  /\ IsFiniteSet(Swaps) /\ Swaps \cap Fills = {} /\ Large \subseteq Swaps
  /\ PairOf \in [Events -> Pairs]
  /\ Synced \subseteq Factory /\ Factory \subseteq Pairs
  /\ Tip \in Nat /\ MaxBranch \in Nat
  /\ Block \in [1..Tip -> [0..MaxBranch -> Seq(Events)]]
  /\ MaxRetries \in Nat \ {0} /\ MaxFaults \in Nat

VARIABLES
  chain,        \* chain[h]: the branch the providers serve at h
  cursor,       \* last_indexed_height and last_indexed_block_hash
  failed,       \* indexer_failed_blocks
  since,        \* the pairs table: height as of which a pair is in it
  rows,         \* swap_events and limit_order_fills
  fees,         \* events whose protocol fee is recorded
  candles, trades, positions,  \* swaps counted in each projection
  holder,       \* the poller whose session holds the advisory lock
  poller,       \* what each poller is doing
  lost,         \* a lock session was lost while its poller worked on
  faults        \* faults so far

projections == <<candles, trades, positions>>
ledger == <<rows, fees, projections>>
vars == <<chain, cursor, failed, since, ledger, holder, poller, lost, faults>>

Nobody == "nobody"
ASSUME NobodyAssumption == Nobody \notin Pollers

Healing == {"backfill", "traders", "positions", "snapshot", "replay"}
Following == {"load", "verify", "compare", "marker", "hash", "txs"}
Writing == {"next", "insert", "fee", "candle", "trade", "position",
            "commit", "clear"}
Phases == {"waiting", "halted", "sync"} \cup Healing \cup Following \cup Writing

Poller == [pc : Phases,
           last : 0..Tip,               \* last_indexed, in memory
           hash : 0..MaxBranch,         \* block_hash
           branch : 0..MaxBranch,       \* branch its transactions are of
           done : Nat,                  \* events of the block processed
           attempt : Nat,
           replayed : BOOLEAN,          \* trade_exists said yes
           left : Nat,                  \* swaps a rebuild has yet to replay
           healed : BOOLEAN]            \* both repairs ran without an error
Waiting == [pc |-> "waiting", last |-> 0, hash |-> 0, branch |-> 0, done |-> 0,
            attempt |-> 0, replayed |-> FALSE, left |-> 0, healed |-> TRUE]

Running(p) == poller[p].pc \notin {"waiting", "halted"}
Height(p) == poller[p].last + 1
Indexed == rows \cap Swaps
Never == Tip + 1
Known(a) == since[a] # Never

Init ==
  /\ chain = [h \in 1..Tip |-> 0]
  /\ cursor = [height |-> 0, hash |-> 0]
  /\ failed = [h \in 1..Tip |-> "none"]
  /\ since = [a \in Pairs |-> IF a \in Synced THEN 0 ELSE Never]
  /\ rows = {} /\ fees = {}
  /\ candles = 0 /\ trades = 0 /\ positions = 0
  /\ holder = Nobody
  /\ poller = [p \in Pollers |-> Waiting]
  /\ lost = FALSE /\ faults = 0

Fault == faults < MaxFaults /\ faults' = faults + 1
At(p, pc) == poller[p].pc = pc
Goto(p, pc) == poller' = [poller EXCEPT ![p].pc = pc]
Become(p, r) == poller' = [poller EXCEPT ![p] = r]
\* What a poller leaves alone between two writes.
Reads == UNCHANGED <<chain, cursor, failed, since, ledger, holder, lost, faults>>
Writes == UNCHANGED <<chain, cursor, failed, since, holder, lost, faults>>

-----------------------------------------------------------------------------
(* Startup: the lock, then the repairs *)

AcquireLock(p) ==
  /\ At(p, "waiting") /\ holder = Nobody
  /\ holder' = p
  /\ Goto(p, "sync")
  /\ UNCHANGED <<chain, cursor, failed, since, ledger, lost, faults>>

\* sync_all_pairs: what the factory lists by now, less the failures it logs
SyncPairs(p) ==
  /\ At(p, "sync")
  /\ \E S \in SUBSET Factory :
       since' = [a \in Pairs |-> IF a \in S /\ ~Known(a)
                                THEN cursor.height ELSE since[a]]
  /\ Goto(p, "backfill")
  /\ UNCHANGED <<chain, cursor, failed, ledger, holder, lost, faults>>

\* backfill_missing_swap_amm_fees
BackfillFees(p) ==
  /\ At(p, "backfill")
  /\ fees' = fees \cup Indexed
  /\ Goto(p, "traders")
  /\ Writes /\ UNCHANGED <<rows, projections>>

\* heal_trader_lifetime_from_swaps, one transaction
HealTraders(p) ==
  /\ At(p, "traders")
  /\ trades' = Cardinality(Indexed)
  /\ Goto(p, "positions")
  /\ Writes /\ UNCHANGED <<rows, fees, candles, positions>>

\* repair_positions_if_trade_count_mismatch: nothing to do, or clear
CheckPositions(p) ==
  /\ At(p, "positions")
  /\ IF positions = Cardinality(Indexed)
     THEN Goto(p, "load") /\ UNCHANGED positions
     ELSE Goto(p, "snapshot") /\ positions' = 0
  /\ Writes /\ UNCHANGED <<rows, fees, candles, trades>>

\* ... read every swap ...
SnapshotSwaps(p) ==
  /\ At(p, "snapshot")
  /\ Become(p, [poller[p] EXCEPT !.pc = "replay", !.left = Cardinality(Indexed)])
  /\ Reads

\* ... and replay them one by one.
ReplaySwap(p) ==
  /\ At(p, "replay")
  /\ IF poller[p].left = 0
     THEN Goto(p, "load") /\ UNCHANGED positions
     ELSE /\ positions' = positions + 1
          /\ Become(p, [poller[p] EXCEPT !.left = @ - 1])
  /\ Writes /\ UNCHANGED <<rows, fees, candles, trades>>

\* An SQL error in a repair is logged; the poller goes on.
RepairFails(p) ==
  /\ poller[p].pc \in Healing
  /\ Fault
  /\ LET after == CASE At(p, "backfill") -> "traders"
                    [] At(p, "traders") -> "positions"
                    [] OTHER -> "load"
     IN Become(p, [poller[p] EXCEPT !.pc = after,
                     !.healed = @ /\ At(p, "backfill")])
  /\ UNCHANGED <<chain, cursor, failed, since, ledger, holder, lost>>

LoadCursor(p) ==
  /\ At(p, "load")
  /\ Become(p, [poller[p] EXCEPT !.pc = "verify", !.last = cursor.height])
  /\ Reads

-----------------------------------------------------------------------------
(* The guard before each height: verify_checkpoint_unchanged *)

\* Reads the checkpoint.  Another height there is adopted.
VerifyHeight(p) ==
  /\ At(p, "verify") /\ poller[p].last < Tip
  /\ Become(p, CASE poller[p].last = 0 ->
                      [poller[p] EXCEPT !.pc = "marker"]
                 [] poller[p].last # 0 /\ cursor.height # poller[p].last ->
                      [poller[p] EXCEPT !.last = cursor.height]
                 [] OTHER ->
                      [poller[p] EXCEPT !.pc = "compare", !.hash = cursor.hash])
  /\ Reads

ReleaseNever(p) == holder' = holder            \* mutant: the session survives
Release(p) == holder' = IF holder = p THEN Nobody ELSE holder

\* Asks the chain for the hash at that height.  Another one is a reorg: halt.
CompareHash(p) ==
  /\ At(p, "compare")
  /\ IF chain[poller[p].last] = poller[p].hash
     THEN Goto(p, "marker") /\ UNCHANGED holder
     ELSE Goto(p, "halted") /\ Release(p)
  /\ UNCHANGED <<chain, cursor, failed, since, ledger, lost, faults>>

\* index_block_with_retry_policy refuses a block an earlier attempt left unsafe.
ReadMarker(p) ==
  /\ At(p, "marker")
  /\ IF failed[Height(p)] = "unsafe"
     THEN Goto(p, "halted") /\ Release(p)
     ELSE Become(p, [poller[p] EXCEPT !.pc = "hash", !.attempt = 1])
          /\ UNCHANGED holder
  /\ UNCHANGED <<chain, cursor, failed, since, ledger, lost, faults>>

-----------------------------------------------------------------------------
(* One block: index_block and the parser *)

FetchHash(p) ==
  /\ At(p, "hash")
  /\ Become(p, [poller[p] EXCEPT !.pc = "txs", !.hash = chain[Height(p)]])
  /\ Reads

FetchTxs(p) ==
  /\ At(p, "txs")
  /\ Become(p, [poller[p] EXCEPT !.pc = "next", !.done = 0,
                  !.branch = chain[Height(p)]])
  /\ Reads

Txs(p) == Block[Height(p)][poller[p].branch]
Event(p) == Txs(p)[poller[p].done + 1]
PairKnown(p) == Known(PairOf[Event(p)])
Done(p) == [poller[p] EXCEPT !.pc = "next", !.done = poller[p].done + 1]

\* get_or_discover_pair, of a pair that is not in the database.  The chain says
\* that the factory lists it: it is stored ...
DiscoverPair(p) ==
  /\ At(p, "next") /\ poller[p].done < Len(Txs(p))
  /\ ~PairKnown(p) /\ PairOf[Event(p)] \in Factory
  /\ since' = [since EXCEPT ![PairOf[Event(p)]] = Height(p)]
  /\ UNCHANGED <<chain, cursor, failed, ledger, holder, poller, lost, faults>>

\* Mutant: a failed look-up of the pair is taken for an ambiguous answer.
PassOverKnown(p) ==
  /\ At(p, "next") /\ poller[p].done < Len(Txs(p))
  /\ Become(p, Done(p))
  /\ Reads

\* ... or that it does not, now or within the hour, or gives an answer of which
\* nothing can be made: the event is passed over.
PassOver(p) ==
  /\ At(p, "next") /\ poller[p].done < Len(Txs(p))
  /\ ~PairKnown(p)
  /\ Become(p, Done(p))
  /\ Reads

\* Mutant: a swap seen before is projected again.
CheckExistsForgets(p) ==
  /\ At(p, "next") /\ poller[p].done < Len(Txs(p)) /\ PairKnown(p)
  /\ Become(p, IF Event(p) \in rows \ Swaps THEN Done(p)
               ELSE [poller[p] EXCEPT !.replayed = FALSE,
                       !.pc = IF Event(p) \in rows THEN "fee" ELSE "insert"])
  /\ Reads

\* trade_exists or fill_exists.  A swap seen before still has its fee ingested.
CheckExists(p) ==
  /\ At(p, "next") /\ poller[p].done < Len(Txs(p)) /\ PairKnown(p)
  /\ Become(p, CASE Event(p) \notin rows ->
                      [poller[p] EXCEPT !.pc = "insert", !.replayed = FALSE]
                 [] Event(p) \in rows \cap Swaps ->
                      [poller[p] EXCEPT !.pc = "fee", !.replayed = TRUE]
                 [] OTHER -> Done(p))
  /\ Reads

\* A new swap whose derived price or reserves do not fit is passed over too.
TooLarge(p) ==
  /\ At(p, "next") /\ poller[p].done < Len(Txs(p)) /\ PairKnown(p)
  /\ Event(p) \in Large \ rows
  /\ Become(p, Done(p))
  /\ Reads

\* insert_swap does nothing on conflict; the swap is then left to whoever won.
InsertRow(p) ==
  /\ At(p, "insert") /\ Event(p) \notin rows \cap Fills
  /\ rows' = rows \cup {Event(p)}
  /\ Become(p, IF Event(p) \in rows \cap Swaps
               THEN Done(p) ELSE [poller[p] EXCEPT !.pc = "fee"])
  /\ Writes /\ UNCHANGED <<fees, projections>>

\* insert_fill has no such clause: the unique index turns it into an error.
InsertConflict(p) ==
  /\ At(p, "insert") /\ Event(p) \in rows \cap Fills
  /\ failed' \in {failed, [failed EXCEPT ![Height(p)] = "unsafe"]}
  /\ Goto(p, "halted") /\ Release(p)
  /\ UNCHANGED <<chain, cursor, since, ledger, lost, faults>>

IngestFee(p) ==
  /\ At(p, "fee")
  /\ fees' = fees \cup {Event(p)}
  /\ Become(p, IF Event(p) \in Swaps /\ ~poller[p].replayed
               THEN [poller[p] EXCEPT !.pc = "candle"] ELSE Done(p))
  /\ Writes /\ UNCHANGED <<rows, projections>>

UpdateCandles(p) ==
  /\ At(p, "candle")
  /\ candles' = candles + 1
  /\ Goto(p, "trade")
  /\ Writes /\ UNCHANGED <<rows, fees, trades, positions>>

UpdateTrader(p) ==
  /\ At(p, "trade")
  /\ trades' = trades + 1
  /\ Goto(p, "position")
  /\ Writes /\ UNCHANGED <<rows, fees, candles, positions>>

UpdatePosition(p) ==
  /\ At(p, "position")
  /\ positions' = positions + 1
  /\ Become(p, Done(p))
  /\ Writes /\ UNCHANGED <<rows, fees, candles, trades>>

EndOfBlock(p) ==
  /\ At(p, "next") /\ poller[p].done = Len(Txs(p))
  /\ Goto(p, "commit")
  /\ Reads

\* Mutant: the hash is fetched for the checkpoint, after the transactions.
CommitFreshHash(p) ==
  /\ At(p, "commit")
  /\ cursor' = [height |-> Height(p), hash |-> chain[Height(p)]]
  /\ Goto(p, "clear")
  /\ UNCHANGED <<chain, failed, since, ledger, holder, lost, faults>>

\* set_indexer_checkpoint: height and hash in one transaction
Commit(p) ==
  /\ At(p, "commit")
  /\ cursor' = [height |-> Height(p), hash |-> poller[p].hash]
  /\ Goto(p, "clear")
  /\ UNCHANGED <<chain, failed, since, ledger, holder, lost, faults>>

ClearFailed(p) ==
  /\ At(p, "clear")
  /\ failed' = [failed EXCEPT ![Height(p)] = "none"]
  /\ Become(p, [poller[p] EXCEPT !.pc = "verify", !.last = Height(p)])
  /\ UNCHANGED <<chain, cursor, since, ledger, holder, lost, faults>>

-----------------------------------------------------------------------------
(* Faults *)

\* Mutant: the parser asks a provider about the trader, after the swap's row.
OutageAfterRow(p) ==
  /\ poller[p].pc \in {"compare", "hash", "txs", "next", "trade"}
  /\ Fault
  /\ Goto(p, IF At(p, "compare") THEN "verify" ELSE "hash")
  /\ UNCHANGED <<chain, cursor, failed, since, ledger, holder, lost>>

\* The provider is away: retry_availability waits and asks again, the whole
\* block from its hash on.  The parser asks the chain only for a new pair,
\* before it has written anything of the event.
Outage(p) ==
  /\ poller[p].pc \in {"compare", "hash", "txs", "next"}
  /\ Fault
  /\ Goto(p, IF At(p, "compare") THEN "verify" ELSE "hash")
  /\ UNCHANGED <<chain, cursor, failed, since, ledger, holder, lost>>

\* An answer no retry of the provider helps: counted against the budget.  The
\* failure may go unrecorded.
LcdError(p) ==
  /\ poller[p].pc \in {"hash", "txs"}
  /\ Fault
  /\ failed' \in {failed, [failed EXCEPT ![Height(p)] = "generic"]}
  /\ IF poller[p].attempt >= MaxRetries
     THEN Goto(p, "halted") /\ Release(p)
     ELSE Become(p, [poller[p] EXCEPT !.pc = "hash", !.attempt = @ + 1])
          /\ UNCHANGED holder
  /\ UNCHANGED <<chain, cursor, since, ledger, lost>>

\* Anything else that fails before a block is begun ends the indexer.
ReadFails(p) ==
  /\ poller[p].pc \in {"waiting", "load", "verify", "compare", "marker"}
  /\ Fault
  /\ Goto(p, "halted") /\ Release(p)
  /\ UNCHANGED <<chain, cursor, failed, since, ledger, lost>>

\* A write fails: no automatic replay.  The marker may fail to be written too.
WriteFails(p) ==
  /\ poller[p].pc \in Writing
  /\ Fault
  /\ failed' \in {failed, [failed EXCEPT ![Height(p)] = "unsafe"]}
  /\ Goto(p, "halted") /\ Release(p)
  /\ UNCHANGED <<chain, cursor, since, ledger, lost>>

\* Shutdown, a crash, or the restart of a halted indexer.  The session, and
\* with it the lock, goes with the process.
Restart(p) ==
  /\ ~At(p, "waiting")
  /\ Fault
  /\ Become(p, Waiting) /\ Release(p)
  /\ UNCHANGED <<chain, cursor, failed, since, ledger, lost>>

\* The server drops the lock session; the poller does not know yet.
LoseSession(p) ==
  /\ holder = p
  /\ Fault
  /\ holder' = Nobody /\ lost' = TRUE
  /\ UNCHANGED <<chain, cursor, failed, since, ledger, poller>>

\* The heartbeat of the lock session notices.
LeadershipLost(p) ==
  /\ Running(p) /\ holder # p
  /\ Goto(p, "halted")
  /\ UNCHANGED <<chain, cursor, failed, since, ledger, holder, lost, faults>>

Reorg(h) ==
  /\ Fault
  /\ \A k \in h..Tip : chain[k] < MaxBranch
  /\ chain' = [k \in 1..Tip |-> IF k >= h THEN chain[k] + 1 ELSE chain[k]]
  /\ UNCHANGED <<cursor, failed, since, ledger, holder, poller, lost>>

-----------------------------------------------------------------------------
Repair(p) ==
  \/ SyncPairs(p) \/ BackfillFees(p) \/ HealTraders(p) \/ CheckPositions(p)
  \/ SnapshotSwaps(p) \/ ReplaySwap(p) \/ LoadCursor(p)
Guard(p) == VerifyHeight(p) \/ CompareHash(p) \/ ReadMarker(p)
Ingest(p) ==
  \/ FetchHash(p) \/ FetchTxs(p) \/ DiscoverPair(p) \/ PassOver(p)
  \/ CheckExists(p) \/ TooLarge(p) \/ InsertRow(p) \/ InsertConflict(p)
  \/ IngestFee(p) \/ UpdateCandles(p) \/ UpdateTrader(p)
  \/ UpdatePosition(p) \/ EndOfBlock(p) \/ Commit(p) \/ ClearFailed(p)
Work(p) == AcquireLock(p) \/ Repair(p) \/ Guard(p) \/ Ingest(p)
Fails(p) ==
  \/ RepairFails(p) \/ Outage(p) \/ LcdError(p) \/ ReadFails(p)
  \/ WriteFails(p) \/ Restart(p) \/ LoseSession(p)

Next ==
  \/ \E p \in Pollers : Work(p) \/ Fails(p) \/ LeadershipLost(p)
  \/ \E h \in 1..Tip : Reorg(h)

\* A poller's loop and the heartbeat are tasks the runtime keeps scheduling;
\* a lock that is free again is polled twice a second.
Fairness == \A p \in Pollers : WF_vars(Work(p)) /\ WF_vars(LeadershipLost(p))
Spec == Init /\ [][Next]_vars /\ Fairness

-----------------------------------------------------------------------------
(* Properties *)

TypeOK ==
  /\ chain \in [1..Tip -> 0..MaxBranch]
  /\ cursor \in [height : 0..Tip, hash : 0..MaxBranch]
  /\ failed \in [1..Tip -> {"none", "generic", "unsafe"}]
  /\ since \in [Pairs -> 0..Never]
  /\ rows \subseteq Events /\ fees \subseteq Events
  /\ candles \in Nat /\ trades \in Nat /\ positions \in Nat
  /\ holder \in Pollers \cup {Nobody}
  /\ poller \in [Pollers -> Poller]
  /\ lost \in BOOLEAN /\ faults \in Nat

\* An event of block h the database must hold: its values fit, and its pair was
\* in the database before that block; with two writers, from the start.
Indexable(e, h) ==
  /\ e \notin Large
  /\ since[PairOf[e]] < h /\ (lost => PairOf[e] \in Synced)
Stored(s, h) == \A i \in DOMAIN s : Indexable(s[i], h) => s[i] \in rows
FeesIn(s, h) ==
  \A i \in DOMAIN s : Indexable(s[i], h) /\ s[i] \in Swaps => s[i] \in fees
Covered(h) ==
  \E b \in 0..MaxBranch :
    Stored(Block[h][b], h) /\ (lost \/ FeesIn(Block[h][b], h))

\* Events are left out by policy alone: no crash, retry, takeover or second
\* writer lets the checkpoint pass a block with an event that fits, of a pair
\* known before that block, which is not stored; nor, while there is one writer,
\* with such a swap whose fee is not.
NothingSkipped == \A h \in 1..cursor.height : Covered(h)

\* The rows at the checkpoint are of the block its hash names, but for what is
\* left out by policy, unless the chain has moved on and the guard will see it:
\* the hash is fetched first.
HashTellsRows ==
  cursor.height > 0 /\ chain[cursor.height] = cursor.hash
    => Stored(Block[cursor.height][cursor.hash], cursor.height)

\* While there is one writer, no replay, retry or repair counts a swap twice.
CountedAtMostOnce ==
  ~lost => /\ candles <= Cardinality(Indexed)
           /\ trades <= Cardinality(Indexed)
           /\ positions <= Cardinality(Indexed)

\* Whatever a crash or a failed write left half done, a poller that repaired
\* the counters works with totals that agree with the swaps stored.
RepairedTotals ==
  \A p \in Pollers :
    ~lost /\ poller[p].healed /\ poller[p].pc \in Following \cup {"next", "commit"}
      => trades = Cardinality(Indexed) /\ positions = Cardinality(Indexed)

\* A poller reaches the tip, or every one of them has halted.
CatchesUp ==
  <>[](\/ \E p \in Pollers : At(p, "verify") /\ poller[p].last = Tip
       \/ \A p \in Pollers : At(p, "halted"))
=============================================================================
