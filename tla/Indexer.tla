------------------------------- MODULE Indexer -------------------------------
(***************************************************************************)
(* The block indexer: one process (crates/indexer: main.rs, worker.rs)     *)
(* that reads an Ethereum node over RPC and fills a PostgreSQL database    *)
(* (crates/db: queries.rs), in follow mode or over a fixed range.          *)
(*                                                                         *)
(* The node is external.  Its chain is the path from genesis to `tip` in a *)
(* constant tree of blocks, so that equal hashes at a height mean equal    *)
(* chains below it, and the chain may grow or be reorganised between any   *)
(* two steps of the indexer.                                               *)
(*                                                                         *)
(* Data kept of a block: its height, its hash and its transactions, which  *)
(* revert or else emit a decoded event.  A transaction keeps its hash when *)
(* another branch includes it again, at another height or place, and may   *)
(* revert in one block and not in another; the receipts of a block are     *)
(* identified by the block they belong to.                                 *)
(***************************************************************************)
EXTENDS ForkScan, Sequences

CONSTANTS
  Blocks,         \* block hashes
  NoBlock,        \* SQL NULL / RPC null: no block
  MaxHeight,      \* greatest height of a block
  Height,         \* the number of a block
  Chain,          \* Chain[b][h]: the ancestor of b at height h, or NoBlock
  Txs,            \* transaction hashes
  Body,           \* Body[b]: the transactions of block b, in order
  Reverts,        \* Reverts[b]: those with status 0
  Triggers,       \* whether scripts/seed.sh has installed sql/triggers
  Confirmations,  \* --confirmations
  BatchSize,      \* blocks per chunk, per checkpoint
  CycleCap,       \* FOLLOW_CYCLE_BLOCK_CAP
  ScanCap,        \* REORG_SCAN_CAP
  MaxConcurrent,  \* permits of the semaphore of process_chunk
  FollowMode,     \* whether --follow may be started
  Backfills,      \* the [from, to] a fixed-range run may be started with
  NodePoints,     \* the control points at which the node's chain may change
  MaxReorgs,      \* bound on reorganisations
  MaxInterrupts,  \* bound on crashes and errors from outside that end the process
  MaxStops,       \* bound on Ctrl-C
  MaxRpcFailures  \* bound on scans given up because an RPC call failed

Heights == 0 .. MaxHeight

PCs == {"down", "scan", "rollback", "head", "chunk", "tasks", "wait"}

ASSUME ChainAssumption ==
  /\ MaxHeight \in Nat
  /\ NoBlock \notin Blocks
  /\ Height \in [Blocks -> Heights]
  /\ Chain \in [Blocks -> [Heights -> Blocks \cup {NoBlock}]]
  /\ \A b \in Blocks, h \in Heights :
       /\ Chain[b][h] = NoBlock <=> h > Height[b]
       /\ h <= Height[b] => Height[Chain[b][h]] = h
  /\ \A b \in Blocks : Chain[b][Height[b]] = b
  /\ \A a, b \in Blocks, h \in Heights :             \* parent hashes
       Chain[a][h] = Chain[b][h] /\ Chain[a][h] # NoBlock
         => \A k \in 0 .. h : Chain[a][k] = Chain[b][k]
  /\ \A a, b \in Blocks : Chain[a][0] = Chain[b][0]  \* one genesis block

\* A chain includes a transaction once.
ASSUME BodyAssumption ==
  /\ Body \in [Blocks -> Seq(Txs)]
  /\ Reverts \in [Blocks -> SUBSET Txs]
  /\ \A c \in Blocks : \A h, k \in 0 .. Height[c] :
       \A i \in DOMAIN Body[Chain[c][h]], j \in DOMAIN Body[Chain[c][k]] :
         Body[Chain[c][h]][i] = Body[Chain[c][k]][j] => h = k /\ i = j
  /\ Triggers \in BOOLEAN

ASSUME ConfigAssumption ==
  /\ Confirmations \in Nat
  /\ BatchSize \in Nat \ {0}
  /\ CycleCap \in Nat
  /\ ScanCap \in Nat \ {0}
  /\ MaxConcurrent \in Nat \ {0}
  /\ FollowMode \in BOOLEAN
  /\ Backfills \subseteq [from : Heights, to : Heights \cup {NoRow}]
  /\ NodePoints \subseteq PCs
  /\ MaxReorgs \in Nat
  /\ MaxInterrupts \in Nat
  /\ MaxStops \in Nat
  /\ MaxRpcFailures \in Nat

VARIABLES
  tip,         \* the node's head block
  block,       \* table block: the hash stored for each number
  tx,          \* table transaction: the blocks a row's body and receipt are from
  events,      \* swap_event, liquidity_event, token_transfer, by tx
  traces,      \* table trace_log: how many times the frames of a tx are stored
  failed,      \* table failed_transaction
  checkpoint,  \* table indexer_checkpoint, NoRow when empty
  pc,          \* control point of the indexer process
  mode,        \* "follow" or "backfill"
  depth,       \* detect_fork: current scan depth
  seen,        \* detect_fork: chain hashes fetched so far
  fork,        \* detect_fork's result while it is being acted on
  next,        \* index_range: first block of the current chunk
  last,        \* index_range: last block of the range
  task,        \* process_chunk: one task per block of the chunk
  cancel,      \* the AtomicBool the Ctrl-C watcher sets
  base,        \* history: first block of the range the checkpoint vouches for
  reorgs, interrupts, stops, rpcFailures  \* how much of each bound is used

node == <<tip, reorgs>>
db == <<block, tx, events, traces, failed, checkpoint>>
scanVars == <<depth, seen, fork, rpcFailures>>
rangeVars == <<next, last, task, base>>
procVars == <<mode, cancel, interrupts, stops>>
vars == <<node, db, pc, scanVars, rangeVars, procVars>>

-----------------------------------------------------------------------------
(* Helpers.  A definition named BugX is X with a plausible mistake: it is  *)
(* used nowhere, and takes the place of X to see that a property notices.  *)

\* Heights with a row in table block.
Rows == {h \in Heights : block[h] # NoBlock}

\* recent_block_hashes(cap)
Local == [h \in Top(Rows, ScanCap) |-> block[h]]

\* What the node answers to get_block_by_number(h).
NodeBlock(h) == Chain[tip][h]

NodeHead == Height[tip]

\* chunk_end of index_range
BugChunkEnd == next + BatchSize - 1
ChunkEnd == Smaller(next + BatchSize - 1, last)

ChunkHeights == {h \in Heights : next <= h /\ h <= ChunkEnd}

\* No row in table transaction.
NoTx == [body |-> NoBlock, rcpt |-> NoBlock]

StoredTxs == {t \in Txs : tx[t] # NoTx}

TxsOf(b) == {Body[b][i] : i \in DOMAIN Body[b]}
Emitting(b) == TxsOf(b) \ Reverts[b]
Reverting(b) == TxsOf(b) \cap Reverts[b]

\* No task: before process_chunk spawns them and after the JoinSet is dropped.
\* traced: the transactions whose frames it has.
IdleTask == [at |-> "idle", blk |-> NoBlock, rcpt |-> NoBlock, traced |-> {}]

NoTasks == [h \in Heights |-> IdleTask]

\* Points of process_block at which a task holds a semaphore permit.
Stored == {"tx", "events", "trace", "traceLogs", "failedTx", "done"}
Active == {"fetch", "fetchBlock", "fetchReceipts", "block"} \cup (Stored \ {"done"})

Running == {h \in Heights : task[h].at \in Active}

TaskAt(h, from, to) ==
  /\ pc = "tasks"
  /\ task[h].at = from
  /\ task' = [task EXCEPT ![h].at = to]

\* detect_fork begins: nothing fetched, depth 1.
ScanReset ==
  /\ depth' = 1
  /\ seen' = [h \in Heights |-> NoBlock]
  /\ fork' = 0
  /\ UNCHANGED rpcFailures

-----------------------------------------------------------------------------
(* The node (external) *)

NodeExtend ==
  /\ pc \in NodePoints
  /\ \E b \in Blocks :
       /\ Height[b] = NodeHead + 1
       /\ Chain[b][NodeHead] = tip
       /\ tip' = b
  /\ UNCHANGED <<reorgs, db, pc, scanVars, rangeVars, procVars>>

NodeReorg ==
  /\ pc \in NodePoints
  /\ reorgs < MaxReorgs
  /\ \E b \in Blocks :
       /\ Chain[b][NodeHead] # tip
       /\ tip' = b
  /\ reorgs' = reorgs + 1
  /\ UNCHANGED <<db, pc, scanVars, rangeVars, procVars>>

-----------------------------------------------------------------------------
(* Process start and end *)

\* main --follow: WorkerPool::follow enters its loop.
StartFollow ==
  /\ pc = "down"
  /\ FollowMode
  /\ mode' = "follow"
  /\ cancel' = FALSE
  /\ pc' = "scan"
  /\ ScanReset
  /\ UNCHANGED <<node, db, rangeVars, interrupts, stops>>

\* main's resume point for a fixed range.
BackfillFrom(r) == IF checkpoint >= r.from THEN checkpoint + 1 ELSE r.from

\* config.to_block.unwrap_or(from_block)
BackfillTo(r) == IF r.to = NoRow THEN BackfillFrom(r) ELSE r.to

\* The range index_range is called with extends what the checkpoint vouches
\* for, or starts a range of its own.
BaseFor(from) == IF checkpoint # NoRow /\ from = checkpoint + 1 THEN base ELSE from

\* main --from-block: nothing to do when the resume point is past the end.
StartBackfill ==
  /\ pc = "down"
  /\ \E r \in Backfills :
       /\ BackfillFrom(r) <= BackfillTo(r)
       /\ BackfillTo(r) <= MaxHeight
       /\ next' = BackfillFrom(r)
       /\ last' = BackfillTo(r)
       /\ base' = BaseFor(BackfillFrom(r))
  /\ mode' = "backfill"
  /\ cancel' = FALSE
  /\ pc' = "chunk"
  /\ UNCHANGED <<node, db, scanVars, task, interrupts, stops>>

\* The process is gone: its tasks, its scan and its range with it.
ProcessGone ==
  /\ pc' = "down"
  /\ task' = NoTasks
  /\ ScanReset
  /\ next' = 0
  /\ last' = 0
  /\ UNCHANGED <<mode, base>>

\* A crash, or an error that `?` carries out of follow or index_range: a DB
\* error, an RPC call that is still failing after its retries, a block that
\* the node does not have.  Dropping the JoinSet aborts the other tasks
\* where they are; what they committed stays.
Interrupt ==
  /\ pc # "down"
  /\ interrupts < MaxInterrupts
  /\ interrupts' = interrupts + 1
  /\ ProcessGone
  /\ UNCHANGED <<node, db, cancel, stops>>

\* Ctrl-C: the watcher task sets the flag; a wait in progress ends at once.
CtrlC ==
  /\ pc # "down"
  /\ mode = "follow"
  /\ ~cancel
  /\ stops < MaxStops
  /\ stops' = stops + 1
  /\ cancel' = TRUE
  /\ \/ pc = "wait" /\ ProcessGone
     \/ UNCHANGED <<pc, scanVars, rangeVars, mode>>
  /\ UNCHANGED <<node, db, interrupts>>

-----------------------------------------------------------------------------
(* detect_fork and rollback_from_block *)

\* Heights of the current window whose chain hash is not fetched yet.
Unfetched == {h \in Top(DOMAIN Local, depth) : seen[h] = NoBlock}

\* One get_block_by_number of the lazy fetch loop, from the tip down.
ScanFetch ==
  /\ pc = "scan"
  /\ \E h \in Highest(Unfetched) :
       /\ NodeBlock(h) # NoBlock
       /\ seen' = [seen EXCEPT ![h] = NodeBlock(h)]
  /\ UNCHANGED <<node, db, pc, depth, fork, rpcFailures, rangeVars, procVars>>

\* The block is absent: uncertain, so no rollback.
ScanAbsent ==
  /\ pc = "scan"
  /\ \E h \in Highest(Unfetched) : NodeBlock(h) = NoBlock
  /\ pc' = "head"
  /\ UNCHANGED <<node, db, scanVars, rangeVars, procVars>>

\* The RPC call still fails after its retries: uncertain as well.
ScanRpcFailure ==
  /\ pc = "scan"
  /\ Unfetched # {}
  /\ rpcFailures < MaxRpcFailures
  /\ rpcFailures' = rpcFailures + 1
  /\ pc' = "head"
  /\ UNCHANGED <<node, db, depth, seen, fork, rangeVars, procVars>>

\* classify_fork on the window, all of it fetched.
ScanClassify ==
  /\ pc = "scan"
  /\ Unfetched = {}
  /\ LET verdict == classify_fork(Local, seen, depth, NoBlock) IN
       \/ /\ verdict.kind \in {"NoReorg", "Inconclusive"}
          /\ pc' = "head"
          /\ UNCHANGED <<depth, fork>>
       \/ /\ verdict.kind = "NeedDeeper"
          /\ depth' = next_scan_depth(depth, Cardinality(DOMAIN Local))
          /\ UNCHANGED <<pc, fork>>
       \/ /\ verdict.kind = "Fork"
          /\ fork' \in verdict.at
          /\ pc' = "rollback"
          /\ UNCHANGED depth
  /\ UNCHANGED <<node, db, seen, rpcFailures, rangeVars, procVars>>

\* The transactions of the blocks from fork on, by the block_number of their
\* rows.
BugGone(t) == t \in StoredTxs /\ Height[tx[t].body] > fork
Gone(t) == t \in StoredTxs /\ Height[tx[t].body] >= fork

BugTracesKept == traces
TracesKept == [t \in Txs |-> IF Gone(t) THEN 0 ELSE traces[t]]

BugTxKept == tx
TxKept == [t \in Txs |-> IF Gone(t) THEN NoTx ELSE tx[t]]

\* UPDATE of the checkpoint row, if there is one, to (fork - 1).max(0).
BugRewound == IF checkpoint = NoRow THEN NoRow ELSE fork
Rewound == IF checkpoint = NoRow THEN NoRow ELSE Larger(fork - 1, 0)

\* `continue`: the loop starts over with a new scan.
BugAfterRollback == "head"
AfterRollback == "scan"

\* rollback_from_block(fork), one DB transaction.
Rollback ==
  /\ pc = "rollback"
  /\ events' = {t \in events : ~Gone(t)}
  /\ traces' = TracesKept
  /\ failed' = {t \in failed : ~Gone(t)}
  /\ tx' = TxKept
  /\ block' = [h \in Heights |-> IF h >= fork THEN NoBlock ELSE block[h]]
  /\ checkpoint' = Rewound
  /\ pc' = AfterRollback
  /\ ScanReset
  /\ UNCHANGED <<node, rangeVars, procVars>>

-----------------------------------------------------------------------------
(* The rest of the follow cycle *)

\* After index_range or without a target: stop on cancel, else wait.
Wait == pc' = "wait" /\ UNCHANGED <<scanVars, rangeVars, mode>>

BugEndOfCycle == Wait
EndOfCycle == IF cancel THEN ProcessGone ELSE Wait

\* get_block_number, get_last_checkpoint, next_target, cap_range_to.
FollowTarget ==
  /\ pc = "head"
  /\ LET target == next_target(NodeHead, Confirmations, checkpoint)
         range  == cap_range_to(target[1], target[2], CycleCap)
     IN  IF target = NoTarget
           THEN EndOfCycle
           ELSE /\ next' = range[1]
                /\ last' = range[2]
                /\ base' = BaseFor(range[1])
                /\ pc' = "chunk"
                /\ UNCHANGED <<scanVars, task, mode>>
  /\ UNCHANGED <<node, db, cancel, interrupts, stops>>

\* A poll interval or a newHeads tick ends the wait; the loop starts over.
Wake ==
  /\ pc = "wait"
  /\ pc' = "scan"
  /\ ScanReset
  /\ UNCHANGED <<node, db, rangeVars, procVars>>

\* The loop head of index_range.
BugAtBoundary == pc \in {"chunk", "tasks"}
AtBoundary == pc = "chunk"

\* index_range returns: cancelled at a chunk boundary, or the range is done.
RangeEnd ==
  /\ AtBoundary
  /\ cancel \/ next > last
  /\ IF mode = "follow" THEN EndOfCycle ELSE ProcessGone
  /\ UNCHANGED <<node, db, cancel, interrupts, stops>>

\* process_chunk spawns one task per block.
SpawnChunk ==
  /\ AtBoundary
  /\ ~cancel
  /\ next <= last
  /\ task' = [h \in Heights |-> IF h \in ChunkHeights THEN [IdleTask EXCEPT !.at = "queued"] ELSE IdleTask]
  /\ pc' = "tasks"
  /\ UNCHANGED <<node, db, scanVars, next, last, base, procVars>>

\* `while let Some(result) = join_set.join_next().await`
BugAllJoined == \E h \in ChunkHeights : task[h].at = "done"
AllJoined == \A h \in ChunkHeights : task[h].at = "done"

BugNextChunk == ChunkEnd
NextChunk == ChunkEnd + 1

\* Every task has joined: update_checkpoint(chunk_end), next chunk.
UpdateCheckpoint ==
  /\ pc = "tasks"
  /\ AllJoined
  /\ checkpoint' = ChunkEnd
  /\ next' = NextChunk
  /\ task' = NoTasks
  /\ pc' = "chunk"
  /\ UNCHANGED <<node, block, tx, events, traces, failed, scanVars, last, base, procVars>>

-----------------------------------------------------------------------------
(* process_block, one task *)

AcquirePermit(h) ==
  /\ Cardinality(Running) < MaxConcurrent
  /\ TaskAt(h, "queued", "fetch")
  /\ UNCHANGED <<node, db, pc, scanVars, next, last, base, procVars>>

\* get_block_by_number(h).full(), one arm of try_join!.
FetchBlock(h) ==
  /\ pc = "tasks"
  /\ task[h].at \in {"fetch", "fetchBlock"}
  /\ NodeBlock(h) # NoBlock
  /\ task' = [task EXCEPT ![h] = [task[h] EXCEPT !.at = IF task[h].at = "fetch" THEN "fetchReceipts" ELSE "block",
                                                      !.blk = NodeBlock(h)]]
  /\ UNCHANGED <<node, db, pc, scanVars, next, last, base, procVars>>

\* get_block_receipts(h), the other arm; null receipts become an empty list.
FetchReceipts(h) ==
  /\ pc = "tasks"
  /\ task[h].at \in {"fetch", "fetchReceipts"}
  /\ task' = [task EXCEPT ![h] = [task[h] EXCEPT !.at = IF task[h].at = "fetch" THEN "fetchBlock" ELSE "block",
                                                      !.rcpt = NodeBlock(h)]]
  /\ UNCHANGED <<node, db, pc, scanVars, next, last, base, procVars>>

BugInsertBlock(h) ==
  /\ TaskAt(h, "block", IF task[h].rcpt = NoBlock THEN "done" ELSE "tx")
  /\ block[h] = NoBlock
  /\ block' = [block EXCEPT ![h] = task[h].blk]
  /\ UNCHANGED <<node, tx, events, traces, failed, checkpoint, pc, scanVars, next, last, base, procVars>>

\* INSERT INTO block ... ON CONFLICT (block_number) DO NOTHING.  Without
\* receipts there is nothing more to store.
InsertBlock(h) ==
  /\ TaskAt(h, "block", IF task[h].rcpt = NoBlock THEN "done" ELSE "tx")
  /\ block' = [block EXCEPT ![h] = IF @ = NoBlock THEN task[h].blk ELSE @]
  /\ UNCHANGED <<node, tx, events, traces, failed, checkpoint, pc, scanVars, next, last, base, procVars>>

\* The receipts that block_txs has an entry for, as far as ON CONFLICT
\* (tx_hash) DO NOTHING stores them.
NewTxs(h) ==
  {Body[task[h].rcpt][i] : i \in DOMAIN Body[task[h].rcpt] \cap DOMAIN Body[task[h].blk]} \ StoredTxs

\* Hash, gas and status from the receipt, the body from the block's list of
\* transactions.  trg_transaction_check_failed adds a failure for every new
\* row with status 0.
InsertTransactions(h) ==
  /\ TaskAt(h, "tx", "events")
  /\ tx' = [t \in Txs |-> IF t \in NewTxs(h) THEN [body |-> task[h].blk, rcpt |-> task[h].rcpt] ELSE tx[t]]
  /\ failed' = IF Triggers THEN failed \cup (NewTxs(h) \cap Reverts[task[h].rcpt]) ELSE failed
  /\ UNCHANGED <<node, block, events, traces, checkpoint, pc, scanVars, next, last, base, procVars>>

\* The transactions that the rows of the next INSERT refer to by tx_hash.
Referenced(h) ==
  CASE task[h].at = "events" -> Emitting(task[h].rcpt)
    [] task[h].at \in {"traceLogs", "failedTx"} -> task[h].traced
    [] OTHER -> {}

\* One of them has no row: the receipt was not of the block's transactions.
MissesKey(h) == ~(Referenced(h) \subseteq StoredTxs)

\* The decoded logs; ON CONFLICT (tx_hash, log_index) DO NOTHING.
InsertEvents(h) ==
  /\ TaskAt(h, "events", "trace")
  /\ ~MissesKey(h)
  /\ events' = events \cup Emitting(task[h].rcpt)
  /\ UNCHANGED <<node, block, tx, traces, failed, checkpoint, pc, scanVars, next, last, base, procVars>>

\* process_failed_txs: debug_traceTransaction for each; a failure is logged,
\* the transaction is skipped.
TraceFailedTxs(h) ==
  /\ pc = "tasks"
  /\ task[h].at = "trace"
  /\ \E traced \in SUBSET Reverting(task[h].rcpt) :
       task' = [task EXCEPT ![h] = [@ EXCEPT !.at = IF traced = {} THEN "done" ELSE "traceLogs",
                                             !.traced = traced]]
  /\ UNCHANGED <<node, db, pc, scanVars, next, last, base, procVars>>

\* INSERT INTO trace_log: no key, so every call adds the frames again.
InsertTraceLogs(h) ==
  /\ TaskAt(h, "traceLogs", "failedTx")
  /\ ~MissesKey(h)
  /\ traces' = [t \in Txs |-> IF t \in task[h].traced THEN traces[t] + 1 ELSE traces[t]]
  /\ UNCHANGED <<node, block, tx, events, failed, checkpoint, pc, scanVars, next, last, base, procVars>>

\* ON CONFLICT (tx_hash) DO NOTHING.
InsertFailedTransactions(h) ==
  /\ TaskAt(h, "failedTx", "done")
  /\ ~MissesKey(h)
  /\ failed' = failed \cup task[h].traced
  /\ UNCHANGED <<node, block, tx, events, traces, checkpoint, pc, scanVars, next, last, base, procVars>>

\* The foreign key on tx_hash refuses an INSERT: `?` ends the process.
KeyRefused(h) ==
  /\ pc = "tasks"
  /\ MissesKey(h)
  /\ interrupts' = interrupts + 1
  /\ ProcessGone
  /\ UNCHANGED <<node, db, cancel, stops>>

-----------------------------------------------------------------------------

Init ==
  /\ tip \in Blocks
  /\ block = [h \in Heights |-> NoBlock]
  /\ tx = [t \in Txs |-> NoTx]
  /\ events = {}
  /\ traces = [t \in Txs |-> 0]
  /\ failed = {}
  /\ checkpoint = NoRow
  /\ pc = "down"
  /\ mode = "follow"
  /\ depth = 1
  /\ seen = [h \in Heights |-> NoBlock]
  /\ fork = 0
  /\ next = 0
  /\ last = 0
  /\ task = NoTasks
  /\ cancel = FALSE
  /\ base = 0
  /\ reorgs = 0
  /\ interrupts = 0
  /\ stops = 0
  /\ rpcFailures = 0

ProcessBlock(h) ==
  \/ AcquirePermit(h)
  \/ FetchBlock(h)
  \/ FetchReceipts(h)
  \/ InsertBlock(h)
  \/ InsertTransactions(h)
  \/ InsertEvents(h)
  \/ TraceFailedTxs(h)
  \/ InsertTraceLogs(h)
  \/ InsertFailedTransactions(h)

\* The steps of the indexer that do not depend on anyone else.
Step ==
  \/ ScanFetch
  \/ ScanAbsent
  \/ ScanClassify
  \/ Rollback
  \/ FollowTarget
  \/ Wake
  \/ RangeEnd
  \/ SpawnChunk
  \/ UpdateCheckpoint
  \/ \E h \in Heights : ProcessBlock(h) \/ KeyRefused(h)

Next ==
  \/ NodeExtend
  \/ NodeReorg
  \/ StartFollow
  \/ StartBackfill
  \/ Interrupt
  \/ CtrlC
  \/ ScanRpcFailure
  \/ Step

Spec == Init /\ [][Next]_vars

\* The runtime keeps polling a process that can move, and an operator or a
\* supervisor starts follow mode again after it has ended.  Nothing is
\* assumed of the node, of crashes or of Ctrl-C.
FairSpec == Spec /\ WF_vars(Step) /\ WF_vars(StartFollow)

-----------------------------------------------------------------------------
(* Properties *)

TaskPoints == {"idle", "queued", "done"} \cup Active

MaybeBlock == Blocks \cup {NoBlock}

\* Types of the node, the database, the process and the history variables.
TypeOK ==
  /\ tip \in Blocks
  /\ block \in [Heights -> MaybeBlock]
  /\ tx \in [Txs -> [body : Blocks, rcpt : Blocks] \cup {NoTx}]
  /\ events \subseteq Txs
  /\ traces \in [Txs -> Nat]
  /\ failed \subseteq Txs
  /\ checkpoint \in Heights \cup {NoRow}
  /\ pc \in PCs
  /\ mode \in {"follow", "backfill"}
  /\ depth \in Nat
  /\ seen \in [Heights -> MaybeBlock]
  /\ fork \in Heights
  /\ next \in Nat
  /\ last \in Heights
  /\ task \in [Heights -> [at : TaskPoints, blk : MaybeBlock, rcpt : MaybeBlock, traced : SUBSET Txs]]
  /\ cancel \in BOOLEAN
  /\ base \in Heights
  /\ reorgs \in 0 .. MaxReorgs
  /\ interrupts \in Nat
  /\ stops \in 0 .. MaxStops
  /\ rpcFailures \in 0 .. MaxRpcFailures

\* Every block the checkpoint vouches for has a row, as long as the process
\* has never been interrupted or the chain has never been reorganised.
\* (With both, rollback_from_block can raise the checkpoint: RollbackRewinds.)
CheckpointCovered ==
  interrupts = 0 \/ reorgs = 0
    => \A h \in base .. checkpoint : block[h] # NoBlock

\* Foreign keys hold at every instant, whatever was interrupted or rolled
\* back: a transaction has its block row; events, trace frames and failures
\* have their transaction.  And they never stand in the way of process_block
\* unless it was given the receipts of another block: what an earlier attempt
\* or a rollback left behind fails no INSERT.
ReferencesHold ==
  /\ \A t \in StoredTxs : block[Height[tx[t].body]] # NoBlock
  /\ events \cup failed \cup {t \in Txs : traces[t] > 0} \subseteq StoredTxs
  /\ \A h \in Heights : MissesKey(h) => task[h].blk # task[h].rcpt

\* insert_trace_logs has no key: the frames of a failed transaction are stored
\* once, and at most once more for every interruption, while the chain only
\* grows.  (A branch may include the transaction again: FramesOnce.)
FramesBounded == reorgs = 0 => \A t \in Txs : traces[t] <= 1 + interrupts

\* When the node's chain stands still during a cycle and nothing is
\* interrupted, the frames of a transaction are stored once, however often it
\* is rolled back and included again, at whatever height.
FramesOnce == \A t \in Txs : traces[t] <= 1

\* When the node's chain stands still during a cycle and nothing is
\* interrupted, the blocks in the database are on the node's chain whenever
\* new ones are added on top of them.
IndexedIsCanonical ==
  pc \in {"chunk", "tasks"} => \A h \in Rows : block[h] = NodeBlock(h)

OwnRow(b) == [body |-> b, rcpt |-> b]

\* When the node's chain stands still during a cycle, a block up to the
\* checkpoint has its own transactions and events; and no transaction, event
\* or failure is stored but those of stored blocks.
CheckpointedComplete ==
  /\ \A h \in base .. checkpoint : block[h] # NoBlock =>
       /\ \A t \in TxsOf(block[h]) : tx[t] = OwnRow(block[h])
       /\ Emitting(block[h]) \subseteq events
  /\ \A t \in StoredTxs : LET b == tx[t].body IN
       /\ tx[t] = OwnRow(b) /\ t \in TxsOf(b) /\ block[Height[b]] = b
       /\ t \in events => t \in Emitting(b)
       /\ t \in failed => t \in Reverting(b)

ForkSeparates ==
  \A h \in Rows :
    IF h >= fork THEN block[h] # NodeBlock(h)
    ELSE block[h] = NodeBlock(h) \/ h \notin Top(Rows, ScanCap)

\* A rollback removes no block but those that left the node's chain, and all
\* of them: it starts at the lowest (R1, "true minimum common ancestor"), or
\* where REORG_SCAN_CAP stops the scan, and the next scan goes on from there.
RollbackIsExact == [][pc = "rollback" /\ pc' = "scan" => ForkSeparates]_vars

\* A checkpoint that has been written only moves back in a rollback, and a
\* rollback moves it back, when the process has never been interrupted.
CheckpointOnlyRewindsInRollback ==
  [][interrupts = 0 /\ checkpoint # NoRow
       => IF pc = "rollback" /\ pc' = "scan"
            THEN checkpoint' < checkpoint
            ELSE checkpoint' >= checkpoint]_vars

\* A stop by Ctrl-C loses nothing: the database then ends at the checkpoint.
CleanStop ==
  pc = "down" /\ interrupts = 0 => \A h \in Rows : h <= checkpoint

\* The database holds the confirmed part of the node's chain from base on,
\* and all of it: no stored block has left the chain.
Synced ==
  /\ checkpoint >= Monus(NodeHead, Confirmations)
  /\ \A h \in base .. checkpoint : block[h] = NodeBlock(h)

\* The follow loop converges, through crashes or through reorganisations
\* that its scans can read: it ends up synced with the node and stays so,
\* unless the node's chain stays shorter than what is stored (then
\* detect_fork has no hash to compare with and waits).
EventuallySynced == <>[](\A h \in Rows : h <= NodeHead) => <>[]Synced

\* Ctrl-C ends follow mode: at a chunk boundary, or at the end of the cycle.
CtrlCStops == cancel /\ pc # "down" ~> pc = "down"

-----------------------------------------------------------------------------
(* What comments and documents say, and the code does not keep *)

\* docs/realtime-follow.md: a rollback "rewinds the checkpoint".
RollbackRewinds ==
  [][pc = "rollback" /\ pc' = "scan" => checkpoint' <= checkpoint]_vars
=============================================================================
