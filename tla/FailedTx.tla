------------------------------- MODULE FailedTx -------------------------------
(***************************************************************************)
(* From the receipts of a block to its rows: the decoding half of          *)
(* process_block and process_failed_txs (crates/indexer/src/worker.rs)     *)
(* with the INSERTs they end in.  Where blocks come from, checkpoints and  *)
(* reorganisations are the business of module Indexer, and so are receipts *)
(* fetched from another block than the body; here both are of one block,   *)
(* which may be processed again after an interruption, and be rolled back. *)
(*                                                                         *)
(* A receipt is [tx, ok, logs, trace]: trace is the answer of              *)
(* debug_traceTransaction.                                                 *)
(***************************************************************************)
EXTENDS Events, Trace, Classifier, FiniteSets

\* A definition named BugX is X with a plausible mistake, and used nowhere.

CONSTANTS
  Blocks,         \* block numbers
  Worlds,         \* what the node may hold: the receipts of every block
  MaxTraceFails,  \* bound on trace calls that fail
  MaxRestarts,    \* bound on processes that end and start again
  MaxRollbacks    \* bound on rollbacks

Receipts == UNION {ToSet(w[b]) : w \in Worlds, b \in Blocks}

\* A transaction is in a chain once, and the tracer gives the root of one that
\* failed an error.
ASSUME WorldAssumption ==
  /\ Blocks \subseteq Int
  /\ Worlds \subseteq [Blocks -> Seq(Receipts)]
  /\ \A r \in Receipts : ~r.ok => r.trace \in Frames /\ r.trace.error
  /\ \A w \in Worlds : \A b, c \in Blocks : \A i \in DOMAIN w[b], j \in DOMAIN w[c] :
       w[b][i].tx = w[c][j].tx => b = c /\ i = j
  /\ MaxTraceFails \in Nat /\ MaxRestarts \in Nat /\ MaxRollbacks \in Nat

VARIABLES
  receipts,    \* the node's receipts, by block
  task,        \* process_block: the next step of each block
  batch,       \* trace_logs and failed_txs of process_failed_txs
  stored,      \* transaction: [tx, block]
  events,      \* swap_event, liquidity_event, token_transfer
  trace_log,   \* in the order of trace_id
  failed,      \* failed_transaction
  triggers,    \* whether sql/triggers is installed
  lost,        \* history: the transactions whose trace call failed, by block
  traceFails, restarts, rollbacks  \* how much of each bound is used

tables == <<stored, events, trace_log, failed>>
bounds == <<lost, traceFails, restarts, rollbacks>>
writerVars == <<receipts, task, batch, tables, triggers, bounds>>

-----------------------------------------------------------------------------

EventTables == <<"swap", "liquidity", "transfer">>

\* The steps of a block after its row is stored.
BugSteps == <<"tx", "swap", "liquidity", "transfer", "trace", "rows", "logs", "done">>
Steps == <<"tx", "swap", "liquidity", "transfer", "trace", "logs", "rows", "done">>

EmptyBatch == [logs |-> <<>>, rows |-> {}]

\* The loop over the logs of a receipt: what decodes is kept, the rest skipped.
RowsOf(r, b, table) ==
  {[block |-> b, tx |-> r.tx, row |-> decode_log(l)] :
     l \in {l \in ToSet(r.logs) : Decodes(l) /\ decode_log(l).table = table}}
RowsFor(rs, b, table) == UNION {RowsOf(r, b, table) : r \in ToSet(rs[b])}

\* failed_tx_hashes, in the order of the receipts
FailedReceipts(rs, b) == Those(rs[b], {r \in Receipts : ~r.ok})

\* "if !swap_events.is_empty()" and the like: a step without rows is left out.
HasWork(rs, b, bt, step) ==
  CASE step = "tx" -> rs[b] # <<>>
    [] step \in ToSet(EventTables) -> RowsFor(rs, b, step) # {}
    [] step = "trace" -> FailedReceipts(rs, b) # <<>>
    [] step = "logs" -> bt.logs # <<>>
    [] step = "rows" -> bt.rows # {}
    [] step = "done" -> TRUE

FirstFrom(i, rs, b, bt) == Steps[Min({j \in i .. Len(Steps) : HasWork(rs, b, bt, Steps[j])})]
Start(rs, b) == FirstFrom(1, rs, b, EmptyBatch)
After(b, bt) == FirstFrom(1 + CHOOSE i \in 1 .. Len(Steps) : Steps[i] = task[b], receipts, b, bt)

\* root.output, its reason, and the category that is stored
ReasonOf(r) == decode_revert_reason(r.trace.output)
FailedRow(b, r) ==
  [tx |-> r.tx, timestamp |-> b, reason |-> ReasonOf(r),
   category |-> StoredCategory(IF ReasonOf(r).is = "none" THEN "UNKNOWN" ELSE classify_error(ReasonOf(r).text))]

\* trg_transaction_check_failed: what is known of a failure when its
\* transaction is stored.
Stub(tx, b) ==
  [tx |-> tx, timestamp |-> b, reason |-> Reason("none", {}), category |-> StoredCategory("UNKNOWN")]

\* What parse_trace makes of every trace it can parse.
Parsed == {r \in Receipts : ~r.ok /\ HasType(r.trace)}
FramesOf == [r \in Parsed |-> parse_trace(r.trace)]

\* FlatFrame to TraceLog
LogsOf(r) == [i \in DOMAIN FramesOf[r] |-> [tx |-> r.tx, frame |-> FramesOf[r][i]]]

\* Whether slicing the reason of one of them panics.
Aborts(rs) == \E i \in DOMAIN rs : ReasonOf(rs[i]).is = "abort"

Done == {b \in Blocks : task[b] = "done"}

\* process_failed_txs: a transaction whose trace call fails, or whose root
\* frame has no type, is left out.
Traced(b, missed) == Those(FailedReceipts(receipts, b), {r \in Parsed : r.tx \notin missed})

\* A trace value has no wider column than the others; TEXT takes no NUL.
LogFits(log) == log.frame.value <= ColumnMax
RowFits(row) == "NUL" \notin row.reason.text

\* Whether the database refuses the statement block b is at: one row that
\* does not fit is enough.
BugRefused(b) ==
  \/ task[b] \in ToSet(EventTables) /\ \E r \in RowsFor(receipts, b, task[b]) : ~Fits(r.row)
  \/ task[b] = "logs" /\ \E l \in ToSet(batch[b].logs) : ~LogFits(l)
  \/ task[b] = "rows" /\ \E r \in batch[b].rows : ~RowFits(r) \/ \E f \in failed : f.tx = r.tx
Refused(b) ==
  \/ task[b] \in ToSet(EventTables) /\ \E r \in RowsFor(receipts, b, task[b]) : ~Fits(r.row)
  \/ task[b] = "logs" /\ \E l \in ToSet(batch[b].logs) : ~LogFits(l)
  \/ task[b] = "rows" /\ \E r \in batch[b].rows : ~RowFits(r)

\* The process ends and starts again: every block that is not under a
\* checkpoint starts over, and nothing of a batch is left.
ProcessEnds ==
  /\ restarts < MaxRestarts
  /\ restarts' = restarts + 1
  /\ \E kept \in SUBSET Done : task' = [b \in Blocks |-> IF b \in kept THEN "done" ELSE Start(receipts, b)]
  /\ batch' = [b \in Blocks |-> EmptyBatch]

-----------------------------------------------------------------------------

\* ON CONFLICT (tx_hash) DO NOTHING: the receipts whose transaction is stored.
NewTxs(b) == {r \in ToSet(receipts[b]) : \A s \in stored : s.tx # r.tx}

\* insert_transactions, with the trigger on every row it inserts:
\* INSERT INTO failed_transaction ... ON CONFLICT (tx_hash) DO NOTHING
Stubs(b) == {Stub(r.tx, b) : r \in {r \in NewTxs(b) : ~r.ok /\ \A f \in failed : f.tx # r.tx}}

InsertTransactions(b) ==
  /\ task[b] = "tx"
  /\ stored' = stored \cup {[tx |-> r.tx, block |-> b] : r \in NewTxs(b)}
  /\ failed' = failed \cup IF triggers THEN Stubs(b) ELSE {}
  /\ task' = [task EXCEPT ![b] = After(b, batch[b])]
  /\ UNCHANGED <<receipts, batch, events, trace_log, triggers, bounds>>

\* insert_swap_events, insert_liquidity_events, insert_token_transfers:
\* ON CONFLICT (tx_hash, log_index) DO NOTHING
InsertEvents(b) ==
  /\ task[b] \in ToSet(EventTables)
  /\ ~Refused(b)
  /\ events' = events \cup RowsFor(receipts, b, task[b])
  /\ task' = [task EXCEPT ![b] = After(b, batch[b])]
  /\ UNCHANGED <<receipts, batch, stored, trace_log, failed, triggers, bounds>>

TraceFailedTxs(b) ==
  /\ task[b] = "trace"
  /\ \E missed \in SUBSET {r.tx : r \in ToSet(FailedReceipts(receipts, b))} :
       LET rs == Traced(b, missed)
       IN  /\ traceFails + Cardinality(missed) <= MaxTraceFails
           /\ traceFails' = traceFails + Cardinality(missed)
           /\ lost' = [lost EXCEPT ![b] = missed]
           /\ ~Aborts(rs)
           /\ batch' = [batch EXCEPT ![b] =
                [logs |-> FlattenSeq([i \in DOMAIN rs |-> LogsOf(rs[i])]),
                 rows |-> {FailedRow(b, rs[i]) : i \in DOMAIN rs}]]
  /\ task' = [task EXCEPT ![b] = After(b, batch'[b])]
  /\ UNCHANGED <<receipts, tables, triggers, restarts, rollbacks>>

\* insert_trace_logs: no key, so rows of an earlier attempt stay beside them.
Logged(logs) == trace_log \o logs

InsertTraceLogs(b) ==
  /\ task[b] = "logs"
  /\ ~Refused(b)
  /\ trace_log' = Logged(batch[b].logs)
  /\ task' = [task EXCEPT ![b] = After(b, batch[b])]
  /\ UNCHANGED <<receipts, batch, stored, events, failed, triggers, bounds>>

\* insert_failed_transactions: ON CONFLICT (tx_hash) DO NOTHING, so the row of
\* an earlier attempt stays, and so does a stub.
InsertFailed(b) ==
  /\ task[b] = "rows"
  /\ ~Refused(b)
  /\ failed' = failed \cup {r \in batch[b].rows : \A f \in failed : f.tx # r.tx}
  /\ task' = [task EXCEPT ![b] = After(b, batch[b])]
  /\ batch' = [batch EXCEPT ![b] = EmptyBatch]
  /\ UNCHANGED <<receipts, stored, events, trace_log, triggers, bounds>>

\* An INSERT fails, or the task panics on a reason: the error ends the chunk
\* and the process.
BlockFails(b) ==
  /\ Refused(b) \/ (task[b] = "trace" /\ Aborts(Traced(b, {})))
  /\ ProcessEnds
  /\ UNCHANGED <<receipts, tables, triggers, lost, traceFails, rollbacks>>

\* The process is stopped between two steps.
Interrupt ==
  /\ ProcessEnds
  /\ UNCHANGED <<receipts, tables, triggers, lost, traceFails, rollbacks>>

\* SELECT tx_hash FROM transaction WHERE block_number >= from_block
BugGoneTxs(b) == {s.tx : s \in {s \in stored : s.block >= b - 1}}
GoneTxs(b) == {s.tx : s \in {s \in stored : s.block >= b}}

\* rollback_from_block, when no block is being processed; the node then serves
\* the blocks of another branch.
Rollback(b) ==
  /\ \A c \in Blocks : task[c] \in {Start(receipts, c), "done"}
  /\ rollbacks < MaxRollbacks
  /\ rollbacks' = rollbacks + 1
  /\ receipts' \in {w \in Worlds : \A c \in Blocks : c < b => w[c] = receipts[c]}
  /\ stored' = {s \in stored : s.block < b}
  /\ events' = {e \in events : e.tx \notin GoneTxs(b)}
  /\ trace_log' = Those(trace_log, {l \in ToSet(trace_log) : l.tx \notin GoneTxs(b)})
  /\ failed' = {f \in failed : f.tx \notin GoneTxs(b)}
  /\ task' = [c \in Blocks |-> IF c < b THEN task[c] ELSE Start(receipts', c)]
  /\ UNCHANGED <<batch, triggers, lost, traceFails, restarts>>

\* scripts/seed.sh, at any time: `docker compose run --rm seed`.
InstallTriggers ==
  /\ ~triggers
  /\ triggers' = TRUE
  /\ UNCHANGED <<receipts, task, batch, tables, bounds>>

WriterInit ==
  /\ receipts \in Worlds
  /\ task = [b \in Blocks |-> Start(receipts, b)]
  /\ batch = [b \in Blocks |-> EmptyBatch]
  /\ stored = {}
  /\ events = {}
  /\ trace_log = <<>>
  /\ failed = {}
  /\ triggers = FALSE
  /\ lost = [b \in Blocks |-> {}]
  /\ traceFails = 0
  /\ restarts = 0
  /\ rollbacks = 0

ProcessBlock(b) ==
  \/ InsertTransactions(b)
  \/ InsertEvents(b)
  \/ TraceFailedTxs(b)
  \/ InsertTraceLogs(b)
  \/ InsertFailed(b)
  \/ BlockFails(b)

WriterNext == Interrupt \/ InstallTriggers \/ \E b \in Blocks : ProcessBlock(b) \/ Rollback(b)
=============================================================================
