# TLA+ models of defi-tx-indexer

This directory holds TLA+ specifications of the parts of defi-tx-indexer that
are hard to get right and hard to test: the follow loop of the indexer with its
reorganisation handling and checkpoint, what wakes it, the decoding of receipts
and traces into rows, the read API over those rows, the two webhook dispatchers
with the API that feeds them, and the terminal client. TLC checks small
instances; TLAPS proves every safety invariant and action property of these
instances for every value of the constants.
`PROJECT.json` lists
components, runs, mutants, findings, hazards, theorems and the source lines
behind every definition.

## 1. Inventory

| Component | State it keeps | Operations | Correct when |
|---|---|---|---|
| **Follow loop** `crates/indexer/src/worker.rs` (`follow`, `detect_fork`, `classify_fork`, `next_scan_depth`, `next_target`, `cap_range_to`) | cancel flag, scan window and fetched hashes, range of the cycle | scan for a fork, roll back, choose a range, index it, wait for a poll or a newHeads tick, stop on Ctrl-C | what is stored converges to the node's confirmed chain; a rollback removes the orphaned blocks and no other; Ctrl-C stops and loses nothing |
| **Head trigger** `worker.rs` (`spawn_head_ticks`, `resolve_trigger_mode`, the `select!` of `follow`) | subscription task, channel of one slot | subscribe, tick, lag, fall back to polling | no head is slept through |
| **Block pipeline** `worker.rs` (`index_range`, `process_chunk`, `process_block`, `process_failed_txs`) | JoinSet of tasks, semaphore | per block: fetch block and receipts concurrently, insert block, transactions, events, trace frames, failures; then the checkpoint | the checkpoint never runs ahead of stored blocks; foreign keys hold whatever a crash leaves; a retry goes through |
| **Indexing tables** `crates/db/src/queries.rs` | `block`, `transaction`, event tables, `trace_log`, `failed_transaction`, `indexer_checkpoint` | `insert_*` (ON CONFLICT DO NOTHING, except `trace_log`), `update_checkpoint`, `rollback_from_block` (one DB transaction) | as above |
| **Triggers** `sql/triggers`, installed by `scripts/seed.sh` | – | a failed transaction leaves an `UNKNOWN` stub in `failed_transaction`; blocks of the future are refused; profiles, audit log, notifications | what the indexer stores later is not lost |
| **Fixed-range mode** `crates/indexer/src/main.rs` | – | resume from the checkpoint, early return, `index_range` | shares the checkpoint row with every other run |
| **Decoder and classifier** `crates/decoder` | – | decode logs, flatten call trees, decode and classify a revert reason | the call tree can be rebuilt from its rows; a reason gets its most specific category |
| **Failed-transaction API** `crates/api/src/routes/failed_tx.rs` | – | list with filters and pages, detail with call tree and root cause | parts of one answer agree; pages add up |
| **Per-event dispatcher** `crates/indexer/src/alerts.rs` (`dispatch_once`, `dispatch_item`), `queries.rs` (`find_pending_alert_matches`, `try_claim_alert_match`, `record_alert_delivery`) | batch, JoinSet; table `alert_delivery` | find, claim, check the URL, sign, POST, record | one holder per pair; delivered is final and true; every match is delivered in the end |
| **Rate alerts** `alerts.rs` (`dispatch_rate_once`, `dispatch_rate_item`), `queries.rs` | batch, JoinSet; table `alert_rate_dispatch` | find full windows, POST, record; no claim | debounced, and a burst is picked up while it is in its window |
| **Subscription API** `crates/api/src/routes/alerts.rs`, `auth.rs` | table `alert_subscription` | create, list, deactivate, rotate the secret (and `delete_alert_subscription`) | what it accepts fits the table; changes take effect on the next sweep |
| **Terminal UI** `crates/tui` | screen, filter, page, selection, loaded values, requests in flight, terminal modes | keys, fetches, answers, polling, set-up and restore | shows the answer to the current question in the end; the terminal is restored |
| **Other read routes, web front end, clients, SQL reports** | – | SELECTs and their presentation | no state of their own |

How they interact. The indexer, any number of dispatchers and the API are
separate processes that share one PostgreSQL database and nothing else. The
indexer reads an Ethereum node over RPC, whose chain changes at any time. It
writes `failed_transaction` (as does a trigger, where `scripts/seed.sh` has
been run, as compose and CI do); the dispatchers join that table with the
subscriptions the API writes, and POST to receivers outside. A rollback of the
indexer removes failed transactions a dispatcher may be working on and a client
of the API may be reading. The terminal client asks the API over HTTP, one task
per request.

The hard behaviours: the node changes between any two calls of the indexer;
tasks of a chunk commit in any order and a crash may fall between any two of
their statements; the scan result is stale when it is used; Ctrl-C arrives
anywhere; heads arrive while the loop is busy, and the subscription ends or
lags; a block is processed again over the rows of an interrupted attempt, and a
transaction is included again by another branch; two
dispatchers see the same pair, one of them dies with the claim, and a late
answer meets a takeover; two dispatchers see the same full window and neither
claims it; an answer of the API is put together from several queries while rows
change; answers reach the terminal client in another order than they were asked
for, after the screen has moved on. The list with source lines is under
`hazards` in `PROJECT.json`.

## 2. Modules

| Module | Models |
|---|---|
| `ForkScan` | the pure functions of the follow loop: `next_target`, `cap_range_to`, `next_scan_depth`, `classify_fork` |
| `Indexer` | node (external), follow loop, pipeline, tables, checkpoint, start, crash, Ctrl-C |
| `HeadTicks` | the subscription task, the channel, the wait of `follow`, the fallback to polling |
| `Events`, `Trace`, `Classifier` | the pure functions of the decoder, and what their columns take |
| `FailedTx` | `process_block` and `process_failed_txs` from receipts to rows, interrupted, retried, rolled back (uses the three above) |
| `FailedTxApi` | the failed-transaction routes beside that writer (extends `FailedTx`) |
| `AlertDispatch` | per-event dispatchers, ledger, receivers, subscription changes, time |
| `Outbox` | abstract: what the per-event alerts promise |
| `AlertOutbox` | refinement mapping from `AlertDispatch` to `Outbox` |
| `AlertApi` | authentication, checks and row of `create_alert_subscription`, and the CHECK constraint |
| `RateAlert` | rate dispatchers, their table, receivers, API calls, time (extends `AlertApi`) |
| `Tui` | application state, keys, requests, answers, terminal modes |
| `MCIndexer`, `MCFailedTx`, `MCAlertDispatch`, `MCRateAlert`, `MCTui` | the instances TLC checks |
| `IndexerProofs`, `IndexerQuietProofs` | theorems about `Indexer`: for every history, and for a node that changes between cycles only |
| `AlertDispatchProofs`, `AlertOutboxProofs` | theorems about `AlertDispatch`, and that it implements `Outbox` |
| `RateAlertProofs`, `HeadTicksProofs`, `TuiProofs` | theorems about the module of that name |
| `FailedTxApiProofs` | theorems about `FailedTxApi`, and with it about `Trace` and `FailedTx` |

Definitions named `BugX` stand next to `X` and differ from it by one plausible
mistake. Nothing uses them; each takes the place of `X` in a mutant run that
must break the property the mutant is listed for.

### Indexer

State and code:

* `tip` is the node's head. Blocks form a constant tree (`Height`, `Chain`);
  the assumption on `Chain` is what parent hashes guarantee: equal hashes at a
  height mean equal chains below. All chains share the genesis block.
* `block`, `tx`, `events`, `traces`, `failed`, `checkpoint` are the tables. A
  block has a sequence of transactions (`Body`), each of which reverts
  (`Reverts`) or emits an event. All tables but `block` are keyed by the
  transaction's hash, which stays the same when another branch includes the
  transaction again, at another height or place and with another status; a
  chain includes it once (`BodyAssumption`).
* Receipts and bodies come from two RPC calls and are joined by index, so
  `tx[t]` records from which block the body and from which the receipt of a row
  was taken. A row is stored only for an index that the body has
  (worker.rs:393): with the receipts of another, longer block some transactions
  get no row. `MissesKey` says that the next INSERT refers to such a
  transaction; the key then refuses it and the error ends the process
  (`KeyRefused`).
* `Triggers` says whether `sql/triggers` is installed: then a failed
  transaction is in `failed` with its row. A transaction that is stored already
  keeps its row and, without an INSERT, gets no stub.
* `pc` is the point of `follow`/`index_range` (`scan`, `rollback`, `head`,
  `chunk`, `tasks`, `wait`, `down`), `task[h].at` the point of `process_block`
  for block h. Every RPC call and every INSERT is a step of its own;
  `rollback_from_block` is one step because it is one DB transaction.
* `base` is a history variable: the first block of the range the checkpoint
  vouches for. The code keeps one checkpoint row for all ranges.
* `Interrupt` is a crash and also every error that `?` carries out of the
  process: a DB error, an RPC call that fails through its 60 s of retries, a
  block that the node does not have. Ctrl-C in fixed-range mode kills the
  process and is an `Interrupt` too.

A null answer to `get_block_receipts` becomes an empty list, as in the code: the
block is stored and nothing else. A failed `debug_traceTransaction` skips the
transaction, as in the code.

`ReferencesHold` covers the keys that remain after the migration
`20240102…relax_fk`: transaction to block, and events, traces and failures to
transaction. They hold for the rows at every instant, no DELETE of a rollback is
refused, and an INSERT is refused only of a block whose task was given the
receipts of another block, never because of what a crash or a rollback left.

### AlertDispatch

State and code:

* `row[p]` is the `alert_delivery` row of a pair (subscription, transaction)
  with its status and the age of `created_at`; `job[w][p]` is the item in
  dispatcher w: `listed` by the query, `claim` when its task is spawned, `post`
  once claimed, then `ok` or `err` until the result is recorded. `key` is the
  secret that was read with the batch.
* The order of a batch is `ORDER BY tx_hash`; rows of one transaction come in
  any order. At most `MaxPosts` tasks run, refilled in the order of the batch.
* `Tick` is the passing of time. `Hold` bounds the time from a claim to its
  recorded result. The code bounds the POST by 10 s (`REQUEST_TIMEOUT_SECS`) and
  lets claims be taken over after 60 s (`CLAIM_STALE_AFTER_SECS`), but nothing
  bounds the database calls around the POST: `Hold <= Stale` is an assumption
  on the deployment, and the properties that need it say so.
* A receiver may take a POST without its answer arriving (`PostLost`), refuse
  it (`PostRejected`), or be one that the URL or key check always rejects
  (`Unsafe`). A task may end in an error, a dispatcher may die at any point.
* `Dead` are the subscriptions whose receiver never answers with success
  (`PostUnanswered`). With the `Unsafe` ones they make the pairs that can never
  be delivered (`Hopeless`); these stay pending for ever and keep their place in
  the order of the batch.
* The column `attempts` is left out: nothing reads it.

### Outbox and AlertOutbox

`Outbox` has neither ledger nor clocks nor processes: a message is free, held by
a sender, sent and acknowledged, or done. It may be sent again only from
`free`, and a sender puts it back there only by giving up or by losing the
answer. `PhaseOf` maps a pair to its phase: the ledger decides what is done, the
tasks decide the rest, so a claim whose dispatcher died counts as free at once
although its row says `claimed` until it is stale. The mapping needs
`Hold <= Stale`; otherwise two tasks may hold one pair and the second POST is no
step of the outbox.

### AlertApi and RateAlert

* `CreateStatus` is the sequence of checks of `create_alert_subscription`, in
  the order of the code, with the status of each refusal. `SchemaCheck` is the
  table's CHECK constraint, written down a second time in the migration.
* Time is kept as ages that stop at `MaxAge`: the age of a failed transaction
  is that of its block (`timestamp`), `last` that of the newest row of
  `alert_rate_dispatch`. Every comparison of the code is with a window or a
  debounce below the cut, so nothing is lost by it.
* `Poll` bounds the time between two rate cycles, `Hold` a task from its start
  to its row, `MaxLag` the time from a block to its rows. The sleep and the
  POST are bounded by the code, database calls and the per-event cycle in
  between are assumptions on the deployment.
* `since` and `overdue` are history variables for `DebounceHolds` and
  `BurstPickedUp`.

### HeadTicks

A cycle is reduced to the head it reads and the blocks it indexes; the rest is
in `Indexer`. Blocks are counted from the checkpoint, so the chain grows for
ever in finitely many states, and `watch` follows one arbitrary block. What the
model makes visible: ticks are not coalesced, a loop that is slow for a while
works through one cycle per head; if it stays slow the subscription's own
buffer (external) overflows, `recv` reports the lag as an error and the loop
polls from then on; heads announced before the subscription is up wait for the
next tick; a Ctrl-C between the look at the flag and the `select!` is seen one
cycle later.

### Events, Trace, Classifier, FailedTx, FailedTxApi

* A log is its event, whether the ABI decoder takes it, and its numbers; a
  revert reason is the set of keywords it contains; a frame is an id with its
  value, error, output and calls. Addresses and hashes are copied by the code
  and left out. Numbers keep their limits: `ColumnMax` for `NUMERIC(38,0)`,
  `U128Max` for the parse of a value, `Word` for the addition in
  `decode_abi_string`.
* `process_block` goes through `Steps`; a step whose INSERT has no rows is left
  out, as in the code (`HasWork`), and an INSERT with one row that does not fit fails as a
  whole and ends the process. A restart processes the block again.
* The transactions of a block are stored first, and with them, where the
  triggers are installed (`triggers`), a `Stub` for each that failed: no reason,
  category `UNKNOWN`, visible to the API before any frame. ON CONFLICT DO
  NOTHING keeps it when `insert_failed_transactions` comes to the same
  transaction. The trigger belongs to the INSERT and is part of
  `InsertTransactions`. `InstallTriggers` is `scripts/seed.sh`, which compose
  leaves to be run by hand: it may come between any two steps, or never, so
  stubs, classified rows and rows of both kinds stand side by side.
* A client of the API reads page after page, or one detail answer in its three
  queries, while blocks are processed and rolled back. `req.grown` records that
  frames or failures were added since a detail was asked for; a request that a
  rollback came between is given up, for its parts may then disagree, and so is
  a list after any write. The decoded function and the diagnosis of a detail
  answer are lookups in seed tables and left out.
* The code recurs over the calls of a frame. `Trace` does the same by recursive
  functions on a constant set, `Frames`, that is closed under calls; `Nesting`
  is the depth of a frame's calls and `MaxNesting` the depth of JSON that
  serde_json takes, so the recursion ends (`TraceAssumption`).
* `WorldAssumption`: a transaction is in a chain once, and the tracer gives the
  root frame of a failed transaction an error. `ApiAssumption` types the
  constants of the routes.

### Tui

A request is a member of the bag `sent`; the task's end and its message in the
channel are one step, since the channel keeps the order in which tasks end.
Answers carry no question in the code; the model keeps it with a loaded value
for the properties only. What a query finds is a set of positions in the
database, and a page is the rows of a range of ranks in it (`Nth`, `Page`).
`prev_screen`, `tick` and `last_updated` drive nothing and are left out. A late answer about another transaction may replace the
selected one's on the detail screen until the next poll: `FreshInTheEnd` is
about what remains. `modes` are raw mode and the alternate screen, each
switched by a call that may fail; a set-up that fails after `enable_raw_mode`
leaves raw mode on, which `TerminalRestored` excludes by `broken`.

## 3. Runs

Passing runs:

| Run | Instance | Shows |
|---|---|---|
| `indexer_free` | two branches of height 2 (fork at 1), the node may change at every step, one reorganisation, one crash, two tasks, triggers, follow mode and fixed ranges | `TypeOK`, `ReferencesHold`, `CheckpointCovered`, `CheckpointOnlyRewindsInRollback` |
| `indexer_quiet` | two branches of height 5 (fork at 1), a scan cap of 4, the node changes between cycles, two reorganisations, Ctrl-C, triggers | rollbacks are exact up to the cap (`RollbackIsExact`), nothing is built on an orphan (`IndexedIsCanonical`), blocks below the checkpoint are complete (`CheckpointedComplete`), frames are stored once (`FramesOnce`), `CleanStop`, and under fairness `EventuallySynced`, `CtrlCStops` |
| `indexer_crash` | one confirmation, two tasks, two crashes at any step, one failed scan, the chain grows at any step | `EventuallySynced`, and how often frames are stored (`FramesBounded`) |
| `head_ticks` | two blocks per cycle, two heads buffered, every trigger mode, the stream ends or lags at any time | no head is slept through (`NoLostTick`), every confirmed block is indexed or the loop has stopped (`HeadsIndexed`) |
| `failed_tx` | two blocks and three transactions in seven worlds of receipts, one failed trace call, one restart, one rollback, triggers installed at any time or never, one client with three hashes and three list queries | `TypeOK`, `FramesPrecedeFailure`, `TracedIsStored`, `TreeFaithful`, `CauseInTree`, `PagesComplete`, `RetryGoesThrough` |
| `alert_safety` | two dispatchers (symmetric), a good subscription and one whose URL is rejected, one concurrent POST, a crash, a lost answer, a refusal, three API calls or rollbacks | `TypeOK`, `ExclusiveClaim`, `DeliveredIsFinal`, `DeliveredWasAccepted`, `DuplicatesAreExplained`, `ImplementsOutbox` |
| `alert_live` | three pairs under a LIMIT of two, the first of a receiver that never answers, a crash, a refusal | `EventuallyDelivered` |
| `rate_alert` | two dispatchers (symmetric), two subscription ids, one transaction, one crash, one refusal, one API call or rollback | `AcceptedPassesCheck`, `DebounceHolds`, `RaceIsShort`, `BurstPickedUp` |
| `tui` | three transactions on pages of two, four keys, two requests in flight, one error, the database shrinks once | `InflightExact`, `LoadingIsBacked`, `CursorOnRow`, `TerminalRestored`, `FreshInTheEnd` |

Runs that end in a violation, each a statement of a document that the code does
not keep:

| Run | Statement | What happens |
|---|---|---|
| `indexer_blind_scan` | reorganisations up to the cap are corrected exactly | the scan cannot read a block and is skipped; the cycle indexes on top of an orphan; from then on the scan matches at the tip and never looks below |
| `indexer_rollback_raises` | a rollback rewinds the checkpoint | a crash leaves block n+2 stored and n+1 not; a fork at n+2 sets the checkpoint to n+1, a block that is never stored |
| `alert_starved` | a webhook is delivered for each matching failed transaction | as many pairs as LIMIT takes belong to receivers that never answer; `ORDER BY tx_hash` puts them first in every sweep, and the pairs behind them are never looked at |

Bounds.

* Indexer: two branches suffice for a fork scan, which compares one stored chain
  with one node chain. In `indexer_quiet` the window widens from 1 to the cap of
  4 while five rows may be orphans, so a scan ends at a match, above one, at the
  lowest row, or at the cap, and the next scan goes on below what was rolled
  back. A cap beyond 4, where the window widens twice, is left to
  `RollbackExactness`, which holds for every cap. A batch of 2 with a cycle cap
  of 2 or 3 gives full and partial chunks and ranges cut by the cap; two permits
  let tasks of a chunk overlap. Three transactions are in blocks of both branches, at
  the same or another height and place, with the same or another status, in
  blocks of the same or another length: foreign receipts find fewer, as many or
  more entries in the body. The triggers are installed in two runs and not
  in the third.
* Dispatchers: two processes are what a claim separates, `Stale` and `Hold` of 1
  or 2 put every order of claim, expiry and takeover in reach, and one accident
  of each kind is enough for the account in `DuplicatesAreExplained` to be
  tight. `MaxAccepted` is above that bound, so it hides nothing. `alert_live` has one
  dispatcher: what it asks is that a claim left by a crash comes back and that
  the order of the batch leaves nobody behind, and with LIMIT 2 the hopeless pair
  takes one of the two places in every sweep. In `RateAlert`
  a debounce of 4 and a window of 3 with steps of 1 for `Poll`, `Hold` and
  `MaxLag` let a window empty before, during and after a debounce.
* `HeadTicks`: with a buffer of 2 and one slot, four heads overflow; `MaxBehind`
  5 lies beyond two cycles. Counting stops there, which only makes the loop's
  task harder.
* `FailedTx`: `ColumnMax` 9 and `U128Max` 12 keep the order of 10^38 - 1 and
  2^128 - 1, so a value may parse and still not fit its column; `Word` is beyond
  any output. Trees have up to five frames where four are shown; `Frames`,
  `Nesting` and `MaxNesting` follow from the traces listed. Restarts are
  bounded because a block that never fits is retried for ever and adds frames
  every time; this is also why no liveness is asked here. Three hashes are asked
  for: one whose failure the worlds trace in different ways, one that shares a
  block with another, and one that is no hash.
* `Tui`: four keys reach every screen, a filter or page change on the list, and
  a return while two answers are under way.

Fairness. `FairSpec` of `Indexer` asks that a process which can move does
(`WF(Step)`: the runtime polls it, RPC calls end in an answer or an error) and
that follow mode is started again when it has ended (an operator or a
supervisor). Nothing is asked of the node, of crashes or of Ctrl-C. `FairSpec`
of `AlertDispatch` asks that time passes, that every dispatcher keeps sweeping
and that every task moves on; crashes, lost answers and refusals are bounded,
so after finitely many of them receivers accept. `FairSpec` of `HeadTicks` asks
that the chain grows, that the runtime runs loop and task, and that the timer
fires; the stream may end at any time and need not. `FairSpec` of `Tui` asks
that the loop runs and ends, that its interval ticks, and that every request
comes back, with an answer or with the client's timeout; nothing is asked of the
user. `RateAlert` needs none: its deadlines are bounds on `Tick`, and deadlock
is checked.

`CHECK_DEADLOCK FALSE` is set where the system may stop: the per-event
dispatcher with all pairs settled, `head_ticks` after the loop has returned,
`failed_tx` when all blocks are done, and `tui` when the process
has ended.

## 4. Proofs

`IndexerProofs` proves, for every block tree, every configuration (batch size,
cycle cap, scan cap, permits, confirmations, ranges) and every bound:
`TypeCorrect`, `ReferentialIntegrity`, `CheckpointIsCovered`,
`FramesPerInterruption`, `StopIsClean`, `CheckpointDirection`. The assumptions
are `ChainAssumption` (what a tree of blocks is) and `ConfigAssumption` (types).

The inductive invariant `IInv` adds what the safety properties rest on:

* `TasksOK`: tasks exist only in `process_chunk`, for blocks of the chunk; the
  body and the receipts a task holds are of its own height; past an INSERT the
  block's row is there, and the rows of its transactions if body and receipts are
  of one block. Hence `KeysOK`, the part of `ReferencesHold` about INSERTs.
* `RangeOK`: a chunk starts right above the checkpoint or at `base`. With
  "all joined" it carries `CheckpointCovered` over `update_checkpoint`.
* `CleanOK`: without an interruption only the current chunk is stored above
  the checkpoint. Hence a fork lies at or below the checkpoint and a rollback
  really rewinds. This is the fact that a crash destroys and that
  `indexer_rollback_raises` exploits.
* `NoReorgOK`: without a reorganisation everything read is on the node's
  chain, so no rollback happens. `CleanOK` and `NoReorgOK` are the two cases of
  `CheckpointCovered`.
* `GenesisOK`, `ForkOK`: no fork is found at height 0, so the code's
  `(from_block - 1).max(0)` never claims a genesis block that was deleted.
* `TracesOK`: without a reorganisation, a transaction has more frames than there
  were interruptions only if its block is below the checkpoint or its running
  task has stored them. It needs that a chain includes a transaction once
  (`InChainOnce`); with a reorganisation another block includes it again, and
  the fact is gone.

`AlertDispatchProofs` proves, for any number of dispatchers, subscriptions and
transactions: `TypeCorrect`, `ClaimsAreExclusive`, `DeliveredIsTrue`,
`DuplicatesBounded`, `DeliveredStays`. The invariant `DInv` says that a holder's
row is claimed and as old as its claim (`LeaseOK`, the reason why a held row is
never taken over when `Hold <= Stale`), that an `ok` task has been answered
(`AnsweredOK`), and keeps an account: a pair that is neither delivered nor about
to be has been accepted at most once per accident (`AccountOK`).

`AlertOutboxProofs` proves `OutboxRefinement`: `Spec => ImplementsOutbox` when
`Hold <= Stale`. Every action of `AlertDispatch` is shown to be a step of
`Outbox` under `PhaseOf`, or to leave all phases alone; most of them are
the latter (finding, time, the API, a late record that the ledger refuses).
`OInv` is `DInv` with one more fact, `DeletedOK`: a deleted subscription takes
its ledger rows along and no late result brings one back, without which a
cancelled message could come to be done.

`IndexerQuietProofs` proves what the documents promise of reorganisations, for
every block tree, scan cap, batch size and number of permits, under `Quiet`: the
node changes only between cycles, no RPC call fails, nothing is interrupted and
no fixed range is run beside follow mode. That these hypotheses are needed is
what `indexer_blind_scan` and section 6 show; they are those of the run
`indexer_quiet`. The invariant `QInv`, on top of `IInv`:

* `Linked`: the stored blocks are on one chain, the node's or one it has left.
  So if a block of the scan window matches, all below it match too, and looking
  at the highest rows is enough. A crash that leaves a gap, or a cycle over a
  moving chain, destroys this.
* `ScanOK`, `HeadOK`: what a scan has fetched is the chain, and after it the rows
  are canonical or the chain is shorter than the checkpoint, where `next_target`
  chooses no range.
* `TasksCanon`: body and receipts of a task are one block of the chain, and past
  an INSERT its rows are there.
* `OwnTx`: every transaction row was taken from the stored block of its height,
  with the receipt of that block. Since rollbacks are exact a transaction
  that another branch includes again has lost its old row by then (`StoredOnce`),
  so that ON CONFLICT never keeps a foreign one.
* `Complete`, `FramesOK`: below the checkpoint, and through tasks that are past
  the INSERT, a block has its rows; frames are there once, and only there.

Hence `StoredIsCanonical`, `CheckpointedIsComplete` and `FramesStoredOnce`.
`RollbackExactness` needs also `ForkExact`: when the scan has decided to roll
back, every stored block from the fork on is off the chain, and those below it
are on the chain or below what the cap lets the scan see. So a scan that the cap
cuts off removes only orphans, the next one goes on from there, and the other
theorems need no bound on the cap either. The lowest and the highest row are
found with the well-foundedness of the naturals (`LeastOfNats`), which is
first-order.

`RateAlertProofs` proves for any number of dispatchers and subscriptions:

* `InsertsPassCheck`, from the order of the checks in `CreateStatus`.
* `Debounce`. There is no claim, so this rests on `RowAfterPost` (what a
  dispatcher has posted has left a row that is no older than the post, unless
  its task still has the item) and `DueSince` (what is in a batch was last
  posted by this dispatcher a debounce ago).
* `RacesAreShort`, from `RaceAt`: an item whose debounce another dispatcher has
  started since it was listed has lost at most `Hold` for each item before it
  and the time the running tasks have used. The sum over a cycle is
  the induction hypothesis; the bound with `CycleTime` alone is not inductive.
* `BurstsArePickedUp`, from `BurstInv`, an account of the same kind of how long
  a due subscription has been waiting for each dispatcher (`BusyWait`,
  `IdleWait`). It asks for `Workers # {}`: with no dispatcher time passes and
  nothing is picked up.

`HeadTicksProofs` proves `TypeCorrect` and `NoTickIsLost` for every buffer and
cycle size. `NoLostTick` speaks of the wait only and is not inductive; `HInv` has
`HeadPending`, which says the same already while the loop indexes, from the
moment it has read the head.

`TuiProofs` proves `TypeCorrect`, `LoadingIsSettled`, `CursorIsOnRow`,
`TerminalIsRestored` and `InflightIsExact` for all databases, filters, page sizes and bounds. `TInv`
adds that `sent` is a bag, and `ShownOK`: every loaded value has hashes, no more
rows than a page holds and a total within the database. That answers are such
values (`AnswerOK`) needs a fact about `OFFSET` and `LIMIT`: every rank
up to the size of a set of positions is taken (`NthIsThere`). `inflight` counts
the pairs of a request and its number in the bag (`UnderWay`): a request asked
again adds the pair with the next number, an answer removes the last one, and
so the counter follows the bag by one either way (`CountGrows`, `CountShrinks`).

`FailedTxApiProofs` proves, for all receipts and traces, all block sets and all
queries of the two routes, with blocks interrupted, processed again and rolled
back at any point of an answer:

* `FramesComeFirst`, `TracedStored` and `RetriesGoThrough`, from `WriterOK`. What
  makes it inductive is the content of the tables: a batch is what its block's
  receipts give for the traces that were answered (`BatchOK`); a failure is of
  a stored transaction that is still in the chain, its classified row or, once the
  triggers are installed, its stub (`FailedOK`, `StoredOK`); the frames of a
  transaction are its trace as often as it was inserted, in one piece each time
  (`LogOK`, `Repeats`); and a block that is done has both for what it traced
  (`Finished`). `FramesComeFirst` excepts stubs: those do come first, and
  alone if the trace call fails. It still says that no classified row does.
* `CauseIsInTree`, from `DetailOK`: what a detail request has read agrees with
  the tables while no row has changed, and while rows are only added the first
  frame it read is still the first (`FirstKept`). A failure without frames, which
  a stub may be, has an empty call tree and a null cause.
* `PagesAreComplete`, from `ListOK`: the i-th row a client has seen has i - 1
  rows before it in the order of the query (`Ranked`), and a page continues
  where the last one ended (`SeenOK`). That the ranks exhaust a finite set of
  rows is a fact about the order alone.
* `TreeIsFaithful`: who calls whom, and in which place, can be read off the rows
  that `flatten_call_frame` leaves, and off each copy of them. `Grafted` is the
  step: behind the rows of a frame and its first calls, the rows of one more
  call add that call's links and one link from the frame, at the next place.
  `AllRooted` and `EdgesRebuilt` are the induction over the nesting of frames
  with it; `CopiesAre` cuts repeated rows into their copies.

The induction theorems of the library cannot be instantiated here, so induction
is by least elements: a set of counterexamples is a set, its ranks are a set of
naturals, and that has a least element (`LeastOfNats`, `Induct`, `SeqInduct`,
`FrameInduct`). A recursive function is only known to satisfy its equation when
some function does: `FlattenExists` builds that function stage by stage for
`flatten_call_frame`, and for `Edges` what is rebuilt from the rows is one.

Every inductive invariant was checked with TLC as an invariant of the runs'
instances before it was proved.

Only model-checked: everything under fairness (`EventuallySynced`,
`CtrlCStops`, `EventuallyDelivered`, `HeadsIndexed`, `FreshInTheEnd`), which is outside the prover.

## 5. Plan

The modules above are the whole of the planned model. Eight of them hold
theorems, and every safety invariant and action property of a passing run is
stated by one. What remains with TLC alone is liveness.

## 6. Not modelled

* `abi.rs`, function signatures and diagnosis seeds: byte-level decoding for
  display, and lookups in tables that nothing writes.
* Read routes other than those of failed transactions (pools, tokens, swaps,
  contract labels, aggregates, time series, health): single SELECTs.
* Signing of webhooks, URL redaction, payload formatting, metrics, logging,
  configuration from the environment.
* Drawing and formatting of the terminal client (`ui/`, `dto.rs`), web front end,
  example clients.
* SQL views, procedures and OLAP queries: derived data and reports.
* The triggers other than `trg_transaction_check_failed`: `user_profile` and
  `audit_log` are written for nobody modelled here (a rollback does not undo
  them, and no document says it should), `price_snapshot` only notifies, and a
  block more than 15 s in the future makes its INSERT fail, which is an
  `Interrupt`.
* A request task of the terminal client that panics: the panic hook is modelled
  for the process, a lost answer is not.
* More than one accepted rate configuration in a run: `rate_alert` has one
  window, threshold and debounce that pass the checks beside bodies that fail
  them, and one failed transaction (a threshold of 1). The theorems of
  `RateAlertProofs` are for all.

Observations from the reading, without a run of their own:

* Block and receipts come from two calls (worker.rs:351). A null answer becomes
  an empty list, a reorganisation in between gives receipts of another block,
  and the checkpoint passes the block either way. The migration's comment calls
  it the last fully processed block. `CheckpointedComplete` is therefore stated
  for a node that stands still within a cycle.
* A failed trace call is skipped for good (worker.rs:525).
* docs/api-alerts.md:5 speaks of exactly-once delivery; a dispatcher that dies
  between the POST and the record posts again. `DuplicatesAreExplained` bounds
  how often.
* A batch read before a rotation keeps the old secret (routes/alerts.rs:239
  promises the new one), for the rest of that batch.
* What starves pairs behind a full batch of hopeless ones (`alert_starved`) also
  holds for rate alerts with a debounce of 0.
* A transaction that another branch includes again keeps its hash
  (queries.rs:107, `ON CONFLICT (tx_hash) DO NOTHING`). When the chain moves
  between two blocks of one cycle, the second block finds the row of the first:
  the frames of a failed transaction are stored twice with no interruption
  (`trace_log` has no key), and the one row stays with the block that later
  leaves the chain and is deleted with it. `FramesBounded` is therefore stated
  for a chain that only grows, `FramesOnce` for one that changes between cycles.
* With the receipts of another block that has more transactions, some get no row
  (worker.rs:393), and the key refuses their events, frames or failures: the
  error ends the process, and the restart fetches both again.
* The category of a failure is mapped to the enum a second time (worker.rs:587),
  five of ten by name and the rest to `UNKNOWN`; and where the triggers are
  installed the stub (001_triggers.sql:66) is there first, so that
  `ON CONFLICT DO NOTHING` (queries.rs:344) drops category and reason
  altogether. docs/api-failed-tx.md:309 says that new transactions get the more
  specific category. Alert subscriptions to a category match what is stored.
* `attempts` is incremented by the claim and by the record, and read by nothing.
* When a revert bubbles up every frame on its way has an error, so `root_cause`
  (queries.rs:649), the first of them, is the root frame, where
  docs/api-failed-tx.md:171 describes the origin.
* A swap with `amount0` equal to 0 has `amount_in` 0.
* `next_page` of the terminal client goes by the total of the list that is shown
  (app.rs:496); after the database has shrunk it may end on an empty page under
  the banner that no failed transactions match.
* One checkpoint row serves all ranges, so after a later range main.rs:149
  reports an earlier one as already indexed.
* `--to-block` left out means one block (main.rs:147) where config.rs:16 says
  the latest; `rpc_with_retry` is bounded by 60 s and not by the 5 retries its
  comment names.
