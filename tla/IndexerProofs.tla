---------------------------- MODULE IndexerProofs ----------------------------
(***************************************************************************)
(* Proofs about the indexer for every block tree, batch size, cycle cap,   *)
(* scan cap, number of permits, set of backfill ranges and bound.          *)
(***************************************************************************)
EXTENDS Indexer, FiniteSetTheorems, TLAPS

-----------------------------------------------------------------------------
(* The inductive invariant *)

\* Points of process_block at which the block is known to have its row, and
\* those at which its transactions have theirs too.
HasBlockRow == {"tx", "events", "trace", "traceLogs", "failedTx"}
HasTxRow == HasBlockRow \ {"tx"}

\* Tasks exist only inside process_chunk and only for the chunk's blocks;
\* what a task knows is what it has fetched and stored.
TasksOK ==
  /\ pc # "tasks" => task = NoTasks
  /\ pc = "tasks" => next <= last
  /\ \A h \in Heights :
       /\ task[h].at # "idle" => h \in ChunkHeights
       /\ task[h].at \in {"fetchReceipts", "block", "tx"} => task[h].blk # NoBlock
       /\ task[h].blk # NoBlock => Height[task[h].blk] = h
       /\ task[h].rcpt # NoBlock => Height[task[h].rcpt] = h
       /\ task[h].at \in HasBlockRow => task[h].rcpt # NoBlock
       /\ task[h].at \in Stored => block[h] # NoBlock
       /\ task[h].at \in HasTxRow /\ task[h].blk = task[h].rcpt => TxsOf(task[h].rcpt) \subseteq StoredTxs
       /\ task[h].at \in {"traceLogs", "failedTx"} => task[h].traced \subseteq Reverting(task[h].rcpt)

\* The chunk being indexed starts right above the checkpoint, or starts the
\* range that the checkpoint will vouch for.
RangeOK ==
  pc \in {"chunk", "tasks"} =>
    /\ next > checkpoint
    /\ (checkpoint # NoRow /\ next = checkpoint + 1) \/ base = next

\* Genesis is shared by all chains, so no fork is ever found at height 0.
GenesisOK ==
  \A b \in Blocks :
    /\ block[0] \in {NoBlock, Chain[b][0]}
    /\ seen[0] \in {NoBlock, Chain[b][0]}
    /\ task[0].blk \in {NoBlock, Chain[b][0]}

\* A rollback about to happen starts at a stored block above genesis.
ForkOK == pc = "rollback" => fork > 0 /\ block[fork] # NoBlock

\* Never interrupted: nothing is stored above the checkpoint but the chunk in
\* progress.
CleanOK ==
  interrupts = 0 =>
    \A h \in Heights : block[h] # NoBlock
      => h <= checkpoint \/ (pc = "tasks" /\ h \in ChunkHeights)

\* Never reorganised: only transactions of the chain are traced; and one that
\* has been traced once more than the process was interrupted is below the
\* checkpoint, or in a block whose task has stored its frames.
InChain(t, h) == NodeBlock(h) # NoBlock /\ t \in TxsOf(NodeBlock(h))
TracesOK ==
  reorgs = 0 =>
    \A t \in Txs :
      /\ traces[t] > 0 => \E h \in Heights : InChain(t, h)
      /\ traces[t] > interrupts =>
           \A h \in Heights : InChain(t, h) => h <= checkpoint \/ task[h].at \in {"failedTx", "done"}

\* Never reorganised: everything read and stored is on the node's chain.
OnChain(h, x) == x \in {NoBlock, Chain[tip][h]}
NoReorgOK ==
  reorgs = 0 =>
    /\ pc # "rollback"
    /\ \A h \in Heights :
         OnChain(h, block[h]) /\ OnChain(h, seen[h]) /\ OnChain(h, task[h].blk) /\ OnChain(h, task[h].rcpt)

IInv ==
  /\ TypeOK
  /\ TasksOK
  /\ RangeOK
  /\ GenesisOK
  /\ ForkOK
  /\ CleanOK
  /\ TracesOK
  /\ NoReorgOK
  /\ ReferencesHold
  /\ CheckpointCovered
  /\ FramesBounded

-----------------------------------------------------------------------------
(* Facts about the decision functions *)

\* The range a follow cycle indexes lies on the node's chain, is not empty and
\* starts right above the checkpoint when there is one.
LEMMA TargetRange ==
  ASSUME NEW head \in Heights, NEW cp \in Heights \cup {NoRow},
         next_target(head, Confirmations, cp) # NoTarget
  PROVE  LET target == next_target(head, Confirmations, cp)
             range  == cap_range_to(target[1], target[2], CycleCap)
         IN  /\ range[1] \in Heights
             /\ range[2] \in Heights
             /\ range[1] <= range[2]
             /\ range[1] > cp
             /\ cp # NoRow => range[1] = cp + 1
<1> DEFINE target == next_target(head, Confirmations, cp)
           safe == Monus(head, Confirmations)
           resume == IF cp = NoRow THEN safe ELSE Larger(cp, 0) + 1
<1>1. safe \in Heights
  BY ChainAssumption, ConfigAssumption DEF Heights, Monus
<1>2. resume \in Nat /\ resume > cp /\ (cp # NoRow => resume = cp + 1)
  BY <1>1 DEF Heights, NoRow, Larger
<1>3. resume <= safe /\ target = <<resume, safe>>
  BY <1>1, <1>2 DEF next_target, Heights
<1>4. resume \in Heights
  BY <1>1, <1>2, <1>3, ChainAssumption DEF Heights
<1> DEFINE range == cap_range_to(resume, safe, CycleCap)
<1>5. range[1] = resume /\ range[2] \in Heights /\ resume <= range[2]
  <2>1. CASE CycleCap = 0 \/ safe < resume \/ safe - resume + 1 <= CycleCap
    BY <2>1, <1>1, <1>3, <1>4 DEF cap_range_to
  <2>2. CASE ~(CycleCap = 0 \/ safe < resume \/ safe - resume + 1 <= CycleCap)
    BY <2>2, <1>1, <1>3, <1>4, ConfigAssumption, ChainAssumption DEF cap_range_to, Heights
  <2> QED  BY <2>1, <2>2
<1> QED  BY <1>2, <1>3, <1>4, <1>5

\* A fork height is a stored height whose chain hash is known and different.
LEMMA ForkIsMismatch ==
  ASSUME TypeOK, NEW f \in classify_fork(Local, seen, depth, NoBlock).at
  PROVE  /\ f \in Heights
         /\ block[f] # NoBlock
         /\ seen[f] # NoBlock
         /\ seen[f] # block[f]
<1> DEFINE window == Top(DOMAIN Local, depth)
<1>1. f \in Mismatched(Local, seen, window, NoBlock)
  BY DEF classify_fork, Lowest
<1>2. f \in window /\ f \notin Decisive(Local, seen, window, NoBlock)
  <2>1. f \in window /\ \A d \in Decisive(Local, seen, window, NoBlock) : d < f
    BY <1>1 DEF Mismatched
  <2>2. window \subseteq Heights
    BY DEF Top, Local, Rows
  <2> QED  BY <2>1, <2>2, ChainAssumption DEF Heights
<1>3. f \in DOMAIN Local
  BY <1>2 DEF Top
<1>4. f \in Rows /\ Local[f] = block[f]
  BY <1>3 DEF Local, Top
<1> QED  BY <1>2, <1>4 DEF Decisive, Rows

\* The scan depth stays a natural number.
LEMMA ScanDepthType ==
  ASSUME TypeOK
  PROVE  next_scan_depth(depth, Cardinality(DOMAIN Local)) \in Nat
<1>1. DOMAIN Local \subseteq 0 .. MaxHeight
  BY DEF Local, Top, Rows, Heights
<1>2. IsFiniteSet(0 .. MaxHeight)
  BY FS_Interval, ChainAssumption
<1>3. Cardinality(DOMAIN Local) \in Nat
  BY <1>1, <1>2, FS_Subset, FS_CardinalityType
<1> QED  BY <1>3 DEF next_scan_depth, Smaller, Larger, TypeOK

\* The end of a chunk is a height of the range.
LEMMA ChunkEndType ==
  ASSUME TypeOK, next <= last
  PROVE  /\ ChunkEnd \in Heights
         /\ next <= ChunkEnd
         /\ ChunkEnd <= last
         /\ next \in Heights
BY ChainAssumption, ConfigAssumption DEF TypeOK, ChunkEnd, Smaller, Heights

-----------------------------------------------------------------------------
(* Type correctness *)


\* The type of a task.
TaskRec == [at : TaskPoints, blk : MaybeBlock, rcpt : MaybeBlock, traced : SUBSET Txs]

\* The type of a row of table transaction, or none.
TxRec == [body : Blocks, rcpt : Blocks] \cup {NoTx}

\* The initial state is typed.
LEMMA InitType == Init => TypeOK
<1> SUFFICES ASSUME Init PROVE TypeOK
  OBVIOUS
<1>1. task \in [Heights -> TaskRec]
  BY DEF Init, NoTasks, IdleTask, TaskRec, TaskPoints, MaybeBlock
<1>2. 0 \in Heights /\ base = 0 /\ fork = 0 /\ last = 0 /\ next = 0
  BY ChainAssumption DEF Init, Heights
<1>3. /\ block \in [Heights -> MaybeBlock]
      /\ tx \in [Txs -> TxRec]
      /\ seen \in [Heights -> MaybeBlock]
      /\ traces \in [Txs -> Nat]
  BY DEF Init, MaybeBlock, TxRec
<1>4. /\ reorgs \in 0 .. MaxReorgs
      /\ interrupts \in Nat
      /\ stops \in 0 .. MaxStops
      /\ rpcFailures \in 0 .. MaxRpcFailures
  BY ConfigAssumption DEF Init
<1>5. /\ tip \in Blocks /\ events \subseteq Txs /\ failed \subseteq Txs
      /\ checkpoint \in Heights \cup {NoRow}
      /\ pc \in PCs /\ mode \in {"follow", "backfill"} /\ cancel \in BOOLEAN
      /\ depth \in Nat
  BY DEF Init, PCs
<1> QED  BY <1>1, <1>2, <1>3, <1>4, <1>5 DEF TypeOK, TaskRec, TxRec

\* A task that moves on keeps what it has fetched.
LEMMA TaskMoves ==
  ASSUME TypeOK, NEW h \in Heights, NEW from, NEW to \in TaskPoints, TaskAt(h, from, to)
  PROVE  task' \in [Heights -> TaskRec]
BY DEF TypeOK, TaskAt, TaskRec

\* The body of a block consists of transactions.
LEMMA TxsAreTxs ==
  ASSUME NEW b \in Blocks
  PROVE  TxsOf(b) \subseteq Txs
<1>1. Body[b] \in Seq(Txs)
  BY BodyAssumption
<1> QED  BY <1>1 DEF TxsOf

\* process_block changes the tables and its task.
LEMMA TaskType ==
  ASSUME TypeOK, TasksOK, NEW h \in Heights, ProcessBlock(h)
  PROVE  TypeOK'
<1> USE DEF TaskPoints, Active, Stored
<1>1. task' \in [Heights -> TaskRec]
  <2>1. CASE AcquirePermit(h)  BY <2>1, TaskMoves DEF AcquirePermit
  <2>0. NodeBlock(h) \in MaybeBlock /\ task \in [Heights -> TaskRec]
    BY ChainAssumption DEF NodeBlock, TypeOK, TaskRec, MaybeBlock
  <2>2. CASE FetchBlock(h)
    <3>1. [task[h] EXCEPT !.at = IF task[h].at = "fetch" THEN "fetchReceipts" ELSE "block",
                          !.blk = NodeBlock(h)] \in TaskRec
      BY <2>0 DEF TaskRec
    <3> QED  BY <2>0, <2>2, <3>1 DEF FetchBlock
  <2>3. CASE FetchReceipts(h)
    <3>1. [task[h] EXCEPT !.at = IF task[h].at = "fetch" THEN "fetchBlock" ELSE "block",
                          !.rcpt = NodeBlock(h)] \in TaskRec
      BY <2>0 DEF TaskRec
    <3> QED  BY <2>0, <2>3, <3>1 DEF FetchReceipts
  <2>4. CASE InsertBlock(h)  BY <2>4, TaskMoves DEF InsertBlock
  <2>5. CASE InsertTransactions(h)  BY <2>5, TaskMoves DEF InsertTransactions
  <2>6. CASE InsertEvents(h)  BY <2>6, TaskMoves DEF InsertEvents
  <2>7. CASE TraceFailedTxs(h)
    <3>1. PICK traced \in SUBSET Reverting(task[h].rcpt) :
            task' = [task EXCEPT ![h] = [@ EXCEPT !.at = IF traced = {} THEN "done" ELSE "traceLogs",
                                                  !.traced = traced]]
      BY <2>7 DEF TraceFailedTxs
    <3>2. task[h].rcpt \in Blocks
      BY <2>7 DEF TraceFailedTxs, TasksOK, HasBlockRow, TypeOK, MaybeBlock
    <3>3. traced \in SUBSET Txs
      BY <3>1, <3>2, BodyAssumption DEF Reverting
    <3>4. [task[h] EXCEPT !.at = IF traced = {} THEN "done" ELSE "traceLogs", !.traced = traced] \in TaskRec
      BY <2>0, <3>3 DEF TaskRec
    <3> QED  BY <2>0, <3>1, <3>4
  <2>8. CASE InsertTraceLogs(h)  BY <2>8, TaskMoves DEF InsertTraceLogs
  <2>9. CASE InsertFailedTransactions(h)  BY <2>9, TaskMoves DEF InsertFailedTransactions
  <2> QED  BY <2>1, <2>2, <2>3, <2>4, <2>5, <2>6, <2>7, <2>8, <2>9 DEF ProcessBlock
<1>2. UNCHANGED <<node, checkpoint, pc, scanVars, next, last, base, procVars>>
  BY DEF ProcessBlock, AcquirePermit, FetchBlock, FetchReceipts, InsertBlock, InsertTransactions,
         InsertEvents, TraceFailedTxs, InsertTraceLogs, InsertFailedTransactions, db
<1>3. task[h].at \in HasBlockRow => task[h].rcpt \in Blocks
  BY DEF TasksOK, TypeOK, MaybeBlock
<1>4. events' \subseteq Txs /\ failed' \subseteq Txs
  <2>1. task[h].at \in HasBlockRow =>
          TxsOf(task[h].rcpt) \subseteq Txs /\ Emitting(task[h].rcpt) \subseteq Txs
          /\ Reverts[task[h].rcpt] \subseteq Txs
    BY <1>3, TxsAreTxs, BodyAssumption DEF Emitting
  <2>2. task[h].traced \subseteq Txs
    BY DEF TypeOK
  <2> QED  BY <2>1, <2>2 DEF ProcessBlock, AcquirePermit, FetchBlock, FetchReceipts, InsertBlock, InsertTransactions,
         InsertEvents, TraceFailedTxs, InsertTraceLogs, InsertFailedTransactions, db, TypeOK, TaskAt, HasBlockRow
<1>5. block' \in [Heights -> MaybeBlock]
  BY DEF ProcessBlock, AcquirePermit, FetchBlock, FetchReceipts, InsertBlock, InsertTransactions,
         InsertEvents, TraceFailedTxs, InsertTraceLogs, InsertFailedTransactions, db, TypeOK
<1>6. tx' \in [Txs -> TxRec]
  <2>1. CASE InsertTransactions(h)
    <3>1. task[h].blk \in Blocks /\ task[h].rcpt \in Blocks
      BY <2>1, <1>3 DEF InsertTransactions, TaskAt, TasksOK, TypeOK, MaybeBlock, HasBlockRow
    <3> QED  BY <2>1, <3>1 DEF InsertTransactions, TypeOK, TxRec
  <2>2. CASE ~InsertTransactions(h)
    BY <2>2 DEF ProcessBlock, AcquirePermit, FetchBlock, FetchReceipts, InsertBlock,
         InsertEvents, TraceFailedTxs, InsertTraceLogs, InsertFailedTransactions, db, TypeOK, TxRec
  <2> QED  BY <2>1, <2>2
<1>7. traces' \in [Txs -> Nat]
  <2>1. CASE InsertTraceLogs(h)
    BY <2>1 DEF InsertTraceLogs, TypeOK
  <2>2. CASE traces' = traces
    BY <2>2 DEF TypeOK
  <2> QED  BY <2>1, <2>2 DEF ProcessBlock, AcquirePermit, FetchBlock, FetchReceipts, InsertBlock, InsertTransactions,
         InsertEvents, TraceFailedTxs, InsertFailedTransactions, db
<1> QED  BY <1>1, <1>2, <1>4, <1>5, <1>6, <1>7  DEF TypeOK, TaskRec, TxRec, node, scanVars, procVars

\* A fresh scan, and the end of the process, reset variables to typed values.
LEMMA ResetType ==
  ASSUME TypeOK, ScanReset
  PROVE  depth' \in Nat /\ seen' \in [Heights -> MaybeBlock] /\ fork' \in Heights
         /\ rpcFailures' = rpcFailures
BY ChainAssumption DEF ScanReset, Heights, MaybeBlock

\* So does the end of the process.
LEMMA GoneType ==
  ASSUME TypeOK, ProcessGone
  PROVE  /\ depth' \in Nat /\ seen' \in [Heights -> MaybeBlock] /\ fork' \in Heights
         /\ rpcFailures' = rpcFailures
         /\ pc' \in PCs
         /\ task' \in [Heights -> TaskRec]
         /\ next' \in Nat /\ last' \in Heights
         /\ mode' = mode /\ base' = base
<1>1. task' \in [Heights -> TaskRec]
  BY DEF ProcessGone, NoTasks, IdleTask, TaskRec, TaskPoints, MaybeBlock
<1> QED  BY <1>1, ResetType, ChainAssumption DEF ProcessGone, Heights, PCs

\* So does the end of a follow cycle.
LEMMA CycleType ==
  ASSUME TypeOK, EndOfCycle
  PROVE  /\ depth' \in Nat /\ seen' \in [Heights -> MaybeBlock] /\ fork' \in Heights
         /\ rpcFailures' = rpcFailures
         /\ pc' \in PCs
         /\ task' \in [Heights -> TaskRec]
         /\ next' \in Nat /\ last' \in Heights
         /\ mode' = mode /\ base' = base
<1>1. CASE Wait
  BY <1>1 DEF Wait, TypeOK, TaskRec, scanVars, rangeVars, PCs
<1>2. CASE ProcessGone
  BY <1>2, GoneType
<1> QED  BY <1>1, <1>2 DEF EndOfCycle

\* A crash, or an INSERT that a foreign key refuses.
Aborted == Interrupt \/ \E h \in Heights : KeyRefused(h)

LEMMA AbortedStep ==
  ASSUME Aborted
  PROVE  ProcessGone /\ interrupts' = interrupts + 1 /\ UNCHANGED <<node, db, cancel, stops>>
BY DEF Aborted, Interrupt, KeyRefused

\* Every step keeps the types.  TasksOK says that what a task stores is a block.
LEMMA TypeStep ==
  ASSUME TypeOK, TasksOK, Next
  PROVE  TypeOK'
<1> USE DEF node, db, scanVars, rangeVars, procVars
<1>1. CASE NodeExtend
  BY <1>1 DEF NodeExtend, TypeOK
<1>2. CASE NodeReorg
  BY <1>2, ConfigAssumption DEF NodeReorg, TypeOK
<1>3. CASE StartFollow
  BY <1>3, ResetType DEF StartFollow, TypeOK, PCs
<1>4. CASE StartBackfill
  <2>1. PICK r \in Backfills : /\ BackfillFrom(r) <= BackfillTo(r)
                               /\ BackfillTo(r) <= MaxHeight
                               /\ next' = BackfillFrom(r)
                               /\ last' = BackfillTo(r)
                               /\ base' = BaseFor(BackfillFrom(r))
    BY <1>4 DEF StartBackfill
  <2>2. r.from \in Heights /\ r.to \in Heights \cup {NoRow}
    BY ConfigAssumption
  <2>3. BackfillFrom(r) \in Nat
    BY <2>2 DEF BackfillFrom, TypeOK, Heights, NoRow
  <2>4. BackfillTo(r) \in Heights /\ BackfillFrom(r) \in Heights
    BY <2>1, <2>2, <2>3, ChainAssumption DEF BackfillTo, Heights
  <2>5. base' \in Heights
    BY <2>1, <2>4 DEF BaseFor, TypeOK
  <2> QED  BY <1>4, <2>1, <2>3, <2>4, <2>5 DEF StartBackfill, TypeOK, PCs
<1>5. CASE Aborted
  BY <1>5, GoneType, AbortedStep DEF TypeOK, TaskRec
<1>6. CASE CtrlC
  <2>1. stops' \in 0 .. MaxStops /\ cancel' \in BOOLEAN
    BY <1>6, ConfigAssumption DEF CtrlC, TypeOK
  <2>2. UNCHANGED <<node, db, interrupts>>
    BY <1>6 DEF CtrlC
  <2>3. CASE ProcessGone
    BY <2>1, <2>2, <2>3, GoneType DEF TypeOK, TaskRec
  <2>4. CASE UNCHANGED <<pc, scanVars, rangeVars, mode>>
    BY <2>1, <2>2, <2>4 DEF TypeOK
  <2> QED  BY <1>6, <2>3, <2>4 DEF CtrlC
<1>7. CASE ScanRpcFailure
  BY <1>7, ConfigAssumption DEF ScanRpcFailure, TypeOK, PCs
<1>8. CASE ScanFetch
  <2>1. seen' \in [Heights -> MaybeBlock]
    BY <1>8, ChainAssumption DEF ScanFetch, TypeOK, MaybeBlock, NodeBlock, Highest, Unfetched, Top, Local, Rows
  <2> QED  BY <1>8, <2>1 DEF ScanFetch, TypeOK
<1>9. CASE ScanAbsent
  BY <1>9 DEF ScanAbsent, TypeOK, PCs
<1>10. CASE ScanClassify
  <2>1. pc' \in PCs /\ depth' \in Nat /\ fork' \in Heights
    BY <1>10, ScanDepthType, ForkIsMismatch DEF ScanClassify, TypeOK, PCs
  <2> QED  BY <1>10, <2>1 DEF ScanClassify, TypeOK
<1>11. CASE Rollback
  <2>1. tx' \in [Txs -> TxRec] /\ traces' \in [Txs -> Nat]
    BY <1>11 DEF Rollback, TxKept, TracesKept, TypeOK, TxRec
  <2>2. block' \in [Heights -> MaybeBlock] /\ events' \subseteq Txs /\ failed' \subseteq Txs
    BY <1>11 DEF Rollback, TypeOK, MaybeBlock
  <2>3. checkpoint' \in Heights \cup {NoRow}
    BY <1>11, ChainAssumption DEF Rollback, Rewound, TypeOK, Heights, Larger
  <2> QED  BY <1>11, <2>1, <2>2, <2>3, ResetType DEF Rollback, AfterRollback, TypeOK, TxRec, PCs
<1>12. CASE FollowTarget
  <2>1. CASE next_target(NodeHead, Confirmations, checkpoint) = NoTarget
    BY <1>12, <2>1, CycleType DEF FollowTarget, TypeOK, TaskRec
  <2>2. CASE next_target(NodeHead, Confirmations, checkpoint) # NoTarget
    <3>1. NodeHead \in Heights
      BY ChainAssumption DEF NodeHead, TypeOK
    <3>2. next' \in Heights /\ last' \in Heights /\ base' \in Heights
      BY <1>12, <2>2, <3>1, TargetRange DEF FollowTarget, TypeOK, BaseFor
    <3> QED  BY <1>12, <2>2, <3>2 DEF FollowTarget, TypeOK, PCs, Heights
  <2> QED  BY <2>1, <2>2
<1>13. CASE Wake
  BY <1>13, ResetType DEF Wake, TypeOK, PCs
<1>14. CASE RangeEnd
  BY <1>14, CycleType, GoneType DEF RangeEnd, TypeOK, TaskRec
<1>15. CASE SpawnChunk
  <2>1. task' \in [Heights -> TaskRec]
    BY <1>15 DEF SpawnChunk, IdleTask, TaskRec, TaskPoints, MaybeBlock
  <2> QED  BY <1>15, <2>1 DEF SpawnChunk, TypeOK, TaskRec, PCs
<1>16. CASE UpdateCheckpoint
  <2>1. task' \in [Heights -> TaskRec]
    BY <1>16 DEF UpdateCheckpoint, NoTasks, IdleTask, TaskRec, TaskPoints, MaybeBlock
  <2>2. ChunkEnd \in Heights
    BY <1>16, ChunkEndType DEF UpdateCheckpoint, TasksOK
  <2> QED  BY <1>16, <2>1, <2>2 DEF UpdateCheckpoint, NextChunk, TypeOK, TaskRec, PCs, Heights
<1>17. CASE \E h \in Heights : ProcessBlock(h)
  BY <1>17, TaskType
<1> QED  BY <1>1, <1>2, <1>3, <1>4, <1>5, <1>6, <1>7, <1>8, <1>9, <1>10, <1>11, <1>12, <1>13,
            <1>14, <1>15, <1>16, <1>17 DEF Next, Step, Aborted

-----------------------------------------------------------------------------
(* The tasks of a chunk *)

\* Outside process_chunk there are no tasks and nothing to say of them.
LEMMA IdleTasksOK ==
  ASSUME task' = NoTasks, pc' # "tasks"
  PROVE  TasksOK'
BY DEF TasksOK, NoTasks, IdleTask, HasBlockRow, HasTxRow, Stored

\* What a step of one task leaves alone: the other tasks, the control state,
\* and every row that is already there.
LEMMA TaskFrame ==
  ASSUME TypeOK, TasksOK, NEW h \in Heights, ProcessBlock(h)
  PROVE  /\ pc = "tasks"
         /\ task[h].at # "idle"
         /\ UNCHANGED <<node, checkpoint, pc, scanVars, next, last, base, procVars>>
         /\ \A k \in Heights : k # h => task'[k] = task[k] /\ block'[k] = block[k]
         /\ \A k \in Heights : block[k] # NoBlock => block'[k] = block[k]
         /\ \A t \in StoredTxs : tx'[t] = tx[t]
         /\ StoredTxs \subseteq StoredTxs'
<1> USE DEF StoredTxs
<1>1. CASE AcquirePermit(h)
  BY <1>1 DEF AcquirePermit, TaskAt, TypeOK, db
<1>2. CASE FetchBlock(h)
  BY <1>2 DEF FetchBlock, TypeOK, db
<1>3. CASE FetchReceipts(h)
  BY <1>3 DEF FetchReceipts, TypeOK, db
<1>4. CASE InsertBlock(h)
  BY <1>4 DEF InsertBlock, TaskAt, TypeOK
<1>5. CASE InsertTransactions(h)
  BY <1>5 DEF InsertTransactions, NewTxs, TaskAt, TypeOK
<1>6. CASE InsertEvents(h)
  BY <1>6 DEF InsertEvents, TaskAt, TypeOK
<1>7. CASE TraceFailedTxs(h)
  BY <1>7 DEF TraceFailedTxs, TypeOK, db
<1>8. CASE InsertTraceLogs(h)
  BY <1>8 DEF InsertTraceLogs, TaskAt, TypeOK
<1>9. CASE InsertFailedTransactions(h)
  BY <1>9 DEF InsertFailedTransactions, TaskAt, TypeOK
<1> QED  BY <1>1, <1>2, <1>3, <1>4, <1>5, <1>6, <1>7, <1>8, <1>9 DEF ProcessBlock

\* What TasksOK says of one task.
TaskOK(h) ==
  /\ task[h].at # "idle" => h \in ChunkHeights
  /\ task[h].at \in {"fetchReceipts", "block", "tx"} => task[h].blk # NoBlock
  /\ task[h].blk # NoBlock => Height[task[h].blk] = h
  /\ task[h].rcpt # NoBlock => Height[task[h].rcpt] = h
  /\ task[h].at \in HasBlockRow => task[h].rcpt # NoBlock
  /\ task[h].at \in Stored => block[h] # NoBlock
  /\ task[h].at \in HasTxRow /\ task[h].blk = task[h].rcpt => TxsOf(task[h].rcpt) \subseteq StoredTxs
  /\ task[h].at \in {"traceLogs", "failedTx"} => task[h].traced \subseteq Reverting(task[h].rcpt)

\* The node answers with a block of the height asked for.
LEMMA NodeHeight ==
  ASSUME TypeOK, NEW h \in Heights
  PROVE  NodeBlock(h) # NoBlock => Height[NodeBlock(h)] = h
BY ChainAssumption DEF NodeBlock, TypeOK, Heights

\* A step of a task keeps TasksOK: for the others by TaskFrame, for itself by
\* the order of fetch and insert calls in process_block.
LEMMA TaskStepOK ==
  ASSUME TypeOK, TasksOK, NEW h \in Heights, ProcessBlock(h)
  PROVE  TasksOK'
<1> USE DEF HasBlockRow, HasTxRow, Stored
<1>1. \A k \in Heights : TaskOK(k)
  BY DEF TasksOK, TaskOK
<1>2. ChunkHeights' = ChunkHeights
  BY TaskFrame DEF ChunkHeights, ChunkEnd
<1>3. ASSUME NEW k \in Heights, k # h  PROVE  TaskOK(k)'
  <2>1. task'[k] = task[k] /\ block'[k] = block[k]
    BY <1>3, TaskFrame
  <2>2. StoredTxs \subseteq StoredTxs'
    BY TaskFrame
  <2> QED  BY <1>1, <1>2, <2>1, <2>2 DEF TaskOK
<1>4. TaskOK(h)'
  <2>0. h \in ChunkHeights /\ TaskOK(h) /\ StoredTxs \subseteq StoredTxs'
    BY <1>1, TaskFrame DEF TaskOK
  <2>1. CASE AcquirePermit(h)
    BY <2>0, <2>1, <1>2 DEF AcquirePermit, TaskAt, TypeOK, db, TaskOK
  <2>2. CASE FetchBlock(h)
    <3>1. /\ NodeBlock(h) # NoBlock
          /\ task'[h].blk = NodeBlock(h)
          /\ task'[h].rcpt = task[h].rcpt
          /\ task'[h].at \in {"fetchReceipts", "block"}
      BY <2>2 DEF FetchBlock, TypeOK
    <3>2. Height[NodeBlock(h)] = h
      BY <3>1, NodeHeight
    <3> QED  BY <2>0, <3>1, <3>2, <1>2 DEF TaskOK
  <2>3. CASE FetchReceipts(h)
    <3>1. /\ task'[h].rcpt = NodeBlock(h)
          /\ task'[h].blk = task[h].blk
          /\ task'[h].at = IF task[h].at = "fetch" THEN "fetchBlock" ELSE "block"
          /\ task[h].at \in {"fetch", "fetchReceipts"}
      BY <2>3 DEF FetchReceipts, TypeOK
    <3>2. NodeBlock(h) # NoBlock => Height[NodeBlock(h)] = h
      BY NodeHeight
    <3> QED  BY <2>0, <3>1, <3>2, <1>2 DEF TaskOK
  <2>4. CASE InsertBlock(h)
    BY <2>0, <2>4, <1>2 DEF InsertBlock, TaskAt, TypeOK, TaskOK
  <2>5. CASE InsertTransactions(h)
    <3>1. /\ task[h].blk \in Blocks /\ task[h].rcpt \in Blocks
          /\ task'[h] = [task[h] EXCEPT !.at = "events"] /\ block' = block
      BY <2>0, <2>5 DEF InsertTransactions, TaskAt, TypeOK, TaskOK, MaybeBlock
    <3>2. CASE task[h].blk = task[h].rcpt
      <4>1. TxsOf(task[h].rcpt) \subseteq NewTxs(h) \cup StoredTxs
        BY <3>2 DEF TxsOf, NewTxs
      <4>2. \A t \in NewTxs(h) \cap Txs : tx'[t] # NoTx
        BY <2>5, <3>1, ChainAssumption DEF InsertTransactions, NoTx
      <4>3. TxsOf(task[h].rcpt) \subseteq StoredTxs'
        BY <2>0, <3>1, <4>1, <4>2, TxsAreTxs DEF StoredTxs
      <4> QED  BY <2>0, <3>1, <4>3, <1>2, <2>5 DEF InsertTransactions, TaskAt, TypeOK, TaskOK
    <3>3. CASE task[h].blk # task[h].rcpt
      BY <2>0, <3>1, <3>3, <1>2, <2>5 DEF InsertTransactions, TaskAt, TypeOK, TaskOK
    <3> QED  BY <3>2, <3>3
  <2>6. CASE InsertEvents(h)
    BY <2>0, <2>6, <1>2 DEF InsertEvents, TaskAt, TypeOK, TaskOK
  <2>7. CASE TraceFailedTxs(h)
    BY <2>0, <2>7, <1>2 DEF TraceFailedTxs, TypeOK, TaskOK, db
  <2>8. CASE InsertTraceLogs(h)
    BY <2>0, <2>8, <1>2 DEF InsertTraceLogs, TaskAt, TypeOK, TaskOK
  <2>9. CASE InsertFailedTransactions(h)
    BY <2>0, <2>9, <1>2 DEF InsertFailedTransactions, TaskAt, TypeOK, TaskOK
  <2> QED  BY <2>1, <2>2, <2>3, <2>4, <2>5, <2>6, <2>7, <2>8, <2>9 DEF ProcessBlock
<1>5. pc' = "tasks" /\ next' <= last'
  BY TaskFrame DEF TasksOK
<1> QED  BY <1>3, <1>4, <1>5 DEF TasksOK, TaskOK

\* Every step keeps TasksOK.  Rows are deleted only while there is no task.
LEMMA TasksStep ==
  ASSUME TypeOK, TasksOK, Next
  PROVE  TasksOK'
<1> USE DEF node, db, scanVars, rangeVars, procVars
<1>1. CASE NodeExtend \/ NodeReorg
  BY <1>1 DEF NodeExtend, NodeReorg, TasksOK, ChunkHeights, ChunkEnd, StoredTxs
<1>2. CASE StartFollow \/ StartBackfill \/ Wake
  <2>1. pc # "tasks" /\ pc' # "tasks" /\ task' = task
    BY <1>2 DEF StartFollow, StartBackfill, Wake
  <2> QED  BY <2>1, IdleTasksOK DEF TasksOK
<1>3. CASE Aborted
  BY <1>3, AbortedStep, IdleTasksOK DEF ProcessGone
<1>4. CASE CtrlC
  <2>1. CASE ProcessGone
    BY <2>1, IdleTasksOK DEF ProcessGone
  <2>2. CASE UNCHANGED <<pc, scanVars, rangeVars, mode>>
    BY <1>4, <2>2 DEF CtrlC, TasksOK, ChunkHeights, ChunkEnd, StoredTxs
  <2> QED  BY <1>4, <2>1, <2>2 DEF CtrlC
<1>5. CASE ScanRpcFailure \/ ScanFetch \/ ScanAbsent \/ ScanClassify \/ Rollback
  <2>1. pc # "tasks" /\ pc' # "tasks" /\ task' = task
    BY <1>5 DEF ScanRpcFailure, ScanFetch, ScanAbsent, ScanClassify, Rollback, AfterRollback
  <2> QED  BY <2>1, IdleTasksOK DEF TasksOK
<1>6. CASE FollowTarget \/ RangeEnd
  <2>1. pc # "tasks" /\ task = NoTasks
    BY <1>6 DEF FollowTarget, RangeEnd, AtBoundary, TasksOK
  <2>2. pc' # "tasks" /\ task' = NoTasks
    BY <1>6, <2>1 DEF FollowTarget, RangeEnd, EndOfCycle, Wait, ProcessGone
  <2> QED  BY <2>2, IdleTasksOK
<1>7. CASE SpawnChunk
  BY <1>7 DEF SpawnChunk, TasksOK, IdleTask, ChunkHeights, ChunkEnd, HasBlockRow, HasTxRow, Stored
<1>8. CASE UpdateCheckpoint
  BY <1>8, IdleTasksOK DEF UpdateCheckpoint
<1>9. CASE \E h \in Heights : ProcessBlock(h)
  BY <1>9, TaskStepOK
<1> QED  BY <1>1, <1>2, <1>3, <1>4, <1>5, <1>6, <1>7, <1>8, <1>9 DEF Next, Step, Aborted

-----------------------------------------------------------------------------
(* The range in progress, and where a fork can be *)

\* Every step keeps RangeOK: a range starts above the checkpoint, and the
\* checkpoint follows the chunks.
LEMMA RangeStep ==
  ASSUME TypeOK, TasksOK, RangeOK, Next
  PROVE  RangeOK'
<1> USE DEF node, db, scanVars, rangeVars, procVars
<1>1. CASE pc' \notin {"chunk", "tasks"}
  BY <1>1 DEF RangeOK
<1>2. CASE UNCHANGED <<pc, next, checkpoint, base>>
  BY <1>2 DEF RangeOK
<1>3. CASE StartBackfill
  <2>1. PICK r \in Backfills : next' = BackfillFrom(r) /\ base' = BaseFor(BackfillFrom(r))
    BY <1>3 DEF StartBackfill
  <2>2. r.from \in Heights
    BY ConfigAssumption
  <2>3. BackfillFrom(r) > checkpoint
    BY <2>2 DEF BackfillFrom, TypeOK, Heights, NoRow
  <2> QED  BY <1>3, <2>1, <2>3 DEF StartBackfill, BaseFor, RangeOK
<1>4. CASE FollowTarget /\ pc' = "chunk"
  <2>1. next_target(NodeHead, Confirmations, checkpoint) # NoTarget
    BY <1>4 DEF FollowTarget, EndOfCycle, Wait, ProcessGone
  <2>2. NodeHead \in Heights
    BY ChainAssumption DEF NodeHead, TypeOK
  <2>3. next' > checkpoint /\ base' = BaseFor(next')
    BY <1>4, <2>1, <2>2, TargetRange DEF FollowTarget, TypeOK
  <2> QED  BY <1>4, <2>3 DEF FollowTarget, BaseFor, RangeOK
<1>5. CASE SpawnChunk
  BY <1>5 DEF SpawnChunk, AtBoundary, RangeOK
<1>6. CASE UpdateCheckpoint
  <2>1. ChunkEnd \in Heights
    BY <1>6, ChunkEndType DEF UpdateCheckpoint, TasksOK
  <2> QED  BY <1>6, <2>1 DEF UpdateCheckpoint, NextChunk, RangeOK, Heights, NoRow
<1>7. CASE \E h \in Heights : ProcessBlock(h)
  BY <1>7, <1>2, TaskFrame
<1> QED
  <2>1. CASE NodeExtend \/ NodeReorg \/ CtrlC
    BY <2>1, <1>1, <1>2 DEF NodeExtend, NodeReorg, CtrlC, ProcessGone
  <2>2. CASE StartFollow \/ ScanRpcFailure \/ ScanFetch \/ ScanAbsent \/ ScanClassify \/ Rollback
             \/ Wake \/ RangeEnd
    BY <2>2, <1>1 DEF StartFollow, ProcessGone, ScanRpcFailure, ScanFetch, ScanAbsent, ScanClassify,
                     Rollback, AfterRollback, Wake, RangeEnd, EndOfCycle, Wait
  <2>3. CASE FollowTarget
    BY <2>3, <1>1, <1>4 DEF FollowTarget, EndOfCycle, Wait, ProcessGone
  <2>4. CASE Aborted
    BY <2>4, <1>1, AbortedStep DEF ProcessGone
  <2> QED  BY <2>1, <2>2, <2>3, <2>4, <1>3, <1>5, <1>6, <1>7 DEF Next, Step, Aborted

\* Fetched and stored blocks come from the node's chain at that moment.
LEMMA TaskReads ==
  ASSUME TypeOK, TasksOK, NEW h \in Heights, ProcessBlock(h)
  PROVE  /\ task'[h].blk \in {task[h].blk, NodeBlock(h)}
         /\ task'[h].rcpt \in {task[h].rcpt, NodeBlock(h)}
         /\ block'[h] \in {block[h], task[h].blk}
<1> USE DEF TypeOK
<1>1. CASE FetchBlock(h)  BY <1>1 DEF FetchBlock, db
<1>2. CASE FetchReceipts(h)  BY <1>2 DEF FetchReceipts, db
<1>3. CASE InsertBlock(h)  BY <1>3 DEF InsertBlock, TaskAt
<1>4. CASE TraceFailedTxs(h)  BY <1>4 DEF TraceFailedTxs, db
<1>5. CASE ~(FetchBlock(h) \/ FetchReceipts(h) \/ InsertBlock(h) \/ TraceFailedTxs(h))
  BY <1>5 DEF ProcessBlock, AcquirePermit, InsertTransactions, InsertEvents,
              InsertTraceLogs, InsertFailedTransactions, TaskAt, db
<1> QED  BY <1>1, <1>2, <1>3, <1>4, <1>5

\* All that a step can do to the hashes read and stored at a height.
LEMMA HashStep ==
  ASSUME TypeOK, TasksOK, Next, NEW h \in Heights
  PROVE  /\ block'[h] \in {NoBlock, block[h], task[h].blk}
         /\ seen'[h] \in {NoBlock, seen[h], NodeBlock(h)}
         /\ task'[h].blk \in {NoBlock, task[h].blk, NodeBlock(h)}
         /\ task'[h].rcpt \in {NoBlock, task[h].rcpt, NodeBlock(h)}
<1> USE DEF node, db, scanVars, rangeVars, procVars, TypeOK
<1>1. CASE NodeExtend \/ NodeReorg \/ ScanRpcFailure \/ ScanAbsent \/ ScanClassify \/ StartBackfill
  BY <1>1 DEF NodeExtend, NodeReorg, ScanRpcFailure, ScanAbsent, ScanClassify, StartBackfill
<1>2. CASE StartFollow \/ Wake
  BY <1>2 DEF StartFollow, Wake, ScanReset
<1>3. CASE Aborted \/ CtrlC \/ RangeEnd \/ FollowTarget
  <2>1. block' = block
    BY <1>3, AbortedStep DEF CtrlC, RangeEnd, FollowTarget
  <2>2. CASE ProcessGone
    BY <2>1, <2>2 DEF ProcessGone, ScanReset, NoTasks, IdleTask
  <2>3. CASE UNCHANGED <<seen, task>>
    BY <2>1, <2>3
  <2> QED  BY <1>3, <2>2, <2>3, AbortedStep DEF CtrlC, RangeEnd, FollowTarget, EndOfCycle, Wait
<1>4. CASE ScanFetch
  BY <1>4 DEF ScanFetch
<1>5. CASE Rollback
  BY <1>5 DEF Rollback, ScanReset
<1>6. CASE SpawnChunk
  BY <1>6 DEF SpawnChunk, IdleTask
<1>7. CASE UpdateCheckpoint
  BY <1>7 DEF UpdateCheckpoint, NoTasks, IdleTask
<1>8. CASE \E k \in Heights : ProcessBlock(k)
  <2>1. PICK k \in Heights : ProcessBlock(k)
    BY <1>8
  <2>2. CASE k = h
    BY <2>1, <2>2, TaskReads, TaskFrame
  <2>3. CASE k # h
    BY <2>1, <2>3, TaskFrame
  <2> QED  BY <2>2, <2>3
<1> QED  BY <1>1, <1>2, <1>3, <1>4, <1>5, <1>6, <1>7, <1>8 DEF Next, Step, Aborted

\* Whatever is read or stored at height 0 is the genesis block.
LEMMA GenesisStep ==
  ASSUME TypeOK, TasksOK, GenesisOK, Next
  PROVE  GenesisOK'
<1>1. 0 \in Heights
  BY ChainAssumption DEF Heights
<1>2. ASSUME NEW b \in Blocks  PROVE  NodeBlock(0) = Chain[b][0]
  BY ChainAssumption DEF NodeBlock, TypeOK
<1> QED  BY <1>1, <1>2, HashStep DEF GenesisOK

\* A fork is found at a stored block, never at genesis.
LEMMA ForkStep ==
  ASSUME TypeOK, TasksOK, GenesisOK, ForkOK, Next
  PROVE  ForkOK'
<1> USE DEF node, db, scanVars, rangeVars, procVars
<1>1. CASE pc' # "rollback"
  BY <1>1 DEF ForkOK
<1>2. CASE UNCHANGED <<pc, fork, block>>
  BY <1>2 DEF ForkOK
<1>3. CASE ScanClassify /\ pc' = "rollback"
  <2>1. fork' \in classify_fork(Local, seen, depth, NoBlock).at
    BY <1>3 DEF ScanClassify
  <2>2. fork' \in Heights /\ block[fork'] # NoBlock /\ seen[fork'] # NoBlock /\ seen[fork'] # block[fork']
    BY <2>1, ForkIsMismatch
  <2>3. fork' # 0
    BY <2>2 DEF GenesisOK, TypeOK
  <2>4. block' = block
    BY <1>3 DEF ScanClassify
  <2> QED  BY <2>2, <2>3, <2>4 DEF ForkOK, Heights
<1>4. CASE \E h \in Heights : ProcessBlock(h)
  BY <1>4, <1>1, TaskFrame
<1> QED
  <2>1. CASE NodeExtend \/ NodeReorg \/ CtrlC
    BY <2>1, <1>1, <1>2 DEF NodeExtend, NodeReorg, CtrlC, ProcessGone
  <2>2. CASE StartFollow \/ StartBackfill \/ ScanRpcFailure \/ ScanFetch \/ ScanAbsent \/ Rollback
             \/ Wake \/ RangeEnd \/ FollowTarget \/ SpawnChunk \/ UpdateCheckpoint
    BY <2>2, <1>1 DEF StartFollow, StartBackfill, ProcessGone, ScanRpcFailure, ScanFetch, ScanAbsent,
                     Rollback, AfterRollback, Wake, RangeEnd, FollowTarget, EndOfCycle, Wait, SpawnChunk,
                     UpdateCheckpoint
  <2>3. CASE Aborted
    BY <2>3, <1>1, AbortedStep DEF ProcessGone
  <2> QED  BY <2>1, <2>2, <2>3, <1>1, <1>3, <1>4 DEF Next, Step, Aborted

\* The counters only grow, and only by the action they count.
LEMMA CounterStep ==
  ASSUME TypeOK, TasksOK, Next
  PROVE  /\ interrupts' = 0 => interrupts = 0 /\ ~Aborted
         /\ ~Aborted => interrupts' = interrupts
         /\ interrupts \in Nat /\ interrupts <= interrupts'
         /\ reorgs' = 0 => reorgs = 0 /\ (tip' = tip \/ NodeExtend)
<1> USE DEF node, db, scanVars, rangeVars, procVars
<1>0. interrupts \in Nat /\ (Aborted => interrupts' = interrupts + 1 /\ tip' = tip /\ reorgs' = reorgs)
  BY AbortedStep DEF TypeOK
<1>1. CASE \E h \in Heights : ProcessBlock(h)
  BY <1>0, <1>1, TaskFrame
<1>2. CASE Aborted
  BY <1>0, <1>2
<1>3. CASE NodeReorg
  BY <1>0, <1>3 DEF NodeReorg, TypeOK
<1>4. CASE ~(\E h \in Heights : ProcessBlock(h)) /\ ~Aborted /\ ~NodeReorg
  <2>1. interrupts' = interrupts /\ (reorgs' = 0 => reorgs = 0 /\ (tip' = tip \/ NodeExtend))
    BY <1>4 DEF Next, Step, Aborted, NodeExtend, StartFollow, StartBackfill, CtrlC, ScanRpcFailure, ScanFetch,
                ScanAbsent, ScanClassify, Rollback, Wake, RangeEnd, FollowTarget, SpawnChunk, UpdateCheckpoint
  <2> QED  BY <1>0, <1>4, <2>1
<1> QED  BY <1>1, <1>2, <1>3, <1>4

\* A chain that grows keeps the blocks it has.
LEMMA GrowthKeeps ==
  ASSUME TypeOK, NodeExtend, NEW h \in Heights
  PROVE  NodeBlock(h) \in {NoBlock, Chain[tip'][h]}
<1>1. tip \in Blocks /\ tip' \in Blocks /\ Chain[tip'][NodeHead] = tip /\ NodeHead \in Heights
  BY ChainAssumption DEF NodeExtend, TypeOK, NodeHead
<1>2. Chain[tip][NodeHead] = tip /\ tip # NoBlock
  BY <1>1, ChainAssumption DEF NodeHead
<1>3. \A k \in 0 .. NodeHead : Chain[tip][k] = Chain[tip'][k]
  BY <1>1, <1>2, ChainAssumption
<1>4. CASE h <= NodeHead
  BY <1>3, <1>4 DEF NodeBlock, Heights
<1>5. CASE h > NodeHead
  BY <1>1, <1>5, ChainAssumption DEF NodeBlock, NodeHead
<1> QED  BY <1>1, <1>4, <1>5 DEF Heights

\* As long as the chain only grows, all hashes stay on it and no fork is found.
LEMMA NoReorgStep ==
  ASSUME TypeOK, TasksOK, NoReorgOK, Next
  PROVE  NoReorgOK'
<1> SUFFICES ASSUME reorgs' = 0
             PROVE  pc' # "rollback" /\ \A h \in Heights :
                      OnChain(h, block[h])' /\ OnChain(h, seen[h])' /\ OnChain(h, task[h].blk)' /\ OnChain(h, task[h].rcpt)'
  BY DEF NoReorgOK
<1>1. reorgs = 0 /\ (tip' = tip \/ NodeExtend)
  BY CounterStep
<1>2. pc # "rollback" /\ \A h \in Heights :
        OnChain(h, block[h]) /\ OnChain(h, seen[h]) /\ OnChain(h, task[h].blk) /\ OnChain(h, task[h].rcpt)
  BY <1>1 DEF NoReorgOK
<1>3. ASSUME NEW h \in Heights  PROVE  NodeBlock(h) \in {NoBlock, Chain[tip'][h]}
  <2>1. CASE tip' = tip
    BY <2>1 DEF NodeBlock
  <2>2. CASE NodeExtend
    BY <2>2, GrowthKeeps
  <2> QED  BY <1>1, <2>1, <2>2
<1>4. \A h \in Heights :
        OnChain(h, block[h])' /\ OnChain(h, seen[h])' /\ OnChain(h, task[h].blk)' /\ OnChain(h, task[h].rcpt)'
  BY <1>2, <1>3, HashStep DEF OnChain, NodeBlock
<1>5. pc' # "rollback"
  <2>1. CASE ScanClassify
    <3>1. ASSUME NEW f \in classify_fork(Local, seen, depth, NoBlock).at  PROVE FALSE
      BY <1>2, ForkIsMismatch DEF OnChain
    <3> QED  BY <2>1, <3>1, <1>2 DEF ScanClassify
  <2>2. CASE \E h \in Heights : ProcessBlock(h)
    BY <2>2, TaskFrame
  <2>3. CASE Aborted
    BY <2>3, AbortedStep DEF ProcessGone
  <2>4. CASE ~ScanClassify /\ ~Aborted /\ ~(\E h \in Heights : ProcessBlock(h))
    BY <2>4, <1>2 DEF Next, Step, Aborted, NodeExtend, NodeReorg, StartFollow, StartBackfill, ProcessGone, CtrlC,
                ScanRpcFailure, ScanFetch, ScanAbsent, Rollback, Wake, RangeEnd, FollowTarget, EndOfCycle, Wait,
                SpawnChunk, UpdateCheckpoint
  <2> QED  BY <2>1, <2>2, <2>3, <2>4
<1> QED  BY <1>4, <1>5

-----------------------------------------------------------------------------
(* Foreign keys *)

\* A task that has the receipts of its own block finds every transaction it
\* refers to.
KeysOK == \A h \in Heights : MissesKey(h) => task[h].blk # task[h].rcpt

LEMMA KeysFit == TasksOK => KeysOK
<1> SUFFICES ASSUME TasksOK, NEW h \in Heights, task[h].blk = task[h].rcpt  PROVE Referenced(h) \subseteq StoredTxs
  BY DEF KeysOK, MissesKey
<1>1. CASE task[h].at = "events"
  BY <1>1 DEF TasksOK, HasTxRow, HasBlockRow, Referenced, Emitting
<1>2. CASE task[h].at \in {"traceLogs", "failedTx"}
  BY <1>2 DEF TasksOK, HasTxRow, HasBlockRow, Referenced, Reverting
<1>3. CASE task[h].at \notin {"events", "traceLogs", "failedTx"}
  BY <1>3 DEF Referenced
<1> QED  BY <1>1, <1>2, <1>3

\* The same of the next state.
LEMMA KeysFitNext == TasksOK' => KeysOK'
BY KeysFit, PTL

\* What insert_transactions adds, and what it may do so for.
LEMMA TransactionsStored ==
  ASSUME TypeOK, TasksOK, NEW h \in Heights, InsertTransactions(h)
  PROVE  /\ task[h].blk \in Blocks /\ task[h].rcpt \in Blocks
         /\ Height[task[h].blk] = h /\ block[h] # NoBlock
         /\ NewTxs(h) \subseteq Txs \cap TxsOf(task[h].rcpt)
         /\ NewTxs(h) \cap StoredTxs = {}
         /\ \A t \in NewTxs(h) : tx'[t] = [body |-> task[h].blk, rcpt |-> task[h].rcpt]
         /\ StoredTxs' = StoredTxs \cup NewTxs(h)
<1>1. /\ task[h].blk \in Blocks /\ task[h].rcpt \in Blocks
      /\ Height[task[h].blk] = h /\ block[h] # NoBlock
  BY DEF InsertTransactions, TaskAt, TasksOK, HasBlockRow, Stored, TypeOK, MaybeBlock
<1>2. NewTxs(h) \subseteq Txs \cap TxsOf(task[h].rcpt) /\ NewTxs(h) \cap StoredTxs = {}
  BY <1>1, TxsAreTxs DEF NewTxs, TxsOf
<1>3. \A t \in NewTxs(h) : tx'[t] = [body |-> task[h].blk, rcpt |-> task[h].rcpt]
  BY <1>2 DEF InsertTransactions
<1>4. \A t \in NewTxs(h) : tx'[t] # NoTx
  BY <1>1, <1>3, ChainAssumption DEF NoTx
<1>5. \A t \in Txs \ NewTxs(h) : tx'[t] = tx[t]
  BY DEF InsertTransactions
<1> QED  BY <1>1, <1>2, <1>3, <1>4, <1>5 DEF StoredTxs

\* Every step keeps the foreign keys.
LEMMA ReferencesStep ==
  ASSUME TypeOK, TasksOK, ReferencesHold, Next
  PROVE  ReferencesHold'
<1> USE DEF node, db, scanVars, rangeVars, procVars
<1>0. KeysOK'
  <2>1. TasksOK'
    BY TasksStep
  <2> QED  BY <2>1, KeysFitNext
<1> USE DEF KeysOK
<1> DEFINE Framed == {t \in Txs : traces[t] > 0}
<1>1. CASE UNCHANGED <<block, tx, events, traces, failed>>
  BY <1>0, <1>1 DEF ReferencesHold, StoredTxs
<1>2. CASE Rollback
  <2>1. StoredTxs' = {t \in StoredTxs : ~Gone(t)} /\ \A t \in StoredTxs' : tx'[t] = tx[t]
    BY <1>2 DEF Rollback, TxKept, StoredTxs, Gone
  <2>2. Framed' \subseteq {t \in Framed : ~Gone(t)}
    BY <1>2 DEF Rollback, TracesKept
  <2>3. \A t \in StoredTxs' : block'[Height[tx'[t].body]] # NoBlock
    <3> SUFFICES ASSUME NEW t \in StoredTxs'  PROVE block'[Height[tx[t].body]] # NoBlock
      BY <2>1
    <3>1. t \in StoredTxs /\ ~(Height[tx[t].body] >= fork)
      BY <2>1 DEF Gone
    <3>2. Height[tx[t].body] \in Heights
      BY <3>1, ChainAssumption DEF StoredTxs, TypeOK
    <3> QED  BY <1>2, <3>1, <3>2 DEF Rollback, ReferencesHold
  <2>4. events' = {t \in events : ~Gone(t)} /\ failed' = {t \in failed : ~Gone(t)}
    BY <1>2 DEF Rollback
  <2>5. events' \cup failed' \cup Framed' \subseteq StoredTxs'
    BY <2>1, <2>2, <2>4 DEF ReferencesHold
  <2> QED  BY <1>0, <2>3, <2>5 DEF ReferencesHold
<1>3. ASSUME NEW h \in Heights, ProcessBlock(h)  PROVE ReferencesHold'
  <2>1. /\ \A k \in Heights : block[k] # NoBlock => block'[k] = block[k]
        /\ \A t \in StoredTxs : tx'[t] = tx[t]
        /\ StoredTxs \subseteq StoredTxs'
    BY <1>3, TaskFrame
  <2>2. \A t \in StoredTxs : Height[tx[t].body] \in Heights
    BY ChainAssumption DEF StoredTxs, TypeOK
  <2>3. \A t \in StoredTxs : block'[Height[tx'[t].body]] # NoBlock
    BY <2>1, <2>2 DEF ReferencesHold
  <2>4. CASE InsertTransactions(h)
    <3>1. \A t \in StoredTxs' : t \in StoredTxs \/ (t \in NewTxs(h) /\ block'[Height[tx'[t].body]] # NoBlock)
      <4>1. /\ task[h].blk \in Blocks /\ Height[task[h].blk] = h /\ block'[h] # NoBlock
            /\ StoredTxs' = StoredTxs \cup NewTxs(h)
        BY <2>4, TransactionsStored DEF InsertTransactions
      <4>2. \A t \in NewTxs(h) : tx'[t].body = task[h].blk
        BY <2>4, TransactionsStored DEF InsertTransactions
      <4> QED  BY <4>1, <4>2
    <3>2. events' \cup failed' \cup Framed' \subseteq events \cup failed \cup Framed \cup NewTxs(h)
      BY <2>4 DEF InsertTransactions
    <3>3. NewTxs(h) \subseteq StoredTxs'
      BY <2>4, TransactionsStored DEF InsertTransactions
    <3> QED  BY <1>0, <2>1, <2>3, <3>1, <3>2, <3>3 DEF ReferencesHold
  <2>5. CASE ~InsertTransactions(h)
    <3>1. tx' = tx /\ StoredTxs' = StoredTxs
      BY <1>3, <2>5 DEF ProcessBlock, AcquirePermit, FetchBlock, FetchReceipts, InsertBlock,
           InsertEvents, TraceFailedTxs, InsertTraceLogs, InsertFailedTransactions, StoredTxs
    <3>2. events' \subseteq events \cup StoredTxs
      BY <1>3, <2>5 DEF ProcessBlock, AcquirePermit, FetchBlock, FetchReceipts, InsertBlock, InsertEvents, TaskAt,
           TraceFailedTxs, InsertTraceLogs, InsertFailedTransactions, MissesKey, Referenced
    <3>3. failed' \subseteq failed \cup StoredTxs
      BY <1>3, <2>5 DEF ProcessBlock, AcquirePermit, FetchBlock, FetchReceipts, InsertBlock, InsertEvents, TaskAt,
           TraceFailedTxs, InsertTraceLogs, InsertFailedTransactions, MissesKey, Referenced
    <3>4. Framed' \subseteq Framed \cup StoredTxs
      <4>1. CASE traces' = traces
        BY <4>1
      <4>2. CASE InsertTraceLogs(h)
        BY <4>2 DEF InsertTraceLogs, TaskAt, MissesKey, Referenced
      <4> QED  BY <1>3, <2>5, <4>1, <4>2 DEF ProcessBlock, AcquirePermit, FetchBlock, FetchReceipts, InsertBlock,
           InsertEvents, TraceFailedTxs, InsertFailedTransactions
    <3> QED  BY <1>0, <2>3, <3>1, <3>2, <3>3, <3>4 DEF ReferencesHold
  <2> QED  BY <2>4, <2>5
<1> QED
  <2>1. CASE ~Rollback /\ ~(\E h \in Heights : ProcessBlock(h))
    <3>1. CASE Aborted
      BY <1>1, <3>1, AbortedStep
    <3>2. CASE ~Aborted
      BY <2>1, <3>2, <1>1 DEF Next, Step, Aborted, NodeExtend, NodeReorg, StartFollow, StartBackfill, CtrlC,
                  ScanRpcFailure, ScanFetch, ScanAbsent, ScanClassify, Wake, RangeEnd, FollowTarget,
                  SpawnChunk, UpdateCheckpoint
    <3> QED  BY <3>1, <3>2
  <2> QED  BY <2>1, <1>2, <1>3

-----------------------------------------------------------------------------
(* The checkpoint *)

\* Never interrupted: a rollback starts at or below the checkpoint.
LEMMA CleanFork ==
  ASSUME TypeOK, ForkOK, CleanOK, interrupts = 0, pc = "rollback"
  PROVE  /\ checkpoint # NoRow
         /\ fork <= checkpoint
         /\ Rewound = fork - 1
<1>1. fork \in Heights /\ fork > 0 /\ block[fork] # NoBlock
  BY DEF ForkOK, TypeOK
<1>2. fork <= checkpoint
  BY <1>1 DEF CleanOK
<1> QED  BY <1>1, <1>2 DEF Rewound, Larger, Heights, NoRow, TypeOK

\* The chunk lies above the checkpoint and below its own end.
LEMMA ChunkAbove ==
  ASSUME TypeOK, TasksOK, RangeOK, pc = "tasks"
  PROVE  /\ ChunkEnd \in Heights
         /\ checkpoint < next
         /\ next <= ChunkEnd
         /\ \A h \in ChunkHeights : h \in Heights /\ checkpoint < h /\ h <= ChunkEnd
<1>1. ChunkEnd \in Heights /\ next <= ChunkEnd /\ next \in Heights
  BY ChunkEndType DEF TasksOK
<1>2. checkpoint < next
  BY DEF RangeOK, TypeOK, Heights, NoRow
<1> QED  BY <1>1, <1>2 DEF ChunkHeights, Heights, TypeOK, NoRow

\* The conclusion of CleanOK.
RowsClean ==
  \A h \in Heights : block[h] # NoBlock => h <= checkpoint \/ (pc = "tasks" /\ h \in ChunkHeights)

\* Without an interruption a chunk is the only thing above the checkpoint.
LEMMA CleanStep ==
  ASSUME TypeOK, TasksOK, RangeOK, ForkOK, CleanOK, Next
  PROVE  CleanOK'
<1> SUFFICES ASSUME interrupts' = 0  PROVE RowsClean'
  BY DEF CleanOK, RowsClean
<1> USE DEF node, db, scanVars, rangeVars, procVars
<1>1. interrupts = 0 /\ ~Aborted
  BY CounterStep
<1>2. RowsClean
  BY <1>1 DEF CleanOK, RowsClean
<1>3. CASE UNCHANGED <<block, checkpoint>> /\ pc # "tasks"
  BY <1>2, <1>3 DEF RowsClean
<1>4. CASE UNCHANGED <<block, checkpoint, pc, next, last>>
  BY <1>2, <1>4 DEF RowsClean, ChunkHeights, ChunkEnd
<1>5. CASE Rollback
  <2>1. checkpoint' = fork - 1
    BY <1>1, <1>5, CleanFork DEF Rollback
  <2>2. \A h \in Heights : block'[h] # NoBlock => ~(h >= fork)
    BY <1>5 DEF Rollback
  <2> QED  BY <2>1, <2>2 DEF RowsClean, Heights, TypeOK
<1>6. CASE UpdateCheckpoint
  <2>1. pc = "tasks" /\ checkpoint' = ChunkEnd /\ block' = block
    BY <1>6 DEF UpdateCheckpoint
  <2>2. ASSUME NEW h \in Heights, block[h] # NoBlock  PROVE h <= ChunkEnd
    BY <2>1, <2>2, <1>2, ChunkAbove DEF RowsClean, Heights, TypeOK, NoRow
  <2> QED  BY <2>1, <2>2 DEF RowsClean
<1>7. ASSUME NEW h \in Heights, ProcessBlock(h)  PROVE RowsClean'
  <2>1. h \in ChunkHeights /\ pc = "tasks"
    BY <1>7, TaskFrame DEF TasksOK
  <2>2. ChunkHeights' = ChunkHeights /\ pc' = pc /\ checkpoint' = checkpoint
    BY <1>7, TaskFrame DEF ChunkHeights, ChunkEnd
  <2>3. \A k \in Heights : k # h => block'[k] = block[k]
    BY <1>7, TaskFrame
  <2> QED  BY <1>2, <2>1, <2>2, <2>3 DEF RowsClean
<1> QED
  <2>1. CASE NodeExtend \/ NodeReorg
    BY <2>1, <1>4 DEF NodeExtend, NodeReorg
  <2>2. CASE CtrlC
    BY <2>2, <1>3, <1>4 DEF CtrlC
  <2>3. CASE StartFollow \/ StartBackfill \/ ScanRpcFailure \/ ScanFetch \/ ScanAbsent \/ ScanClassify
             \/ Wake \/ RangeEnd \/ FollowTarget \/ SpawnChunk
    BY <2>3, <1>3 DEF StartFollow, StartBackfill, ScanRpcFailure, ScanFetch, ScanAbsent, ScanClassify, Wake,
                      RangeEnd, FollowTarget, SpawnChunk, AtBoundary
  <2> QED  BY <2>1, <2>2, <2>3, <1>1, <1>5, <1>6, <1>7 DEF Next, Step, Aborted

\* A transaction is in the node's chain once.
ChainHasOnce == \A t \in Txs, h, k \in Heights : InChain(t, h) /\ InChain(t, k) => h = k

LEMMA InChainOnce == TypeOK => ChainHasOnce
<1> SUFFICES ASSUME TypeOK, NEW t \in Txs, NEW h \in Heights, NEW k \in Heights, InChain(t, h), InChain(t, k)
             PROVE  h = k
  BY DEF ChainHasOnce
<1>1. tip \in Blocks /\ h \in 0 .. Height[tip] /\ k \in 0 .. Height[tip]
  BY ChainAssumption DEF TypeOK, InChain, NodeBlock, Heights
<1>2. PICK i \in DOMAIN Body[Chain[tip][h]], j \in DOMAIN Body[Chain[tip][k]] :
        Body[Chain[tip][h]][i] = t /\ Body[Chain[tip][k]][j] = t
  BY DEF InChain, NodeBlock, TxsOf
<1>3. \A a, b \in 0 .. Height[tip] :
        \A m \in DOMAIN Body[Chain[tip][a]], n \in DOMAIN Body[Chain[tip][b]] :
          Body[Chain[tip][a]][m] = Body[Chain[tip][b]][n] => a = b /\ m = n
  BY <1>1, BodyAssumption, Zenon
<1>4. Body[Chain[tip][h]][i] = Body[Chain[tip][k]][j] => h = k /\ i = j
  BY <1>1, <1>2, <1>3, Zenon
<1> QED  BY <1>2, <1>4

\* The same of the next state.
LEMMA InChainOnceNext == TypeOK' => ChainHasOnce'
BY InChainOnce, PTL

\* What TracesOK says of one transaction.
Traced(t) == traces[t] > 0 => \E h \in Heights : InChain(t, h)
Settled(t) ==
  traces[t] > interrupts =>
    \A h \in Heights : InChain(t, h) => h <= checkpoint \/ task[h].at \in {"failedTx", "done"}

\* While the chain only grows, a transaction above the checkpoint is traced,
\* between two interruptions, by the task in progress only.
LEMMA TracesStep ==
  ASSUME TypeOK, TasksOK, RangeOK, NoReorgOK, TracesOK, FramesBounded, Next
  PROVE  TracesOK'
<1> SUFFICES ASSUME reorgs' = 0  PROVE \A t \in Txs : Traced(t)' /\ Settled(t)'
  BY DEF TracesOK, Traced, Settled
<1> USE DEF node, db, scanVars, rangeVars, procVars
<1>1. reorgs = 0 /\ (tip' = tip \/ NodeExtend) /\ interrupts \in Nat
  BY CounterStep
<1>2. \A t \in Txs : Traced(t) /\ Settled(t)
  BY <1>1 DEF TracesOK, Traced, Settled
<1>3. CASE UNCHANGED <<tip, traces, checkpoint, interrupts, task>>
  BY <1>2, <1>3 DEF Traced, Settled, InChain, NodeBlock
<1>4. CASE UNCHANGED <<tip, traces, checkpoint, interrupts>> /\ pc # "tasks"
  <2>1. \A h \in Heights : task[h].at \notin {"failedTx", "done"}
    BY <1>4 DEF TasksOK, NoTasks, IdleTask
  <2> QED  BY <1>2, <1>4, <2>1 DEF Traced, Settled, InChain, NodeBlock
<1>5. CASE Aborted
  <2>1. interrupts' = interrupts + 1 /\ traces' = traces /\ tip' = tip
    BY <1>5, AbortedStep
  <2>2. \A t \in Txs : ~(traces'[t] > interrupts')
    BY <1>1, <2>1 DEF FramesBounded, TypeOK
  <2>3. \A t \in Txs : Traced(t)'
    BY <1>2, <2>1 DEF Traced, InChain, NodeBlock
  <2> QED  BY <2>2, <2>3 DEF Settled
<1>6. CASE NodeExtend
  <2>1. UNCHANGED <<traces, checkpoint, task, interrupts>>
    BY <1>6 DEF NodeExtend
  <2>2. ASSUME NEW t \in Txs, NEW h \in Heights, InChain(t, h)  PROVE InChain(t, h)'
    BY <1>6, <2>2, GrowthKeeps DEF InChain, NodeBlock
  <2>3. ASSUME NEW t \in Txs  PROVE Traced(t)'
    BY <1>2, <2>1, <2>2 DEF Traced
  <2>4. ASSUME NEW t \in Txs  PROVE Settled(t)'
    <3> SUFFICES ASSUME traces[t] > interrupts, NEW h \in Heights, InChain(t, h)'
                 PROVE  h <= checkpoint \/ task[h].at \in {"failedTx", "done"}
      BY <2>1 DEF Settled
    <3>1. PICK k \in Heights : InChain(t, k)
      BY <1>1, <1>2 DEF Traced, TypeOK
    <3>2. TypeOK'
      BY TypeStep
    <3>3. h = k
      BY <2>2, <3>1, <3>2, InChainOnceNext DEF ChainHasOnce
    <3> QED  BY <1>2, <3>1, <3>3 DEF Settled
  <2> QED  BY <2>3, <2>4
<1>7. CASE UpdateCheckpoint
  <2>1. pc = "tasks" /\ checkpoint' = ChunkEnd /\ UNCHANGED <<tip, traces, interrupts>>
    BY <1>7 DEF UpdateCheckpoint
  <2>2. ASSUME NEW h \in Heights, h <= checkpoint \/ task[h].at \in {"failedTx", "done"}  PROVE h <= ChunkEnd
    <3>1. CASE h <= checkpoint
      BY <3>1, <2>1, ChunkAbove DEF Heights, TypeOK, NoRow
    <3>2. CASE task[h].at \in {"failedTx", "done"}
      BY <3>2, <2>1, ChunkAbove DEF TasksOK
    <3> QED  BY <2>2, <3>1, <3>2
  <2> QED  BY <1>2, <2>1, <2>2 DEF Traced, Settled, InChain, NodeBlock
<1>8. ASSUME NEW h \in Heights, ProcessBlock(h)  PROVE \A t \in Txs : Traced(t)' /\ Settled(t)'
  <2>1. UNCHANGED <<tip, checkpoint, interrupts>> /\ \A k \in Heights : k # h => task'[k] = task[k]
    BY <1>8, TaskFrame
  <2>2. task[h].at \in {"failedTx", "done"} => task'[h].at \in {"failedTx", "done"}
    <3>1. CASE InsertFailedTransactions(h)
      BY <3>1 DEF InsertFailedTransactions, TaskAt, TypeOK
    <3>2. CASE ~InsertFailedTransactions(h)
      BY <1>8, <3>2 DEF ProcessBlock, AcquirePermit, FetchBlock, FetchReceipts, InsertBlock, InsertTransactions,
           InsertEvents, TraceFailedTxs, InsertTraceLogs, TaskAt
    <3> QED  BY <3>1, <3>2
  <2>3. ASSUME NEW t \in Txs, traces'[t] = traces[t]  PROVE Traced(t)' /\ Settled(t)'
    BY <1>2, <2>1, <2>2, <2>3 DEF Traced, Settled, InChain, NodeBlock
  <2>4. CASE InsertTraceLogs(h)
    <3>1. task'[h].at = "failedTx" /\ task[h].at = "traceLogs"
      BY <2>4 DEF InsertTraceLogs, TaskAt, TypeOK
    <3>2. task[h].rcpt \in Blocks /\ task[h].rcpt = NodeBlock(h)
      BY <1>1, <3>1 DEF TasksOK, HasBlockRow, TypeOK, MaybeBlock, NoReorgOK, OnChain, NodeBlock
    <3>3. \A t \in task[h].traced : InChain(t, h)
      BY <3>1, <3>2, ChainAssumption DEF TasksOK, InChain, Reverting
    <3>4. ASSUME NEW t \in Txs, t \in task[h].traced  PROVE Traced(t)' /\ Settled(t)'
      <4>1. InChain(t, h)' /\ \A k \in Heights : InChain(t, k)' => k = h
        BY <2>1, <3>3, <3>4, InChainOnce DEF ChainHasOnce, InChain, NodeBlock
      <4> QED  BY <3>1, <4>1 DEF Traced, Settled
    <3>5. \A t \in Txs : t \notin task[h].traced => traces'[t] = traces[t]
      BY <2>4 DEF InsertTraceLogs
    <3> QED  BY <2>3, <3>4, <3>5
  <2> QED  BY <1>8, <2>3, <2>4 DEF ProcessBlock, AcquirePermit, FetchBlock, FetchReceipts, InsertBlock,
                InsertTransactions, InsertEvents, TraceFailedTxs, InsertFailedTransactions
<1> QED
  <2>1. CASE CtrlC
    BY <2>1, <1>3, <1>4 DEF CtrlC
  <2>2. CASE StartFollow \/ StartBackfill \/ ScanRpcFailure \/ ScanFetch \/ ScanAbsent \/ ScanClassify
             \/ Wake \/ RangeEnd \/ FollowTarget \/ SpawnChunk
    BY <2>2, <1>4 DEF StartFollow, StartBackfill, ScanRpcFailure, ScanFetch, ScanAbsent, ScanClassify, Wake,
                      RangeEnd, FollowTarget, SpawnChunk, AtBoundary
  <2>3. ~Rollback
    BY <1>1 DEF Rollback, NoReorgOK
  <2>4. ~NodeReorg
    BY <1>1 DEF NodeReorg, TypeOK
  <2> QED  BY <2>1, <2>2, <2>3, <2>4, <1>5, <1>6, <1>7, <1>8 DEF Next, Step, Aborted

\* Every height the checkpoint vouches for has a row.
AllCovered == \A h \in base .. checkpoint : block[h] # NoBlock

\* The checkpoint moves up only over stored blocks and back only to one.
LEMMA CoveredStep ==
  ASSUME TypeOK, TasksOK, RangeOK, ForkOK, CleanOK, NoReorgOK, CheckpointCovered, Next
  PROVE  CheckpointCovered'
<1> SUFFICES ASSUME interrupts' = 0 \/ reorgs' = 0  PROVE AllCovered'
  BY DEF CheckpointCovered, AllCovered
<1> USE DEF node, db, scanVars, rangeVars, procVars
<1>1. interrupts = 0 \/ reorgs = 0
  BY CounterStep
<1>2. AllCovered
  BY <1>1 DEF CheckpointCovered, AllCovered
<1>3. /\ base \in Heights /\ checkpoint \in Heights \cup {NoRow}
      /\ Heights = 0 .. MaxHeight /\ MaxHeight \in Nat /\ NoRow = -1
  BY ChainAssumption DEF TypeOK, Heights, NoRow
<1>4. CASE UNCHANGED <<block, checkpoint, base>>
  BY <1>2, <1>4 DEF AllCovered
<1>5. CASE Rollback
  <2>1. interrupts = 0 /\ pc = "rollback"
    BY <1>1, <1>5 DEF Rollback, NoReorgOK
  <2>2. checkpoint' = fork - 1 /\ fork <= checkpoint /\ checkpoint # NoRow
    BY <1>5, <2>1, CleanFork DEF Rollback
  <2>3. ASSUME NEW h \in base' .. checkpoint'  PROVE block'[h] # NoBlock
    <3>1. base' = base /\ fork \in Heights
      BY <1>5 DEF Rollback, TypeOK
    <3>2. h \in base .. checkpoint /\ h \in Heights /\ ~(h >= fork)
      BY <1>3, <2>2, <3>1
    <3> QED  BY <1>2, <1>5, <3>2 DEF Rollback, AllCovered
  <2> QED  BY <2>3 DEF AllCovered
<1>6. CASE UpdateCheckpoint
  <2>1. /\ pc = "tasks" /\ checkpoint' = ChunkEnd /\ base' = base /\ block' = block
        /\ \A h \in ChunkHeights : task[h].at = "done"
    BY <1>6 DEF UpdateCheckpoint, AllJoined
  <2>2. ChunkEnd \in Heights /\ next <= ChunkEnd /\ next \in Nat
    BY <2>1, ChunkAbove DEF TypeOK
  <2>3. ASSUME NEW h \in base .. ChunkEnd  PROVE block[h] # NoBlock
    <3>1. h \in Heights
      BY <1>3, <2>2
    <3>2. CASE h >= next
      <4>1. h \in ChunkHeights
        BY <3>1, <3>2, <2>2, <1>3 DEF ChunkHeights
      <4> QED  BY <4>1, <3>1, <2>1 DEF TasksOK, Stored
    <3>3. CASE h < next
      <4>1. checkpoint # NoRow /\ next = checkpoint + 1
        BY <3>1, <3>3, <2>1, <2>2, <1>3 DEF RangeOK
      <4>2. h \in base .. checkpoint
        BY <3>1, <3>3, <4>1, <1>3
      <4> QED  BY <4>2, <1>2 DEF AllCovered
    <3> QED  BY <3>1, <3>2, <3>3, <2>2, <1>3
  <2> QED  BY <2>1, <2>3 DEF AllCovered
<1>7. CASE /\ UNCHANGED <<block, checkpoint>>
           /\ base' \in Heights /\ (base' = base \/ base' > checkpoint)
  BY <1>2, <1>3, <1>7 DEF AllCovered
<1>8. ASSUME NEW h \in Heights, ProcessBlock(h)  PROVE AllCovered'
  <2>1. base' = base /\ checkpoint' = checkpoint
    BY <1>8, TaskFrame
  <2>2. \A k \in Heights : block[k] # NoBlock => block'[k] = block[k]
    BY <1>8, TaskFrame
  <2>3. \A k \in base .. checkpoint : k \in Heights
    BY <1>3
  <2> QED  BY <1>2, <2>1, <2>2, <2>3 DEF AllCovered
<1>9. TypeOK'
  BY TypeStep
<1> QED
  <2>1. CASE StartBackfill
    <3>1. PICK r \in Backfills : base' = BaseFor(BackfillFrom(r))
      BY <2>1 DEF StartBackfill
    <3>2. r.from \in Heights
      BY ConfigAssumption
    <3>3. BackfillFrom(r) > checkpoint
      BY <3>2, <1>3 DEF BackfillFrom
    <3> QED  BY <2>1, <3>1, <3>3, <1>7, <1>9 DEF StartBackfill, BaseFor, TypeOK
  <2>2. CASE FollowTarget
    <3>1. CASE next_target(NodeHead, Confirmations, checkpoint) = NoTarget
      BY <2>2, <3>1, <1>4 DEF FollowTarget, EndOfCycle, Wait, ProcessGone
    <3>2. CASE next_target(NodeHead, Confirmations, checkpoint) # NoTarget
      <4>1. NodeHead \in Heights
        BY ChainAssumption DEF NodeHead, TypeOK
      <4>2. base' = base \/ base' > checkpoint
        BY <2>2, <3>2, <4>1, TargetRange DEF FollowTarget, TypeOK, BaseFor
      <4> QED  BY <2>2, <4>2, <1>7, <1>9 DEF FollowTarget, TypeOK
    <3> QED  BY <3>1, <3>2
  <2>3. CASE NodeExtend \/ NodeReorg \/ StartFollow \/ CtrlC \/ ScanRpcFailure \/ ScanFetch
             \/ ScanAbsent \/ ScanClassify \/ Wake \/ RangeEnd \/ SpawnChunk
    BY <2>3, <1>4 DEF NodeExtend, NodeReorg, StartFollow, CtrlC, ScanRpcFailure, ScanFetch, ScanAbsent,
                      ScanClassify, Wake, RangeEnd, SpawnChunk, ProcessGone, EndOfCycle, Wait
  <2>4. CASE Aborted
    BY <2>4, <1>4, AbortedStep DEF ProcessGone
  <2> QED  BY <2>1, <2>2, <2>3, <2>4, <1>5, <1>6, <1>8 DEF Next, Step, Aborted

\* While the chain only grows, frames are inserted only for a transaction that
\* has at most as many as there were interruptions.
LEMMA TracedStep ==
  ASSUME TypeOK, TasksOK, RangeOK, NoReorgOK, TracesOK, FramesBounded, Next
  PROVE  FramesBounded'
<1> SUFFICES ASSUME reorgs' = 0, NEW t \in Txs  PROVE traces'[t] <= 1 + interrupts'
  BY DEF FramesBounded
<1> USE DEF node, db, scanVars, rangeVars, procVars
<1>1. interrupts \in Nat /\ interrupts' \in Nat /\ interrupts <= interrupts' /\ reorgs = 0
  <2>1. TypeOK'
    BY TypeStep
  <2> QED  BY <2>1, CounterStep DEF TypeOK
<1>2. traces[t] <= 1 + interrupts /\ traces[t] \in Nat
  BY <1>1 DEF FramesBounded, TypeOK
<1>3. CASE traces' = traces
  BY <1>1, <1>2, <1>3
<1>4. ASSUME NEW h \in Heights, InsertTraceLogs(h)  PROVE traces'[t] <= 1 + interrupts'
  <2>1. task[h].at = "traceLogs" /\ pc = "tasks"
        /\ traces'[t] = IF t \in task[h].traced THEN traces[t] + 1 ELSE traces[t]
    BY <1>4 DEF InsertTraceLogs, TaskAt
  <2>2. CASE t \notin task[h].traced
    BY <1>1, <1>2, <2>1, <2>2
  <2>3. CASE t \in task[h].traced
    <3>1. task[h].rcpt \in Blocks /\ task[h].rcpt = NodeBlock(h)
      BY <1>1, <2>1 DEF TasksOK, HasBlockRow, TypeOK, MaybeBlock, NoReorgOK, OnChain, NodeBlock
    <3>2. InChain(t, h)
      BY <2>1, <2>3, <3>1, ChainAssumption DEF TasksOK, InChain, Reverting
    <3>3. checkpoint < h /\ checkpoint \in Int /\ h \in Int
      BY <2>1, ChunkAbove DEF TasksOK, TypeOK, Heights, NoRow
    <3>4. ~(traces[t] > interrupts)
      BY <1>1, <2>1, <3>2, <3>3 DEF TracesOK
    <3> QED  BY <1>1, <1>2, <2>1, <3>4
  <2> QED  BY <2>2, <2>3
<1>5. ~Rollback
  BY <1>1 DEF Rollback, NoReorgOK
<1>6. CASE Aborted
  BY <1>6, <1>3, AbortedStep
<1>7. CASE ~Aborted /\ ~(\E h \in Heights : InsertTraceLogs(h))
  BY <1>3, <1>5, <1>7 DEF Next, Step, Aborted, NodeExtend, NodeReorg, StartFollow, StartBackfill, CtrlC,
              ScanRpcFailure, ScanFetch, ScanAbsent, ScanClassify, Wake, RangeEnd, FollowTarget,
              SpawnChunk, UpdateCheckpoint, ProcessBlock, AcquirePermit, FetchBlock, FetchReceipts, InsertBlock,
              InsertTransactions, InsertEvents, TraceFailedTxs, InsertFailedTransactions
<1> QED  BY <1>4, <1>6, <1>7

-----------------------------------------------------------------------------
(* The theorems *)

\* The invariant holds initially ...
LEMMA InitInv == Init => IInv
<1> SUFFICES ASSUME Init  PROVE IInv
  OBVIOUS
<1>1. TypeOK
  BY InitType
<1>2. task = NoTasks /\ pc = "down" /\ 0 \in Heights
  BY ChainAssumption DEF Init, Heights
<1>3. TasksOK
  BY <1>2 DEF TasksOK, NoTasks, IdleTask, HasBlockRow, HasTxRow, Stored
<1>4. RangeOK /\ ForkOK
  BY <1>2 DEF RangeOK, ForkOK
<1>5. GenesisOK /\ NoReorgOK
  BY <1>2 DEF Init, GenesisOK, NoReorgOK, OnChain, NoTasks, IdleTask
<1>6. CleanOK /\ TracesOK /\ FramesBounded
  BY ChainAssumption DEF Init, CleanOK, TracesOK, FramesBounded
<1>8. ReferencesHold
  <2>1. KeysOK /\ StoredTxs = {}
    BY <1>3, KeysFit DEF Init, StoredTxs
  <2> QED  BY <2>1 DEF Init, ReferencesHold, KeysOK
<1>7. CheckpointCovered
  <2>1. base .. checkpoint = {}
    BY DEF Init, NoRow
  <2> QED  BY <2>1 DEF CheckpointCovered
<1> QED  BY <1>1, <1>3, <1>4, <1>5, <1>6, <1>7, <1>8 DEF IInv

\* ... and every step, stuttering steps included, keeps it.
LEMMA StepInv == IInv /\ [Next]_vars => IInv'
<1> SUFFICES ASSUME IInv, [Next]_vars  PROVE IInv'
  OBVIOUS
<1>1. CASE Next
  <2> USE <1>1 DEF IInv
  <2>1. TypeOK'  BY TypeStep
  <2>2. TasksOK'  BY TasksStep
  <2>3. RangeOK'  BY RangeStep
  <2>4. GenesisOK'  BY GenesisStep
  <2>5. ForkOK'  BY ForkStep
  <2>6. CleanOK'  BY CleanStep
  <2>7. NoReorgOK'  BY NoReorgStep
  <2>8. ReferencesHold'  BY ReferencesStep
  <2>9. CheckpointCovered'  BY CoveredStep
  <2>10. FramesBounded'  BY TracedStep
  <2>11. TracesOK'  BY TracesStep
  <2> QED  BY <2>1, <2>2, <2>3, <2>4, <2>5, <2>6, <2>7, <2>8, <2>9, <2>10, <2>11
<1>2. CASE UNCHANGED vars
  <2> USE <1>2 DEF vars, node, db, scanVars, rangeVars, procVars, IInv
  <2>1. TypeOK'  BY DEF TypeOK
  <2>2. TasksOK' /\ RangeOK' /\ CleanOK'
    BY DEF TasksOK, RangeOK, CleanOK, ChunkHeights, ChunkEnd, StoredTxs
  <2>3. GenesisOK' /\ ForkOK' /\ NoReorgOK'  BY DEF GenesisOK, ForkOK, NoReorgOK, OnChain
  <2>4. TracesOK' /\ FramesBounded'  BY DEF TracesOK, FramesBounded, InChain, NodeBlock
  <2>5. ReferencesHold'  BY DEF ReferencesHold, MissesKey, Referenced, StoredTxs
  <2>6. CheckpointCovered'  BY DEF CheckpointCovered
  <2> QED  BY <2>1, <2>2, <2>3, <2>4, <2>5, <2>6
<1> QED  BY <1>1, <1>2

\* IInv is an invariant of the indexer.
THEOREM Invariance == Spec => []IInv
BY InitInv, StepInv, PTL DEF Spec

\* Every variable keeps its type: in particular the checkpoint and the ends of
\* a chunk stay inside the chain, and a transaction is stored with the block
\* its body and the block its receipt came from.
THEOREM TypeCorrect == Spec => []TypeOK
<1>1. IInv => TypeOK
  BY DEF IInv
<1> QED  BY <1>1, Invariance, PTL

\* No insert of process_block and no delete of rollback_from_block ever breaks
\* a foreign key, and none is refused by one unless the receipts were those of
\* another block, whatever the node and the crashes do.
THEOREM ReferentialIntegrity == Spec => []ReferencesHold
<1>1. IInv => ReferencesHold
  BY DEF IInv
<1> QED  BY <1>1, Invariance, PTL

\* The checkpoint never runs ahead of the stored blocks, unless a crash and a
\* reorganisation come together.
THEOREM CheckpointIsCovered == Spec => []CheckpointCovered
<1>1. IInv => CheckpointCovered
  BY DEF IInv
<1> QED  BY <1>1, Invariance, PTL

\* While the node's chain only grows, the frames of a failed transaction are
\* stored at most once more than the process was interrupted, wherever it was.
THEOREM FramesPerInterruption == Spec => []FramesBounded
<1>1. IInv => FramesBounded
  BY DEF IInv
<1> QED  BY <1>1, Invariance, PTL

\* After Ctrl-C, without a crash, nothing is stored above the checkpoint: the
\* next start resumes exactly where the stopped one ended.
THEOREM StopIsClean == Spec => []CleanStop
<1>1. IInv => CleanStop
  BY DEF IInv, CleanOK, CleanStop, Rows
<1> QED  BY <1>1, Invariance, PTL

\* Without a crash, the checkpoint goes back in a rollback and nowhere else.
THEOREM CheckpointDirection == Spec => CheckpointOnlyRewindsInRollback
<1> DEFINE A == interrupts = 0 /\ checkpoint # NoRow
                  => IF pc = "rollback" /\ pc' = "scan"
                       THEN checkpoint' < checkpoint
                       ELSE checkpoint' >= checkpoint
<1>1. IInv /\ [Next]_vars => [A]_vars
  <2> SUFFICES ASSUME IInv, Next, interrupts = 0, checkpoint # NoRow
               PROVE  IF pc = "rollback" /\ pc' = "scan"
                        THEN checkpoint' < checkpoint
                        ELSE checkpoint' >= checkpoint
    OBVIOUS
  <2> USE DEF IInv, node, db, scanVars, rangeVars, procVars
  <2>1. checkpoint \in Int /\ fork \in Int
    BY DEF TypeOK, Heights, NoRow
  <2>2. CASE Rollback
    BY <2>1, <2>2, CleanFork DEF Rollback, AfterRollback
  <2>3. CASE UpdateCheckpoint
    BY <2>1, <2>3, ChunkAbove DEF UpdateCheckpoint, Heights, TypeOK
  <2>4. CASE \E h \in Heights : ProcessBlock(h)
    <3>1. pc = "tasks" /\ checkpoint' = checkpoint
      BY <2>4, TaskFrame
    <3> QED  BY <2>1, <3>1
  <2>5. CASE ~Rollback /\ ~UpdateCheckpoint /\ ~(\E h \in Heights : ProcessBlock(h))
    <3>1. checkpoint' = checkpoint
      BY <2>5, AbortedStep DEF Next, Step, Aborted, NodeExtend, NodeReorg, StartFollow, StartBackfill, CtrlC,
                  ScanRpcFailure, ScanFetch, ScanAbsent, ScanClassify, Wake, RangeEnd, FollowTarget, SpawnChunk
    <3>2. ~(pc = "rollback" /\ pc' = "scan")
      BY <2>5, AbortedStep DEF Next, Step, Aborted, NodeExtend, NodeReorg, StartFollow, StartBackfill, CtrlC, ProcessGone,
                  ScanRpcFailure, ScanFetch, ScanAbsent, ScanClassify, Wake, RangeEnd, AtBoundary, FollowTarget,
                  SpawnChunk
    <3> QED  BY <2>1, <3>1, <3>2
  <2> QED  BY <2>2, <2>3, <2>4, <2>5
<1> QED  BY <1>1, Invariance, PTL DEF Spec, CheckpointOnlyRewindsInRollback
=============================================================================
