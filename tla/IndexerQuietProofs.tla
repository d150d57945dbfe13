-------------------------- MODULE IndexerQuietProofs --------------------------
(***************************************************************************)
(* Proofs about follow mode over a quiet node: one whose chain changes     *)
(* between two cycles only, whose RPC calls succeed, and whose reader does *)
(* not crash.  Under these hypotheses detect_fork sees one chain, and the  *)
(* database agrees with it whenever blocks are added.                      *)
(***************************************************************************)
EXTENDS IndexerProofs, WellFoundedInduction

-----------------------------------------------------------------------------
(* The hypotheses and the inductive invariant *)

\* What is assumed of the node and of the process.
Quiet ==
  /\ NodePoints \subseteq {"down", "wait"}
  /\ MaxInterrupts = 0
  /\ MaxRpcFailures = 0
  /\ Backfills = {}

\* Every stored block is on the node's chain.
AllCanonical == \A h \in Rows : block[h] = NodeBlock(h)

\* The stored blocks are on one chain, be it the node's or one it has left:
\* each of them is the ancestor, at its height, of all those above it.
Linked == \A k \in Rows : \A h \in Rows : h <= k => block[h] = Chain[block[k]][h]

\* A scan looks at one block at least, and what it has fetched is the chain.
ScanOK ==
  pc = "scan" => depth >= 1 /\ \A h \in Heights : OnChain(h, seen[h])

\* After a scan the stored blocks are canonical, or the node's chain ends
\* below the checkpoint and there is nothing to index.
HeadOK == pc = "head" => AllCanonical \/ checkpoint > NodeHead

\* Nothing ends the process from inside either: no key refuses an INSERT.
Uninterrupted == interrupts = 0

\* The transactions of block b are stored with its bodies and its receipts.
StoredAs(b) == \A t \in TxsOf(b) : tx[t] = OwnRow(b)

\* A block and its receipts are one block of the node's chain, and what the
\* task has stored of it is there.
TaskCanon(h) ==
  LET at == task[h].at
      b  == NodeBlock(h)
  IN  /\ at = "fetchReceipts" => task[h].blk = b
      /\ at = "fetchBlock" => task[h].rcpt = b
      /\ at \in {"block", "done"} \cup HasBlockRow => b # NoBlock /\ task[h].blk = b /\ task[h].rcpt = b
      /\ at \in {"done"} \cup HasTxRow => StoredAs(b)
      /\ at \in {"done"} \cup (HasTxRow \ {"events"}) => Emitting(b) \subseteq events

TasksCanon == \A h \in Heights : TaskCanon(h)

\* A transaction row is of the stored block at its height, with its own body
\* and receipt, and what else is stored of it is of that receipt.
OwnTx ==
  \A t \in StoredTxs : LET b == tx[t].body IN
    /\ tx[t] = OwnRow(b) /\ t \in TxsOf(b) /\ block[Height[b]] = b
    /\ t \in events => t \in Emitting(b)
    /\ t \in failed => t \in Reverting(b)

\* Up to the checkpoint a stored block has its transactions and events.
Complete ==
  \A h \in base .. checkpoint : block[h] # NoBlock => StoredAs(block[h]) /\ Emitting(block[h]) \subseteq events

\* The frames of a transaction are stored once: by the task of its block, or
\* below the checkpoint.
FramesOK ==
  \A t \in Txs :
    /\ traces[t] <= 1
    /\ traces[t] > 0 => \/ Height[tx[t].body] <= checkpoint
                        \/ task[Height[tx[t].body]].at \in {"failedTx", "done"}

QInv ==
  /\ Uninterrupted
  /\ Linked
  /\ ScanOK
  /\ HeadOK
  /\ IndexedIsCanonical
  /\ TasksCanon
  /\ OwnTx
  /\ Complete
  /\ FramesOK

\* The fork a rollback starts at separates the rows that are on the node's
\* chain from those that are not, as far down as a scan looks.
ForkExact ==
  pc = "rollback" => ForkSeparates

-----------------------------------------------------------------------------
(* Facts about heights, chains and windows *)

\* A set of natural numbers that is not empty has a least element.
LEMMA LeastOfNats ==
  ASSUME NEW T, T \subseteq Nat, T # {}
  PROVE  \E x \in T : \A y \in T : x <= y
<1> DEFINE R == OpToRel(<, Nat)
<1>1. IsWellFoundedOn(R, Nat)
  BY NatLessThanWellFounded
<1>2. \A x, y \in Nat : x < y => <<x, y>> \in R
  BY DEF OpToRel
<1> HIDE DEF R
<1>3. PICK x \in T : \A y \in T : ~(<<y, x>> \in R)
  BY <1>1, WFMin
<1>4. ASSUME NEW y \in T  PROVE x <= y
  <2>1. x \in Nat /\ y \in Nat
    OBVIOUS
  <2>2. ~(y < x)
    BY <1>2, <1>3, <2>1
  <2> QED  BY <2>1, <2>2
<1> QED  BY <1>4

\* A set of heights that is not empty has a highest element.
LEMMA HighestOfHeights ==
  ASSUME NEW S, S \subseteq Heights, S # {}
  PROVE  \E x \in S : \A y \in S : y <= x
<1>1. MaxHeight \in Nat /\ \A s \in S : s \in 0 .. MaxHeight
  BY ChainAssumption DEF Heights
<1> DEFINE U == {MaxHeight - s : s \in S}
<1>2. U \subseteq Nat /\ U # {}
  <2>1. \A s \in S : MaxHeight - s \in Nat
    BY <1>1
  <2>2. PICK s \in S : TRUE
    OBVIOUS
  <2>3. MaxHeight - s \in U
    OBVIOUS
  <2> QED  BY <2>1, <2>3
<1> HIDE DEF U
<1>3. PICK u \in U : \A y \in U : u <= y
  BY <1>2, LeastOfNats
<1>4. PICK x \in S : u = MaxHeight - x
  BY DEF U
<1>5. ASSUME NEW y \in S  PROVE y <= x
  <2>1. MaxHeight - y \in U
    BY DEF U
  <2> QED  BY <1>1, <1>3, <1>4, <2>1
<1> QED  BY <1>5

\* Equal hashes at a height mean equal chains below: an ancestor's chain is
\* the chain it is on.
LEMMA ChainBelow ==
  ASSUME NEW a \in Blocks, NEW k \in Heights, Chain[a][k] # NoBlock
  PROVE  /\ Chain[a][k] \in Blocks
         /\ Height[Chain[a][k]] = k
         /\ \A h \in Heights : h <= k => Chain[Chain[a][k]][h] = Chain[a][h]
<1> DEFINE b == Chain[a][k]
<1>1. b \in Blocks
  BY ChainAssumption
<1>2. k <= Height[a]
  BY ChainAssumption DEF Heights
<1>3. Height[b] = k
  BY <1>2, ChainAssumption
<1>4. Chain[b][k] = b
  BY <1>1, <1>3, ChainAssumption
<1>5. \A h \in 0 .. k : Chain[b][h] = Chain[a][h]
  BY <1>1, <1>4, ChainAssumption
<1> QED  BY <1>1, <1>3, <1>5 DEF Heights

\* A window of the highest rows is closed upwards, and holds the highest row.
LEMMA WindowOfRows ==
  ASSUME NEW S, S \subseteq Heights, NEW n \in Nat
  PROVE  /\ Top(S, n) \subseteq S
         /\ \A h \in Top(S, n) : \A k \in S : h <= k => k \in Top(S, n)
         /\ n >= 1 => \A x \in S : (\A y \in S : y <= x) => x \in Top(S, n)
<1> DEFINE Above(h) == {k \in S : k > h}
<1>1. ASSUME NEW h \in S
      PROVE  IsFiniteSet(Above(h)) /\ Cardinality(Above(h)) \in Nat
  <2>1. IsFiniteSet(0 .. MaxHeight)
    BY FS_Interval, ChainAssumption
  <2>2. Above(h) \in SUBSET (0 .. MaxHeight)
    BY DEF Heights
  <2> QED  BY <2>1, <2>2, FS_Subset, FS_CardinalityType
<1>2. ASSUME NEW h \in Top(S, n), NEW k \in S, h <= k  PROVE k \in Top(S, n)
  <2>1. h \in S /\ Cardinality(Above(h)) < n
    BY DEF Top
  <2>2. Above(k) \in SUBSET Above(h)
    <3>1. h \in Nat /\ k \in Nat /\ \A m \in S : m \in Nat
      BY <2>1, ChainAssumption DEF Heights
    <3>2. ASSUME NEW m \in S, m > k  PROVE m > h
      BY <1>2, <3>1, <3>2
    <3> QED  BY <3>2
  <2>3. Cardinality(Above(k)) <= Cardinality(Above(h))
    BY <1>1, <2>1, <2>2, FS_Subset
  <2>4. Cardinality(Above(k)) < n
    BY <1>1, <2>1, <2>3
  <2> QED  BY <2>4 DEF Top
<1>3. ASSUME n >= 1, NEW x \in S, \A y \in S : y <= x  PROVE x \in Top(S, n)
  <2>1. Above(x) = {}
    <3>1. ASSUME NEW m \in S  PROVE ~(m > x)
      BY <1>3, ChainAssumption DEF Heights
    <3> QED  BY <3>1
  <2>2. Cardinality(Above(x)) = 0
    BY <2>1, FS_EmptySet
  <2> QED  BY <1>3, <2>2 DEF Top
<1>4. Top(S, n) \subseteq S
  BY DEF Top
<1> QED  BY <1>2, <1>3, <1>4

-----------------------------------------------------------------------------
(* detect_fork over a chain that stands still *)

\* The window that a scan compares: stored rows from the highest down.
Window == Top(DOMAIN Local, depth)

\* Equal at a height, equal at every stored height below.
LEMMA BelowCanonical ==
  ASSUME TypeOK, Linked, NEW k \in Rows, block[k] = NodeBlock(k), NEW h \in Rows, h <= k
  PROVE  block[h] = NodeBlock(h)
<1>1. h \in Heights /\ k \in Heights /\ tip \in Blocks /\ Chain[tip][k] # NoBlock
  BY DEF Rows, NodeBlock, TypeOK
<1>2. Chain[Chain[tip][k]][h] = Chain[tip][h]
  BY <1>1, ChainBelow
<1> QED  BY <1>2 DEF Linked, NodeBlock

\* Blocks that are all on the chain of t are on one chain.
LEMMA CanonicalLinked ==
  ASSUME NEW t \in Blocks, NEW f \in [Heights -> MaybeBlock],
         \A h \in Heights : f[h] \in {NoBlock, Chain[t][h]},
         NEW k \in Heights, NEW h \in Heights, f[k] # NoBlock, f[h] # NoBlock, h <= k
  PROVE  f[h] = Chain[f[k]][h]
<1>1. f[k] = Chain[t][k] /\ f[h] = Chain[t][h]
  OBVIOUS
<1> QED  BY <1>1, ChainBelow

\* The window consists of the highest rows and holds the highest of them.
LEMMA ScanWindow ==
  ASSUME TypeOK
  PROVE  /\ Rows \subseteq Heights
         /\ Window \subseteq Rows
         /\ \A h \in Window : Local[h] = block[h]
         /\ \A h \in Window : \A k \in Rows : h <= k => k \in Window
         /\ depth >= 1 => \A x \in Rows : (\A y \in Rows : y <= x) => x \in Window
<1>1. Rows \subseteq Heights
  BY DEF Rows
<1>2. DOMAIN Local = Top(Rows, ScanCap) /\ \A h \in DOMAIN Local : Local[h] = block[h]
  BY DEF Local
<1>3. ScanCap \in Nat /\ ScanCap >= 1 /\ depth \in Nat
  BY ConfigAssumption DEF TypeOK
<1>4. /\ Top(Rows, ScanCap) \subseteq Rows
      /\ \A h \in Top(Rows, ScanCap) : \A k \in Rows : h <= k => k \in Top(Rows, ScanCap)
      /\ \A x \in Rows : (\A y \in Rows : y <= x) => x \in Top(Rows, ScanCap)
  BY <1>1, <1>3, WindowOfRows
<1> DEFINE L == DOMAIN Local
<1>5. L \subseteq Heights
  BY <1>1, <1>2, <1>4
<1>6. /\ Top(L, depth) \subseteq L
      /\ \A h \in Top(L, depth) : \A k \in L : h <= k => k \in Top(L, depth)
      /\ depth >= 1 => \A x \in L : (\A y \in L : y <= x) => x \in Top(L, depth)
  BY <1>3, <1>5, WindowOfRows
<1> QED  BY <1>1, <1>2, <1>4, <1>6 DEF Window

\* What a scan with everything fetched knows of a row in its window: it is
\* decisive when it agrees with the node's chain, and only then.
LEMMA WindowFetched ==
  ASSUME TypeOK, ScanOK, pc = "scan", Unfetched = {}, NEW h \in Window
  PROVE  /\ seen[h] = NodeBlock(h) /\ seen[h] # NoBlock
         /\ h \in Decisive(Local, seen, Window, NoBlock) <=> block[h] = NodeBlock(h)
<1>1. h \in Heights /\ h \in Rows /\ Local[h] = block[h]
  BY ScanWindow
<1>2. seen[h] # NoBlock
  BY DEF Unfetched, Window
<1>3. seen[h] = NodeBlock(h)
  BY <1>1, <1>2 DEF ScanOK, OnChain, NodeBlock
<1> QED  BY <1>1, <1>2, <1>3 DEF Decisive

\* Without a reorganisation to report, every stored block is canonical: the
\* highest row agrees with the chain, and with it all that is below.
LEMMA NoReorgVerdict ==
  ASSUME TypeOK, Linked, ScanOK, pc = "scan", Unfetched = {},
         classify_fork(Local, seen, depth, NoBlock).kind \in {"NoReorg", "Inconclusive"}
  PROVE  AllCanonical
<1> DEFINE D == Decisive(Local, seen, Window, NoBlock)
           M == Mismatched(Local, seen, Window, NoBlock)
<1>1. D \subseteq Window
  BY DEF Decisive
<1>2. \A h \in Highest(D) : seen[h] # NoBlock
  BY <1>1, WindowFetched DEF Highest
<1>3. Window = {} \/ M = {}
  BY <1>2 DEF classify_fork, Window, exhausted
<1>4. CASE Rows = {}
  BY <1>4 DEF AllCanonical
<1>5. CASE Rows # {}
  <2>1. PICK m \in Rows : \A y \in Rows : y <= m
    BY <1>5, ScanWindow, HighestOfHeights
  <2>2. m \in Window
    BY <2>1, ScanWindow DEF ScanOK
  <2>3. PICK d \in D : ~(d < m)
    BY <1>3, <2>2 DEF Mismatched
  <2>4. d = m
    <3>1. d \in Rows /\ d <= m
      BY <1>1, <2>1, ScanWindow
    <3> QED  BY <2>3, <3>1, ScanWindow, ChainAssumption DEF Heights
  <2>5. block[m] = NodeBlock(m)
    BY <2>2, <2>4, WindowFetched
  <2> QED  BY <2>1, <2>5, BelowCanonical DEF AllCanonical
<1> QED  BY <1>4, <1>5

\* A scan that must look deeper looks at one block at least.
LEMMA DeeperVerdict ==
  ASSUME TypeOK, ScanOK, pc = "scan",
         classify_fork(Local, seen, depth, NoBlock).kind = "NeedDeeper"
  PROVE  next_scan_depth(depth, Cardinality(DOMAIN Local)) >= 1
<1> DEFINE n == Cardinality(DOMAIN Local)
<1>1. Window # {}
  BY DEF classify_fork, Window
<1>2. DOMAIN Local # {}
  BY <1>1 DEF Window, Top
<1>3. IsFiniteSet(DOMAIN Local)
  <2>1. DOMAIN Local \in SUBSET (0 .. MaxHeight)
    BY DEF Local, Top, Rows, Heights
  <2>2. IsFiniteSet(0 .. MaxHeight)
    BY FS_Interval, ChainAssumption
  <2> QED  BY <2>1, <2>2, FS_Subset
<1>4. n \in Nat /\ n # 0
  BY <1>2, <1>3, FS_EmptySet, FS_CardinalityType
<1>5. depth \in Nat /\ depth >= 1
  BY DEF TypeOK, ScanOK
<1> HIDE DEF n
<1>6. next_scan_depth(depth, n) >= 1
  BY <1>4, <1>5 DEF next_scan_depth, Smaller, Larger
<1> QED  BY <1>6 DEF n

\* The fork that a scan finds separates the rows that have left the node's
\* chain from those that are still on it, as far down as it looked.
LEMMA ForkVerdict ==
  ASSUME TypeOK, Linked, ScanOK, pc = "scan", Unfetched = {},
         classify_fork(Local, seen, depth, NoBlock).kind = "Fork",
         NEW f \in classify_fork(Local, seen, depth, NoBlock).at
  PROVE  \A h \in Rows : IF h >= f THEN block[h] # NodeBlock(h)
                           ELSE block[h] = NodeBlock(h) \/ h \notin Top(Rows, ScanCap)
<1> DEFINE D == Decisive(Local, seen, Window, NoBlock)
           M == Mismatched(Local, seen, Window, NoBlock)
<1>1. f \in M /\ \A m \in M : f <= m
  BY DEF classify_fork, Window, Lowest
<1>2. D \subseteq Window /\ M \subseteq Window /\ Window \subseteq Rows /\ Rows \subseteq Heights
  BY ScanWindow DEF Decisive, Mismatched
<1>3. Highest(D) = {} => Window = Top(Rows, ScanCap)
  BY DEF classify_fork, Window, exhausted, Local
<1>4. \A h \in Rows : h \in Nat
  BY <1>2, ChainAssumption DEF Heights
<1>5. ASSUME NEW h \in M  PROVE block[h] # NodeBlock(h)
  <2>1. h \notin D
    BY <1>2, <1>4 DEF Mismatched
  <2> QED  BY <1>2, <2>1, WindowFetched
<1>6. CASE D = {}
  <2>1. M = Window /\ M = Top(Rows, ScanCap)
    <3>1. Highest(D) = {}
      BY <1>6 DEF Highest
    <3>2. Window = Top(Rows, ScanCap)
      BY <1>3, <3>1
    <3> QED  BY <1>6, <3>2 DEF Mismatched
  <2>2. ASSUME NEW h \in Rows, h >= f  PROVE block[h] # NodeBlock(h)
    <3>1. f \in Window /\ f \in Nat /\ h \in Nat /\ f <= h
      BY <1>1, <1>2, <1>4, <2>1, <2>2
    <3>2. h \in Window
      BY <3>1, ScanWindow
    <3> QED  BY <1>5, <2>1, <3>2
  <2>3. ASSUME NEW h \in Rows, ~(h >= f)  PROVE h \notin Top(Rows, ScanCap)
    <3>1. f \in Nat /\ h \in Nat
      BY <1>1, <1>2, <1>4
    <3> QED  BY <1>1, <2>1, <2>3, <3>1
  <2> QED  BY <2>2, <2>3
<1>7. CASE D # {}
  <2>1. PICK d \in D : \A y \in D : y <= d
    BY <1>2, <1>7, HighestOfHeights
  <2>2. d \in Rows /\ d \in Window /\ block[d] = NodeBlock(d)
    BY <1>2, <2>1, WindowFetched
  <2>3. d < f /\ f \in Rows
    BY <1>1, <1>2 DEF Mismatched
  <2>4. ASSUME NEW h \in Rows, h > d  PROVE h \in M
    <3>1. h \in Window
      BY <1>4, <2>2, <2>4, ScanWindow
    <3>2. \A y \in D : y < h
      BY <1>2, <1>4, <2>1, <2>4
    <3> QED  BY <3>1, <3>2 DEF Mismatched
  <2>5. ASSUME NEW h \in Rows, h >= f  PROVE block[h] # NodeBlock(h)
    <3>1. h > d
      BY <1>4, <2>2, <2>3, <2>5
    <3> QED  BY <1>5, <2>4, <3>1
  <2>6. ASSUME NEW h \in Rows, ~(h >= f)  PROVE block[h] = NodeBlock(h)
    <3>1. h \notin M
      BY <1>1, <1>4, <2>3, <2>6
    <3>2. h <= d
      BY <1>4, <2>2, <2>4, <3>1
    <3> QED  BY <2>2, <3>2, BelowCanonical
  <2> QED  BY <2>5, <2>6
<1> QED  BY <1>6, <1>7

-----------------------------------------------------------------------------
(* One step over a quiet node *)

\* The process is not interrupted, no scan is given up and no range is
\* backfilled; the chain changes only while nothing else does.
LEMMA QuietStep ==
  ASSUME Quiet, TypeOK, TasksOK, TasksCanon, Next
  PROVE  /\ ~Aborted /\ ~ScanRpcFailure /\ ~StartBackfill
         /\ NodeExtend \/ NodeReorg
              => pc \in {"down", "wait"} /\ UNCHANGED <<db, pc, scanVars, rangeVars, procVars>>
<1>1. ~Interrupt /\ ~ScanRpcFailure /\ ~StartBackfill
  BY DEF Quiet, TypeOK, Interrupt, ScanRpcFailure, StartBackfill
<1>2. ASSUME NEW h \in Heights  PROVE ~KeyRefused(h)
  <2>1. task[h].at \in HasTxRow => task[h].blk = task[h].rcpt
    BY DEF TasksCanon, TaskCanon, HasTxRow
  <2>2. MissesKey(h) => task[h].at \in HasTxRow
    BY DEF MissesKey, Referenced, HasTxRow, HasBlockRow
  <2> QED  BY <2>1, <2>2, KeysFit DEF KeysOK, KeyRefused
<1>3. NodeExtend \/ NodeReorg
        => pc \in {"down", "wait"} /\ UNCHANGED <<db, pc, scanVars, rangeVars, procVars>>
  BY DEF NodeExtend, NodeReorg, Quiet
<1> QED  BY <1>1, <1>2, <1>3 DEF Aborted

\* The chain stands still during the other steps.
LEMMA ChainStill ==
  ASSUME TypeOK, TasksOK, Next, ~NodeExtend, ~NodeReorg
  PROVE  tip' = tip
<1> USE DEF node
<1>1. CASE \E h \in Heights : ProcessBlock(h)
  BY <1>1, TaskFrame
<1>2. CASE Aborted
  BY <1>2, AbortedStep
<1>3. CASE ~(\E h \in Heights : ProcessBlock(h)) /\ ~Aborted
  BY <1>3 DEF Next, Step, Aborted, StartFollow, StartBackfill, CtrlC, ScanRpcFailure, ScanFetch, ScanAbsent,
              ScanClassify, Rollback, Wake, RangeEnd, FollowTarget, SpawnChunk, UpdateCheckpoint
<1> QED  BY <1>1, <1>2, <1>3

\* Only process_block and rollback_from_block change rows.
LEMMA RowsStill ==
  ASSUME Next, ~Rollback, ~(\E h \in Heights : ProcessBlock(h))
  PROVE  UNCHANGED <<block, tx, events, traces, failed>>
<1>1. CASE Aborted
  BY <1>1, AbortedStep DEF db
<1>2. CASE ~Aborted
  BY <1>2 DEF db, Next, Step, Aborted, NodeExtend, NodeReorg, StartFollow, StartBackfill, CtrlC, ScanRpcFailure,
       ScanFetch, ScanAbsent, ScanClassify, Wake, RangeEnd, FollowTarget, SpawnChunk, UpdateCheckpoint
<1> QED  BY <1>1, <1>2

\* What is added to the database is on the node's chain: a cycle that finds
\* something to index has found the stored blocks canonical before, and a task
\* inserts the node's block.
LEMMA CanonStep ==
  ASSUME Quiet, TypeOK, TasksOK, HeadOK, IndexedIsCanonical, TasksCanon, Next
  PROVE  IndexedIsCanonical'
<1> SUFFICES ASSUME pc' \in {"chunk", "tasks"}, NEW h \in Heights, block'[h] # NoBlock
             PROVE  block'[h] = Chain[tip'][h]
  BY DEF IndexedIsCanonical, Rows, NodeBlock
<1> USE DEF node, db, scanVars, rangeVars, procVars
<1>1. ~NodeExtend /\ ~NodeReorg /\ tip' = tip
  BY QuietStep, ChainStill
<1>2. CASE pc \in {"chunk", "tasks"} /\ block' = block
  BY <1>1, <1>2 DEF IndexedIsCanonical, Rows, NodeBlock
<1>3. CASE FollowTarget
  <2>1. pc = "head" /\ block' = block
    BY <1>3 DEF FollowTarget
  <2>2. next_target(NodeHead, Confirmations, checkpoint) # NoTarget
    BY <1>3 DEF FollowTarget, EndOfCycle, Wait, ProcessGone
  <2>3. NodeHead \in Heights
    BY ChainAssumption DEF NodeHead, TypeOK
  <2>4. ~(checkpoint > NodeHead)
    <3>1. checkpoint \in Int /\ NodeHead \in Nat /\ Confirmations \in Nat
      BY <2>3, ConfigAssumption, ChainAssumption DEF TypeOK, Heights, NoRow
    <3> QED  BY <2>2, <3>1 DEF next_target, Larger, Monus, NoRow
  <2> QED  BY <1>1, <2>1, <2>4 DEF HeadOK, AllCanonical, Rows, NodeBlock
<1>4. ASSUME NEW k \in Heights, ProcessBlock(k)  PROVE block'[h] = Chain[tip'][h]
  <2>1. pc = "tasks" /\ \A j \in Heights : j # k => block'[j] = block[j]
    BY <1>4, TaskFrame
  <2>2. CASE block'[h] = block[h]
    BY <1>1, <2>1, <2>2 DEF IndexedIsCanonical, Rows, NodeBlock
  <2>3. CASE block'[h] # block[h]
    <3>1. h = k
      BY <2>1, <2>3
    <3>2. InsertBlock(h)
      BY <1>4, <2>3, <3>1 DEF ProcessBlock, AcquirePermit, FetchBlock, FetchReceipts, InsertTransactions,
           InsertEvents, TraceFailedTxs, InsertTraceLogs, InsertFailedTransactions
    <3>3. task[h].at = "block" /\ block'[h] = task[h].blk
      BY <2>3, <3>2 DEF InsertBlock, TaskAt, TypeOK
    <3> QED  BY <1>1, <3>3 DEF TasksCanon, TaskCanon, NodeBlock
  <2> QED  BY <2>2, <2>3
<1> QED
  <2>1. CASE SpawnChunk \/ UpdateCheckpoint \/ CtrlC
    BY <2>1, <1>2 DEF SpawnChunk, AtBoundary, UpdateCheckpoint, CtrlC, ProcessGone
  <2>2. CASE StartFollow \/ ScanFetch \/ ScanAbsent \/ ScanClassify \/ Rollback \/ Wake \/ RangeEnd
    BY <2>2 DEF StartFollow, ScanFetch, ScanAbsent, ScanClassify, Rollback, AfterRollback, Wake, RangeEnd, EndOfCycle,
                Wait, ProcessGone
  <2> QED  BY <2>1, <2>2, <1>1, <1>3, <1>4, QuietStep DEF Next, Step, Aborted

\* The rows stay on one chain: rows are removed, or added to canonical ones.
LEMMA LinkedStep ==
  ASSUME TypeOK, TasksOK, Linked, IndexedIsCanonical', Next
  PROVE  Linked'
<1>1. CASE Rollback
  <2>1. \A h \in Heights : block'[h] \in {NoBlock, block[h]}
    BY <1>1 DEF Rollback
  <2> QED  BY <2>1 DEF Linked, Rows
<1>2. CASE \E h \in Heights : ProcessBlock(h)
  <2>1. pc' = "tasks"
    BY <1>2, TaskFrame
  <2>2. TypeOK'
    BY TypeStep
  <2>3. \A h \in Heights : block'[h] \in {NoBlock, Chain[tip'][h]}
    BY <2>1 DEF IndexedIsCanonical, Rows, NodeBlock
  <2>4. tip' \in Blocks /\ block' \in [Heights -> MaybeBlock]
    BY <2>2 DEF TypeOK
  <2> QED  BY <2>3, <2>4, CanonicalLinked DEF Linked, Rows
<1>3. CASE UNCHANGED block
  BY <1>3 DEF Linked, Rows
<1> QED  BY <1>1, <1>2, <1>3, RowsStill

\* A scan starts at depth 1 with nothing fetched, and fetches the node's blocks.
LEMMA ScanStep ==
  ASSUME Quiet, TypeOK, TasksOK, TasksCanon, ScanOK, Next
  PROVE  ScanOK'
<1> SUFFICES ASSUME pc' = "scan"
             PROVE  depth' >= 1 /\ \A h \in Heights : seen'[h] \in {NoBlock, Chain[tip'][h]}
  BY DEF ScanOK, OnChain
<1> USE DEF node, db, scanVars, rangeVars, procVars
<1>1. ~NodeExtend /\ ~NodeReorg /\ tip' = tip
  BY QuietStep, ChainStill
<1>2. CASE ScanReset
  BY <1>2 DEF ScanReset
<1>3. CASE pc = "scan"
  <2>1. depth >= 1 /\ \A h \in Heights : seen[h] \in {NoBlock, Chain[tip][h]}
    BY <1>3 DEF ScanOK, OnChain
  <2>2. \A h \in Heights : seen'[h] \in {NoBlock, seen[h], Chain[tip][h]}
    BY HashStep DEF NodeBlock
  <2>3. depth' >= 1
    <3>1. CASE depth' = depth
      BY <2>1, <3>1
    <3>2. CASE ScanClassify /\ depth' # depth
      BY <1>3, <3>2, DeeperVerdict DEF ScanClassify
    <3>3. CASE ~ScanClassify
      <4>1. CASE \E h \in Heights : ProcessBlock(h)
        BY <4>1, <1>3, TaskFrame
      <4> QED  BY <1>1, <1>2, <1>3, <2>1, <3>1, <3>3, <4>1, QuietStep DEF Next, Step, Aborted, StartFollow, CtrlC, ProcessGone,
                 ScanFetch, ScanAbsent, Rollback, Wake, RangeEnd, AtBoundary, FollowTarget, SpawnChunk, UpdateCheckpoint
    <3> QED  BY <3>1, <3>2, <3>3
  <2> QED  BY <1>1, <2>1, <2>2, <2>3
<1>4. CASE pc # "scan"
  <2>1. ~(\E h \in Heights : ProcessBlock(h))
    BY TaskFrame
  <2>2. ScanReset
    BY <1>1, <1>4, <2>1, QuietStep DEF Next, Step, Aborted, StartFollow, CtrlC, ProcessGone, ScanFetch, ScanAbsent, ScanClassify,
       Rollback, Wake, RangeEnd, FollowTarget, EndOfCycle, Wait, SpawnChunk, UpdateCheckpoint
  <2> QED  BY <1>2, <2>2
<1> QED  BY <1>3, <1>4

\* A scan that ends without a fork has found the rows canonical, or a stored
\* block that the node's chain is too short to have.
LEMMA HeadStep ==
  ASSUME Quiet, Uninterrupted, TypeOK, TasksOK, TasksCanon, CleanOK, Linked, ScanOK, HeadOK, Next
  PROVE  HeadOK'
<1> SUFFICES ASSUME pc' = "head"
             PROVE  (AllCanonical \/ checkpoint > NodeHead)'
  BY DEF HeadOK
<1> USE DEF node, db, scanVars, rangeVars, procVars
<1>1. ~NodeExtend /\ ~NodeReorg /\ tip' = tip /\ interrupts = 0
  BY QuietStep, ChainStill DEF Uninterrupted
<1>2. ~(\E h \in Heights : ProcessBlock(h))
  BY TaskFrame
<1>3. ScanAbsent \/ ScanClassify \/ CtrlC
  BY <1>1, <1>2, QuietStep DEF Next, Step, Aborted, StartFollow, ScanFetch, Rollback, AfterRollback, Wake, RangeEnd, FollowTarget, EndOfCycle,
     Wait, ProcessGone, SpawnChunk, UpdateCheckpoint
<1>4. UNCHANGED <<tip, block, checkpoint>>
  BY <1>1, <1>3 DEF ScanAbsent, ScanClassify, CtrlC
<1>5. AllCanonical \/ checkpoint > NodeHead
  <2>1. CASE ScanAbsent
    <3>1. PICK h \in Unfetched : pc = "scan" /\ NodeBlock(h) = NoBlock
      BY <2>1 DEF ScanAbsent, Highest
    <3>2. h \in Rows /\ h \in Heights
      BY ScanWindow DEF Unfetched, Window
    <3>3. h <= checkpoint
      BY <1>1, <3>1, <3>2 DEF CleanOK, Rows
    <3>4. h > NodeHead
      BY <3>1, <3>2, ChainAssumption DEF NodeBlock, NodeHead, TypeOK
    <3>5. NodeHead \in Heights
      BY ChainAssumption DEF NodeHead, TypeOK
    <3> QED  BY <3>2, <3>3, <3>4, <3>5 DEF Heights, TypeOK, NoRow
  <2>2. CASE ScanClassify
    <3>1. /\ pc = "scan" /\ Unfetched = {}
          /\ classify_fork(Local, seen, depth, NoBlock).kind \in {"NoReorg", "Inconclusive"}
      BY <2>2 DEF ScanClassify
    <3> QED  BY <3>1, NoReorgVerdict
  <2>3. CASE CtrlC
    BY <2>3 DEF CtrlC, ProcessGone, HeadOK
  <2> QED  BY <1>3, <2>1, <2>2, <2>3
<1> QED  BY <1>4, <1>5 DEF AllCanonical, Rows, NodeBlock, NodeHead

\* What a task adds to the tables leaves the rows of others as they are.
LEMMA TaskAdds ==
  ASSUME TypeOK, TasksOK, NEW h \in Heights, ProcessBlock(h)
  PROVE  /\ events \subseteq events'
         /\ \A b \in Blocks : StoredAs(b) => StoredAs(b)'
<1>1. events \subseteq events'
  BY DEF ProcessBlock, AcquirePermit, FetchBlock, FetchReceipts, InsertBlock, InsertTransactions, InsertEvents,
         TraceFailedTxs, InsertTraceLogs, InsertFailedTransactions, db
<1>2. ASSUME NEW b \in Blocks, StoredAs(b), NEW t \in TxsOf(b)  PROVE tx'[t] = OwnRow(b)
  <2>1. t \in Txs /\ tx[t] = OwnRow(b)
    BY <1>2, TxsAreTxs DEF StoredAs
  <2>2. t \in StoredTxs
    BY <2>1, ChainAssumption DEF StoredTxs, OwnRow, NoTx
  <2> QED  BY <2>1, <2>2, TaskFrame
<1> QED  BY <1>1, <1>2 DEF StoredAs, OwnRow

\* The steps of a task keep TaskCanon of the others.
LEMMA OtherTaskCanon ==
  ASSUME TypeOK, TasksOK, TasksCanon, NEW h \in Heights, ProcessBlock(h), NEW k \in Heights, k # h
  PROVE  TaskCanon(k)'
<1>1. tip' = tip /\ task'[k] = task[k]
  BY TaskFrame DEF node
<1>2. NodeBlock(k)' = NodeBlock(k) /\ (NodeBlock(k) # NoBlock => NodeBlock(k) \in Blocks)
  BY <1>1, ChainAssumption DEF NodeBlock, TypeOK
<1>3. TaskCanon(k)
  BY DEF TasksCanon
<1>4. task[k].at \in {"done"} \cup HasTxRow => StoredAs(NodeBlock(k))'
  <2>1. task[k].at \in {"done"} \cup HasTxRow => NodeBlock(k) \in Blocks /\ StoredAs(NodeBlock(k))
    BY <1>2, <1>3 DEF TaskCanon, HasTxRow
  <2>2. NodeBlock(k) \in Blocks /\ StoredAs(NodeBlock(k)) => StoredAs(NodeBlock(k))'
    BY <1>1, TaskAdds DEF StoredAs, OwnRow, NodeBlock
  <2> QED  BY <2>1, <2>2
<1>5. events \subseteq events'
  BY TaskAdds
<1> QED  BY <1>1, <1>2, <1>3, <1>4, <1>5 DEF TaskCanon

\* A transaction of a block of the chain that is stored already is stored as
\* that block's: the chain has it once.
LEMMA StoredOnce ==
  ASSUME TypeOK, OwnTx, IndexedIsCanonical, pc = "tasks",
         NEW h \in Heights, NodeBlock(h) # NoBlock, NEW t \in TxsOf(NodeBlock(h)), t \in StoredTxs
  PROVE  tx[t] = OwnRow(NodeBlock(h))
<1> DEFINE c == tx[t].body
<1>1. t \in Txs /\ c \in Blocks /\ Height[c] \in Heights
  BY ChainAssumption DEF StoredTxs, TypeOK
<1>2. tx[t] = OwnRow(c) /\ t \in TxsOf(c) /\ block[Height[c]] = c
  BY DEF OwnTx
<1>3. c = NodeBlock(Height[c])
  BY <1>1, <1>2, ChainAssumption DEF IndexedIsCanonical, Rows
<1>4. InChain(t, Height[c]) /\ InChain(t, h)
  BY <1>1, <1>2, <1>3, ChainAssumption DEF InChain
<1>5. Height[c] = h
  BY <1>1, <1>4, InChainOnce DEF ChainHasOnce
<1> QED  BY <1>2, <1>3, <1>5

\* insert_transactions of a task that has one block of the chain stores all of
\* it as that block's.
LEMMA InsertsOwn ==
  ASSUME TypeOK, TasksOK, OwnTx, IndexedIsCanonical, NEW h \in Heights, InsertTransactions(h),
         task[h].blk = NodeBlock(h), task[h].rcpt = NodeBlock(h)
  PROVE  /\ \A t \in NewTxs(h) : tx'[t] = OwnRow(NodeBlock(h))
         /\ \A t \in TxsOf(NodeBlock(h)) : tx'[t] = OwnRow(NodeBlock(h))
<1> DEFINE b == NodeBlock(h)
<1>1. b \in Blocks /\ b # NoBlock /\ pc = "tasks"
  <2>1. pc = "tasks"
    BY DEF InsertTransactions, TaskAt
  <2>2. task[h].blk \in Blocks
    BY TransactionsStored DEF InsertTransactions
  <2> QED  BY <2>1, <2>2, ChainAssumption
<1>2. \A t \in NewTxs(h) : tx'[t] = OwnRow(b)
  BY TransactionsStored DEF OwnRow, InsertTransactions
<1>3. TxsOf(b) \subseteq NewTxs(h) \cup StoredTxs
  BY DEF TxsOf, NewTxs
<1>4. ProcessBlock(h)
  BY DEF ProcessBlock
<1>5. \A t \in TxsOf(b) \cap StoredTxs : tx'[t] = OwnRow(b)
  BY <1>1, <1>4, StoredOnce, TaskFrame
<1> QED  BY <1>2, <1>3, <1>5

\* ... and its own: the receipts and the block it stores are the node's.
LEMMA OwnTaskCanon ==
  ASSUME TypeOK, TasksOK, TasksCanon, OwnTx, IndexedIsCanonical, NEW h \in Heights, ProcessBlock(h)
  PROVE  TaskCanon(h)'
<1> USE DEF HasBlockRow, HasTxRow
<1> DEFINE b == NodeBlock(h)
<1>1. tip' = tip /\ b' = b
  BY TaskFrame DEF node, NodeBlock
<1>2. TaskCanon(h) /\ (b # NoBlock => b \in Blocks)
  BY ChainAssumption DEF TasksCanon, NodeBlock, TypeOK
<1>3. CASE AcquirePermit(h)
  BY <1>3 DEF AcquirePermit, TaskAt, TypeOK, TaskCanon
<1>4. CASE FetchBlock(h)
  <2>1. /\ b # NoBlock /\ task'[h].blk = b /\ task'[h].rcpt = task[h].rcpt
        /\ \/ task'[h].at = "fetchReceipts"
           \/ task'[h].at = "block" /\ task[h].at = "fetchBlock"
    BY <1>4 DEF FetchBlock, TypeOK
  <2> QED  BY <1>1, <1>2, <2>1 DEF TaskCanon
<1>5. CASE FetchReceipts(h)
  <2>1. /\ task'[h].rcpt = b /\ task'[h].blk = task[h].blk
        /\ \/ task'[h].at = "fetchBlock"
           \/ task'[h].at = "block" /\ task[h].at = "fetchReceipts"
    BY <1>5 DEF FetchReceipts, TypeOK
  <2>2. task[h].at = "fetchReceipts" => b # NoBlock
    BY <1>2 DEF TaskCanon, TasksOK
  <2> QED  BY <1>1, <1>2, <2>1, <2>2 DEF TaskCanon
<1>6. CASE InsertBlock(h)
  <2>1. task[h].at = "block" /\ b # NoBlock /\ task[h].blk = b /\ task[h].rcpt = b
    BY <1>2, <1>6 DEF InsertBlock, TaskAt, TaskCanon
  <2>2. task'[h].at = "tx" /\ task'[h].blk = b /\ task'[h].rcpt = b
    BY <1>6, <2>1 DEF InsertBlock, TaskAt, TypeOK
  <2> QED  BY <1>1, <2>1, <2>2 DEF TaskCanon
<1>7. CASE InsertTransactions(h)
  <2>1. task[h].at = "tx" /\ b # NoBlock /\ task[h].blk = b /\ task[h].rcpt = b
    BY <1>2, <1>7 DEF InsertTransactions, TaskAt, TaskCanon
  <2>2. task'[h].at = "events" /\ task'[h].blk = b /\ task'[h].rcpt = b
    BY <1>7, <2>1 DEF InsertTransactions, TaskAt, TypeOK
  <2>3. StoredAs(b)'
    BY <1>1, <1>7, <2>1, InsertsOwn DEF StoredAs, OwnRow
  <2> QED  BY <1>1, <2>1, <2>2, <2>3 DEF TaskCanon
<1>8. CASE InsertEvents(h)
  <2>1. task[h].at = "events" /\ b # NoBlock /\ task[h].blk = b /\ task[h].rcpt = b /\ StoredAs(b)
    BY <1>2, <1>8 DEF InsertEvents, TaskAt, TaskCanon
  <2>2. task'[h].at = "trace" /\ task'[h].blk = b /\ task'[h].rcpt = b /\ tx' = tx /\ Emitting(b) \subseteq events'
    BY <1>8, <2>1 DEF InsertEvents, TaskAt, TypeOK
  <2>3. StoredAs(b)'
    BY <1>1, <2>1, <2>2 DEF StoredAs, OwnRow
  <2> QED  BY <1>1, <2>1, <2>2, <2>3 DEF TaskCanon
<1>9. CASE TraceFailedTxs(h) \/ InsertTraceLogs(h) \/ InsertFailedTransactions(h)
  <2>1. /\ task[h].at \in {"trace", "traceLogs", "failedTx"}
        /\ task'[h].at \in {"traceLogs", "failedTx", "done"}
        /\ task'[h].blk = task[h].blk /\ task'[h].rcpt = task[h].rcpt
        /\ tx' = tx /\ events' = events
    <3>1. CASE TraceFailedTxs(h)
      BY <3>1 DEF TraceFailedTxs, TypeOK, db
    <3>2. CASE InsertTraceLogs(h) \/ InsertFailedTransactions(h)
      BY <3>2 DEF InsertTraceLogs, InsertFailedTransactions, TaskAt, TypeOK
    <3> QED  BY <1>9, <3>1, <3>2
  <2>2. b # NoBlock /\ task[h].blk = b /\ task[h].rcpt = b /\ StoredAs(b) /\ Emitting(b) \subseteq events
    BY <1>2, <2>1 DEF TaskCanon
  <2>3. StoredAs(b)'
    BY <1>1, <2>1, <2>2 DEF StoredAs, OwnRow
  <2> QED  BY <1>1, <2>1, <2>2, <2>3 DEF TaskCanon
<1> QED  BY <1>3, <1>4, <1>5, <1>6, <1>7, <1>8, <1>9 DEF ProcessBlock

\* Every step keeps TaskCanon of every task: the chain stands still while
\* there are tasks.
LEMMA TasksCanonStep ==
  ASSUME Quiet, TypeOK, TasksOK, TasksCanon, OwnTx, IndexedIsCanonical, Next
  PROVE  TasksCanon'
<1> USE DEF HasBlockRow, HasTxRow
<1>1. ASSUME NEW h \in Heights, ProcessBlock(h)  PROVE TasksCanon'
  <2>1. ASSUME NEW k \in Heights  PROVE TaskCanon(k)'
    BY <1>1, OtherTaskCanon, OwnTaskCanon
  <2> QED  BY <2>1 DEF TasksCanon
<1>2. CASE pc' # "tasks"
  <2>1. task' = NoTasks
    BY <1>2, TasksStep DEF TasksOK
  <2>2. \A h \in Heights : task'[h].at = "idle"
    BY <2>1 DEF NoTasks, IdleTask
  <2> QED  BY <2>2 DEF TasksCanon, TaskCanon
<1>3. CASE SpawnChunk
  <2>1. \A h \in Heights : task'[h].at \in {"idle", "queued"}
    BY <1>3 DEF SpawnChunk, IdleTask
  <2> QED  BY <2>1 DEF TasksCanon, TaskCanon
<1>4. CASE CtrlC /\ pc' = "tasks"
  <2>1. UNCHANGED <<tip, task, tx, events>>
    BY <1>4 DEF CtrlC, ProcessGone, node, db, rangeVars
  <2> QED  BY <2>1 DEF TasksCanon, TaskCanon, NodeBlock, StoredAs, OwnRow
<1> QED
  <2>1. CASE NodeExtend \/ NodeReorg
    BY <2>1, <1>2, QuietStep
  <2>2. CASE StartFollow \/ ScanFetch \/ ScanAbsent \/ ScanClassify \/ Rollback \/ Wake \/ RangeEnd
             \/ FollowTarget \/ UpdateCheckpoint
    BY <2>2, <1>2 DEF StartFollow, ScanFetch, ScanAbsent, ScanClassify, Rollback, AfterRollback, Wake, RangeEnd,
                      FollowTarget, EndOfCycle, Wait, ProcessGone, UpdateCheckpoint
  <2> QED  BY <2>1, <2>2, <1>1, <1>2, <1>3, <1>4, QuietStep DEF Next, Step, Aborted

\* What OwnTx says of one transaction.
Own(t) ==
  LET b == tx[t].body IN
    /\ tx[t] = OwnRow(b) /\ t \in TxsOf(b) /\ block[Height[b]] = b
    /\ t \in events => t \in Emitting(b)
    /\ t \in failed => t \in Reverting(b)

\* A task that stores rows of a transaction stores those of the block that the
\* transaction is stored with.
LEMMA OwnTxTask ==
  ASSUME TypeOK, TasksOK, IndexedIsCanonical, TasksCanon, ReferencesHold, OwnTx,
         NEW h \in Heights, ProcessBlock(h), NEW t \in StoredTxs'
  PROVE  Own(t)'
<1>1. /\ pc = "tasks" /\ t \in Txs
      /\ \A k \in Heights : block[k] # NoBlock => block'[k] = block[k]
      /\ t \in StoredTxs => tx'[t] = tx[t]
  BY TaskFrame DEF StoredTxs
<1> DEFINE b == NodeBlock(h)
<1>2. task[h].at \in HasBlockRow => /\ b \in Blocks /\ task[h].blk = b /\ task[h].rcpt = b
                                    /\ Height[b] = h /\ block[h] = b
  <2> SUFFICES ASSUME task[h].at \in HasBlockRow  PROVE b \in Blocks /\ task[h].blk = b /\ task[h].rcpt = b
                                                        /\ Height[b] = h /\ block[h] = b
    OBVIOUS
  <2>1. b # NoBlock /\ task[h].blk = b /\ task[h].rcpt = b
    BY DEF TasksCanon, TaskCanon
  <2>2. b \in Blocks /\ Height[b] = h
    BY <2>1, NodeHeight, ChainAssumption DEF NodeBlock, TypeOK
  <2>3. block[h] # NoBlock
    BY DEF TasksOK, HasBlockRow, Stored
  <2> QED  BY <1>1, <2>1, <2>2, <2>3 DEF IndexedIsCanonical, Rows
<1>3. task[h].at \in HasTxRow => StoredAs(b)
  BY DEF TasksCanon, TaskCanon
<1>4. CASE InsertTransactions(h)
  <2>1. task[h].at \in HasBlockRow /\ UNCHANGED <<block, events>>
        /\ failed' \subseteq failed \cup (NewTxs(h) \cap Reverts[task[h].rcpt])
    BY <1>4 DEF InsertTransactions, TaskAt, HasBlockRow
  <2>2. StoredTxs' = StoredTxs \cup NewTxs(h) /\ NewTxs(h) \cap StoredTxs = {} /\ NewTxs(h) \subseteq TxsOf(b)
    BY <1>2, <1>4, <2>1, TransactionsStored DEF InsertTransactions
  <2>3. CASE t \in NewTxs(h)
    <3>1. tx'[t] = OwnRow(b)
      BY <1>2, <1>4, <2>1, <2>3, InsertsOwn
    <3>2. t \notin events /\ t \notin failed
      BY <2>2, <2>3 DEF ReferencesHold
    <3>3. t \in TxsOf(b) /\ (t \in failed' => t \in Reverting(b)) /\ t \notin events'
      BY <1>2, <2>1, <2>2, <2>3, <3>2 DEF Reverting
    <3> QED  BY <1>2, <2>1, <3>1, <3>3 DEF Own, OwnRow
  <2>4. CASE t \in StoredTxs
    <3>1. t \in failed' => t \in failed
      BY <2>1, <2>2, <2>4
    <3> QED  BY <1>1, <2>1, <2>4, <3>1 DEF OwnTx, Own, OwnRow
  <2> QED  BY <2>2, <2>3, <2>4
<1>5. CASE ~InsertTransactions(h)
  <2>1. tx' = tx /\ StoredTxs' = StoredTxs /\ t \in StoredTxs
    BY <1>5 DEF ProcessBlock, AcquirePermit, FetchBlock, FetchReceipts, InsertBlock, InsertEvents,
         TraceFailedTxs, InsertTraceLogs, InsertFailedTransactions, db, StoredTxs
  <2> DEFINE c == tx[t].body
  <2>2. /\ tx[t] = OwnRow(c) /\ t \in TxsOf(c) /\ block[Height[c]] = c
        /\ t \in events => t \in Emitting(c)
        /\ t \in failed => t \in Reverting(c)
    BY <2>1 DEF OwnTx
  <2>3. c \in Blocks /\ Height[c] \in Heights /\ c # NoBlock
    BY <2>1, ChainAssumption DEF StoredTxs, TypeOK
  <2>4. block'[Height[c]] = c
    BY <1>1, <2>2, <2>3
  <2>5. t \in events' => t \in Emitting(c)
    <3>1. CASE events' = events
      BY <2>2, <3>1
    <3>2. CASE InsertEvents(h)
      <4>1. task[h].at = "events" /\ events' = events \cup Emitting(task[h].rcpt)
        BY <3>2 DEF InsertEvents, TaskAt
      <4>2. t \in Emitting(b) => c = b
        BY <1>2, <1>3, <4>1 DEF HasTxRow, HasBlockRow, StoredAs, Emitting, OwnRow
      <4> QED  BY <1>2, <2>2, <4>1, <4>2 DEF HasBlockRow
    <3> QED  BY <1>5, <3>1, <3>2 DEF ProcessBlock, AcquirePermit, FetchBlock, FetchReceipts, InsertBlock,
                TraceFailedTxs, InsertTraceLogs, InsertFailedTransactions, db
  <2>6. t \in failed' => t \in Reverting(c)
    <3>1. CASE failed' = failed
      BY <2>2, <3>1
    <3>2. CASE InsertFailedTransactions(h)
      <4>1. task[h].at = "failedTx" /\ failed' = failed \cup task[h].traced
        BY <3>2 DEF InsertFailedTransactions, TaskAt
      <4>2. task[h].traced \subseteq Reverting(b)
        BY <1>2, <4>1 DEF TasksOK, HasBlockRow
      <4>3. t \in Reverting(b) => c = b
        BY <1>3, <4>1 DEF HasTxRow, HasBlockRow, StoredAs, Reverting, OwnRow
      <4> QED  BY <2>2, <4>1, <4>2, <4>3
    <3> QED  BY <1>5, <3>1, <3>2 DEF ProcessBlock, AcquirePermit, FetchBlock, FetchReceipts, InsertBlock,
                InsertEvents, TraceFailedTxs, InsertTraceLogs, db
  <2> QED  BY <2>1, <2>2, <2>4, <2>5, <2>6 DEF Own, OwnRow
<1> QED  BY <1>4, <1>5

\* A transaction is stored by the task of its block, with the body of that
\* block, and leaves the database together with the block.
LEMMA OwnTxStep ==
  ASSUME TypeOK, TasksOK, IndexedIsCanonical, TasksCanon, ReferencesHold, OwnTx, Next
  PROVE  OwnTx'
<1> SUFFICES ASSUME NEW t \in StoredTxs'  PROVE Own(t)'
  BY DEF OwnTx, Own, OwnRow
<1>1. CASE Rollback
  <2>1. t \in StoredTxs /\ ~Gone(t) /\ tx'[t] = tx[t]
    BY <1>1 DEF Rollback, TxKept, StoredTxs, Gone
  <2> DEFINE c == tx[t].body
  <2>2. ~(Height[c] >= fork) /\ Height[c] \in Heights
    BY <2>1, ChainAssumption DEF Gone, StoredTxs, TypeOK
  <2>3. Own(t)
    BY <2>1 DEF OwnTx, Own
  <2>4. block'[Height[c]] = block[Height[c]] /\ events' \subseteq events /\ failed' \subseteq failed
    BY <1>1, <2>2 DEF Rollback
  <2> QED  BY <2>1, <2>3, <2>4 DEF Own, OwnRow
<1>2. ASSUME NEW h \in Heights, ProcessBlock(h)  PROVE Own(t)'
  BY <1>2, OwnTxTask
<1>3. CASE UNCHANGED <<block, tx, events, failed>>
  BY <1>3 DEF OwnTx, Own, OwnRow, StoredTxs
<1> QED  BY <1>1, <1>2, <1>3, RowsStill

\* The checkpoint moves over a block when its task is done, and a rollback
\* takes a block's rows together or leaves them together.
LEMMA CompleteStep ==
  ASSUME Quiet, Uninterrupted, TypeOK, TasksOK, RangeOK, ForkOK, CleanOK, CheckpointCovered,
         Linked, IndexedIsCanonical, TasksCanon, Complete, Next
  PROVE  Complete'
<1> USE DEF node, db, scanVars, rangeVars, procVars
<1>1. interrupts = 0
  BY DEF Uninterrupted
<1>2. /\ base \in Heights /\ checkpoint \in Heights \cup {NoRow}
      /\ Heights = 0 .. MaxHeight /\ MaxHeight \in Nat /\ NoRow = -1
  BY ChainAssumption DEF TypeOK, Heights, NoRow
<1>3. AllCovered
  BY <1>1 DEF CheckpointCovered, AllCovered
<1>4. CASE UNCHANGED <<block, tx, events, checkpoint, base>>
  BY <1>4 DEF Complete, StoredAs, OwnRow
<1>5. CASE Rollback
  <2>1. checkpoint' = fork - 1 /\ fork <= checkpoint /\ checkpoint # NoRow /\ fork \in Heights /\ base' = base
    BY <1>1, <1>5, CleanFork DEF Rollback, TypeOK
  <2> SUFFICES ASSUME NEW h \in base .. (fork - 1), block'[h] # NoBlock
               PROVE  StoredAs(block[h])' /\ Emitting(block[h]) \subseteq events' /\ block'[h] = block[h]
    BY <2>1 DEF Complete, StoredAs, OwnRow
  <2>2. h \in Heights /\ h \in base .. checkpoint /\ ~(h >= fork)
    BY <1>2, <2>1
  <2>3. block'[h] = block[h]
    BY <1>5, <2>2 DEF Rollback
  <2> DEFINE b == block[h]
  <2>4. StoredAs(b) /\ Emitting(b) \subseteq events /\ b \in Blocks
    BY <2>2, <2>3 DEF Complete, TypeOK, MaybeBlock
  <2>5. Height[b] = h
    <3>1. b = Chain[b][h]
      BY <1>2, <2>2, <2>3 DEF Linked, Rows
    <3> QED  BY <2>2, <2>3, <2>4, <3>1, ChainBelow
  <2>6. \A t \in TxsOf(b) : tx[t] = OwnRow(b) /\ ~Gone(t)
    BY <2>2, <2>4, <2>5 DEF Gone, StoredAs, OwnRow
  <2>7. \A t \in TxsOf(b) : tx'[t] = OwnRow(b)
    BY <1>5, <2>4, <2>6, TxsAreTxs DEF Rollback, TxKept
  <2>8. Emitting(b) \subseteq events'
    BY <1>5, <2>4, <2>6 DEF Rollback, Emitting
  <2>9. \A t \in TxsOf(b') : tx'[t] = OwnRow(b)
    BY <2>3, <2>7
  <2> QED  BY <2>3, <2>8, <2>9 DEF StoredAs, OwnRow
<1>6. CASE UpdateCheckpoint
  <2>1. /\ pc = "tasks" /\ checkpoint' = ChunkEnd /\ UNCHANGED <<base, block, tx, events>>
        /\ \A h \in ChunkHeights : task[h].at = "done"
    BY <1>6 DEF UpdateCheckpoint, AllJoined
  <2>2. ChunkEnd \in Heights /\ next <= ChunkEnd /\ next \in Nat
    BY <2>1, ChunkAbove DEF TypeOK
  <2>3. ASSUME NEW h \in base .. ChunkEnd, block[h] # NoBlock
        PROVE  StoredAs(block[h]) /\ Emitting(block[h]) \subseteq events
    <3>1. h \in Heights
      BY <1>2, <2>2
    <3>2. CASE h >= next
      <4>1. task[h].at = "done"
        BY <3>1, <3>2, <2>1, <2>2, <1>2 DEF ChunkHeights
      <4>2. block[h] = NodeBlock(h)
        BY <2>1, <2>3, <3>1 DEF IndexedIsCanonical, Rows
      <4> QED  BY <3>1, <4>1, <4>2 DEF TasksCanon, TaskCanon
    <3>3. CASE h < next
      <4>1. checkpoint # NoRow /\ next = checkpoint + 1
        BY <3>1, <3>3, <2>1, <2>2, <1>2 DEF RangeOK
      <4>2. h \in base .. checkpoint
        BY <3>1, <3>3, <4>1, <1>2
      <4> QED  BY <2>3, <4>2 DEF Complete
    <3> QED  BY <3>1, <3>2, <3>3, <2>2, <1>2
  <2>4. ASSUME NEW h \in base' .. checkpoint', block'[h] # NoBlock
        PROVE  StoredAs(block[h])' /\ (Emitting(block[h]) \subseteq events)'
    <3>1. StoredAs(block[h]) /\ Emitting(block[h]) \subseteq events
      BY <2>1, <2>3, <2>4
    <3>2. \A t \in TxsOf(block[h]) : tx'[t] = OwnRow(block[h])
      BY <2>1, <3>1 DEF StoredAs
    <3>3. Emitting(block'[h]) \subseteq events'
      BY <2>1, <3>1
    <3> QED  BY <2>1, <3>2, <3>3 DEF StoredAs
  <2> QED  BY <2>4 DEF Complete
<1>7. CASE /\ UNCHANGED <<block, tx, events, checkpoint>>
           /\ base' \in Heights /\ (base' = base \/ base' > checkpoint)
  <2>1. ASSUME NEW h \in base' .. checkpoint', block'[h] # NoBlock
        PROVE  StoredAs(block[h])' /\ (Emitting(block[h]) \subseteq events)'
    <3>1. checkpoint' = checkpoint /\ base' = base
      BY <1>2, <1>7
    <3>2. StoredAs(block[h]) /\ Emitting(block[h]) \subseteq events
      BY <1>7, <2>1, <3>1 DEF Complete
    <3> QED  BY <1>7, <3>2 DEF StoredAs
  <2> QED  BY <2>1 DEF Complete
<1>8. ASSUME NEW h \in Heights, ProcessBlock(h)  PROVE Complete'
  <2>1. base' = base /\ checkpoint' = checkpoint
    BY <1>8, TaskFrame
  <2>2. \A k \in Heights : block[k] # NoBlock => block'[k] = block[k]
    BY <1>8, TaskFrame
  <2>3. events \subseteq events' /\ \A b \in Blocks : StoredAs(b) => StoredAs(b)'
    BY <1>8, TaskAdds
  <2>4. ASSUME NEW k \in base .. checkpoint
        PROVE  block'[k] = block[k] /\ StoredAs(block[k])' /\ Emitting(block[k]) \subseteq events'
    <3>1. k \in Heights /\ block[k] # NoBlock
      BY <1>2, <1>3 DEF AllCovered
    <3>2. block[k] \in Blocks /\ StoredAs(block[k]) /\ Emitting(block[k]) \subseteq events
      BY <3>1 DEF Complete, TypeOK, MaybeBlock
    <3>3. block'[k] = block[k]
      BY <2>2, <3>1
    <3> QED  BY <2>3, <3>2, <3>3 DEF StoredAs, OwnRow
  <2> QED  BY <2>1, <2>4 DEF Complete, StoredAs, OwnRow
<1> QED
  <2>1. CASE FollowTarget
    <3>1. CASE next_target(NodeHead, Confirmations, checkpoint) = NoTarget
      BY <2>1, <3>1, <1>4 DEF FollowTarget, EndOfCycle, Wait, ProcessGone
    <3>2. CASE next_target(NodeHead, Confirmations, checkpoint) # NoTarget
      <4>1. NodeHead \in Heights
        BY ChainAssumption DEF NodeHead, TypeOK
      <4>2. base' = base \/ base' > checkpoint
        BY <2>1, <3>2, <4>1, TargetRange DEF FollowTarget, TypeOK, BaseFor
      <4>3. base' \in Heights
        BY TypeStep DEF TypeOK
      <4> QED  BY <2>1, <4>2, <4>3, <1>7 DEF FollowTarget
    <3> QED  BY <3>1, <3>2
  <2>2. CASE NodeExtend \/ NodeReorg \/ StartFollow \/ CtrlC \/ ScanFetch \/ ScanAbsent \/ ScanClassify \/ Wake
             \/ RangeEnd \/ SpawnChunk
    BY <2>2, <1>4 DEF NodeExtend, NodeReorg, StartFollow, CtrlC, ScanFetch, ScanAbsent, ScanClassify, Wake, RangeEnd,
                      SpawnChunk, ProcessGone, EndOfCycle, Wait
  <2> QED  BY <2>1, <2>2, <1>5, <1>6, <1>8, QuietStep DEF Next, Step, Aborted

\* What FramesOK says of one transaction.
Framed(t) ==
  /\ traces[t] <= 1
  /\ traces[t] > 0 => \/ Height[tx[t].body] <= checkpoint
                      \/ task[Height[tx[t].body]].at \in {"failedTx", "done"}

\* A transaction is traced by the task of the block it is stored with, which
\* is above the checkpoint, and loses its frames together with its row.
LEMMA FramesStep ==
  ASSUME Quiet, Uninterrupted, TypeOK, TasksOK, RangeOK, ForkOK, CleanOK, ReferencesHold,
         TasksCanon, FramesOK, Next
  PROVE  FramesOK'
<1> SUFFICES ASSUME NEW t \in Txs  PROVE Framed(t)'
  BY DEF FramesOK, Framed
<1> USE DEF node, db, scanVars, rangeVars, procVars
<1> DEFINE k == Height[tx[t].body]
<1>1. Framed(t) /\ traces[t] \in Nat /\ (traces[t] > 0 => t \in StoredTxs /\ k \in Heights)
  <2>1. traces[t] > 0 => t \in StoredTxs
    BY DEF ReferencesHold
  <2>2. t \in StoredTxs => k \in Heights
    BY ChainAssumption DEF StoredTxs, TypeOK
  <2> QED  BY <2>1, <2>2 DEF FramesOK, Framed, TypeOK
<1>2. CASE UNCHANGED <<tx, traces, checkpoint, task>>
  BY <1>1, <1>2 DEF Framed
<1>3. CASE UNCHANGED <<tx, traces, checkpoint>> /\ pc # "tasks"
  <2>1. \A h \in Heights : task[h].at \notin {"failedTx", "done"}
    BY <1>3 DEF TasksOK, NoTasks, IdleTask
  <2> QED  BY <1>1, <1>3, <2>1 DEF Framed
<1>4. CASE Rollback
  <2>1. traces'[t] = (IF Gone(t) THEN 0 ELSE traces[t]) /\ (~Gone(t) => tx'[t] = tx[t])
    BY <1>4 DEF Rollback, TracesKept, TxKept
  <2>2. checkpoint' = fork - 1 /\ fork \in Heights
    BY <1>4, CleanFork DEF Rollback, TypeOK, Uninterrupted
  <2>3. CASE traces'[t] > 0
    <3>1. ~Gone(t) /\ traces'[t] = traces[t] /\ t \in StoredTxs /\ k \in Heights
      BY <1>1, <2>1, <2>3
    <3>2. k <= checkpoint'
      BY <2>2, <3>1, ChainAssumption DEF Gone, Heights
    <3> QED  BY <1>1, <2>1, <3>1, <3>2 DEF Framed
  <2>4. CASE ~(traces'[t] > 0)
    BY <1>1, <2>1, <2>4 DEF Framed
  <2> QED  BY <2>3, <2>4
<1>5. CASE UpdateCheckpoint
  <2>1. pc = "tasks" /\ checkpoint' = ChunkEnd /\ UNCHANGED <<tx, traces>>
    BY <1>5 DEF UpdateCheckpoint
  <2>2. ASSUME NEW h \in Heights, h <= checkpoint \/ task[h].at \in {"failedTx", "done"}  PROVE h <= ChunkEnd
    <3>1. CASE h <= checkpoint
      BY <3>1, <2>1, ChunkAbove DEF Heights, TypeOK, NoRow
    <3>2. CASE task[h].at \in {"failedTx", "done"}
      BY <3>2, <2>1, ChunkAbove DEF TasksOK
    <3> QED  BY <2>2, <3>1, <3>2
  <2> QED  BY <1>1, <2>1, <2>2 DEF Framed
<1>6. ASSUME NEW h \in Heights, ProcessBlock(h)  PROVE Framed(t)'
  <2>1. checkpoint' = checkpoint /\ \A j \in Heights : j # h => task'[j] = task[j]
    BY <1>6, TaskFrame
  <2>2. t \in StoredTxs => tx'[t] = tx[t]
    BY <1>6, TaskFrame
  <2>3. task[h].at \in {"failedTx", "done"} => task'[h].at \in {"failedTx", "done"}
    <3>1. CASE InsertFailedTransactions(h)
      BY <3>1 DEF InsertFailedTransactions, TaskAt, TypeOK
    <3>2. CASE ~InsertFailedTransactions(h)
      BY <1>6, <3>2 DEF ProcessBlock, AcquirePermit, FetchBlock, FetchReceipts, InsertBlock, InsertTransactions,
           InsertEvents, TraceFailedTxs, InsertTraceLogs, TaskAt
    <3> QED  BY <3>1, <3>2
  <2>4. CASE traces'[t] = traces[t]
    BY <1>1, <2>1, <2>2, <2>3, <2>4 DEF Framed
  <2>5. CASE InsertTraceLogs(h) /\ t \in task[h].traced
    <3>1. /\ pc = "tasks" /\ task[h].at = "traceLogs" /\ task'[h].at = "failedTx" /\ tx' = tx
          /\ traces'[t] = traces[t] + 1
      BY <2>5 DEF InsertTraceLogs, TaskAt, TypeOK
    <3>2. tx[t] = OwnRow(NodeBlock(h)) /\ NodeBlock(h) # NoBlock
      BY <2>5, <3>1 DEF TasksCanon, TaskCanon, TasksOK, HasTxRow, HasBlockRow, StoredAs, Reverting
    <3>3. k = h
      BY <3>2, NodeHeight DEF OwnRow
    <3>4. checkpoint < h
      BY <3>1, ChunkAbove DEF TasksOK
    <3>5. ~(traces[t] > 0)
      BY <1>1, <3>1, <3>3, <3>4 DEF Framed, Heights, TypeOK, NoRow
    <3> QED  BY <1>1, <3>1, <3>3, <3>5 DEF Framed
  <2> QED  BY <1>6, <2>4, <2>5 DEF ProcessBlock, AcquirePermit, FetchBlock, FetchReceipts, InsertBlock,
                InsertTransactions, InsertEvents, TraceFailedTxs, InsertTraceLogs, InsertFailedTransactions
<1> QED
  <2>1. CASE NodeExtend \/ NodeReorg
    BY <2>1, <1>2 DEF NodeExtend, NodeReorg
  <2>2. CASE CtrlC
    BY <2>2, <1>2, <1>3 DEF CtrlC
  <2>3. CASE StartFollow \/ ScanFetch \/ ScanAbsent \/ ScanClassify
             \/ Wake \/ RangeEnd \/ FollowTarget \/ SpawnChunk
    BY <2>3, <1>3 DEF StartFollow, ScanFetch, ScanAbsent, ScanClassify, Wake,
                      RangeEnd, FollowTarget, SpawnChunk, AtBoundary
  <2> QED  BY <2>1, <2>2, <2>3, <1>4, <1>5, <1>6, QuietStep DEF Next, Step, Aborted

\* The fork is computed from a chain that stands still until it is acted on.
LEMMA ForkExactStep ==
  ASSUME Quiet, TypeOK, TasksOK, TasksCanon, Linked, ScanOK, ForkExact, Next
  PROVE  ForkExact'
<1> SUFFICES ASSUME pc' = "rollback"
             PROVE  ForkSeparates'
  BY DEF ForkExact
<1> USE DEF node, db, scanVars, rangeVars, procVars
<1>1. ~NodeExtend /\ ~NodeReorg /\ tip' = tip
  BY QuietStep, ChainStill
<1>2. ~(\E h \in Heights : ProcessBlock(h))
  BY TaskFrame
<1>3. ScanClassify \/ CtrlC
  BY <1>1, <1>2, QuietStep DEF Next, Step, Aborted, StartFollow, ScanFetch, ScanAbsent, Rollback, AfterRollback, Wake, RangeEnd, FollowTarget,
     EndOfCycle, Wait, ProcessGone, SpawnChunk, UpdateCheckpoint
<1>4. CASE ScanClassify
  <2>1. /\ pc = "scan" /\ Unfetched = {} /\ block' = block
        /\ classify_fork(Local, seen, depth, NoBlock).kind = "Fork"
        /\ fork' \in classify_fork(Local, seen, depth, NoBlock).at
    BY <1>4 DEF ScanClassify
  <2>2. \A h \in Rows : IF h >= fork' THEN block[h] # NodeBlock(h)
                          ELSE block[h] = NodeBlock(h) \/ h \notin Top(Rows, ScanCap)
    BY <2>1, ForkVerdict
  <2>3. Rows' = Rows /\ \A h : NodeBlock(h)' = NodeBlock(h)
    BY <1>1, <2>1 DEF Rows, NodeBlock
  <2> QED  BY <2>1, <2>2, <2>3 DEF ForkSeparates
<1>5. CASE CtrlC
  <2>1. UNCHANGED <<tip, block, fork, pc>>
    BY <1>5 DEF CtrlC, ProcessGone
  <2> QED  BY <2>1 DEF ForkExact, ForkSeparates, Rows, NodeBlock
<1> QED  BY <1>3, <1>4, <1>5

-----------------------------------------------------------------------------
(* The theorems *)

\* The database is empty at first ...
LEMMA InitQuiet == Init => QInv /\ ForkExact
<1> SUFFICES ASSUME Init  PROVE QInv /\ ForkExact
  OBVIOUS
<1>1. pc = "down" /\ Rows = {} /\ task = NoTasks
  BY DEF Init, Rows
<1>2. Linked /\ ScanOK /\ HeadOK /\ IndexedIsCanonical /\ ForkExact
  BY <1>1 DEF Linked, ScanOK, HeadOK, IndexedIsCanonical, ForkExact
<1>3. TasksCanon
  BY <1>1 DEF TasksCanon, TaskCanon, NoTasks, IdleTask, HasBlockRow, HasTxRow
<1>4. OwnTx /\ FramesOK /\ Uninterrupted
  BY DEF Init, OwnTx, StoredTxs, FramesOK, Uninterrupted
<1>5. Complete
  <2>1. base .. checkpoint = {}
    BY DEF Init, NoRow
  <2> QED  BY <2>1 DEF Complete
<1> QED  BY <1>2, <1>3, <1>4, <1>5 DEF QInv

\* ... and every step over a quiet node keeps what it holds canonical.
LEMMA StepQuiet ==
  ASSUME Quiet, IInv, QInv, [Next]_vars
  PROVE  QInv'
<1>1. CASE Next
  <2> USE <1>1 DEF IInv, QInv
  <2>1. IndexedIsCanonical'  BY CanonStep
  <2>2. Linked'  BY <2>1, LinkedStep
  <2>3. ScanOK'  BY ScanStep
  <2>4. HeadOK'  BY HeadStep
  <2>5. TasksCanon'  BY TasksCanonStep
  <2>6. OwnTx'  BY OwnTxStep
  <2>7. Complete'  BY CompleteStep
  <2>8. FramesOK'  BY FramesStep
  <2>9. Uninterrupted'  BY QuietStep, CounterStep DEF Uninterrupted
  <2> QED  BY <2>1, <2>2, <2>3, <2>4, <2>5, <2>6, <2>7, <2>8, <2>9
<1>2. CASE UNCHANGED vars
  <2> USE <1>2 DEF vars, node, db, scanVars, rangeVars, procVars, QInv
  <2>1. Linked' /\ HeadOK' /\ IndexedIsCanonical'
    BY DEF Linked, HeadOK, AllCanonical, Rows, NodeBlock, NodeHead, IndexedIsCanonical
  <2>2. ScanOK' /\ Uninterrupted' /\ FramesOK'
    BY DEF ScanOK, OnChain, Uninterrupted, FramesOK
  <2>3. TasksCanon'
    BY DEF TasksCanon, TaskCanon, NodeBlock, StoredAs, OwnRow
  <2>4. OwnTx' /\ Complete'
    BY DEF OwnTx, StoredTxs, Complete, StoredAs, OwnRow
  <2> QED  BY <2>1, <2>2, <2>3, <2>4
<1> QED  BY <1>1, <1>2

\* QInv is an invariant of follow mode over a quiet node.
THEOREM QuietInvariance ==
  ASSUME Quiet
  PROVE  Spec => []QInv
<1>1. IInv /\ QInv /\ [Next]_vars => QInv'
  BY StepQuiet
<1>2. Init => QInv
  BY InitQuiet
<1> QED  BY <1>1, <1>2, Invariance, PTL DEF Spec

\* Over a quiet node, whenever blocks are added, all the stored ones are on
\* the node's chain: detect_fork leaves none behind that has been replaced.
THEOREM StoredIsCanonical ==
  ASSUME Quiet
  PROVE  Spec => []IndexedIsCanonical
<1>1. QInv => IndexedIsCanonical
  BY DEF QInv
<1> QED  BY <1>1, QuietInvariance, PTL

\* Over a quiet node, a block up to the checkpoint has its own transactions and
\* events, and nothing is stored of any transaction but what belongs to the
\* stored block it is in.
THEOREM CheckpointedIsComplete ==
  ASSUME Quiet
  PROVE  Spec => []CheckpointedComplete
<1>1. QInv => CheckpointedComplete
  BY DEF QInv, OwnTx, Complete, StoredAs, CheckpointedComplete
<1> QED  BY <1>1, QuietInvariance, PTL

\* Over a quiet node the frames of a transaction are stored once, however often
\* it is rolled back and included again, at whatever height.
THEOREM FramesStoredOnce ==
  ASSUME Quiet
  PROVE  Spec => []FramesOnce
<1>1. QInv => FramesOnce
  BY DEF QInv, FramesOK, FramesOnce
<1> QED  BY <1>1, QuietInvariance, PTL

\* Over a quiet node a rollback removes no block but those that have left the
\* chain, and all of these that are within the scan cap.
THEOREM RollbackExactness ==
  ASSUME Quiet
  PROVE  Spec => RollbackIsExact
<1> DEFINE A == pc = "rollback" /\ pc' = "scan" => ForkSeparates
<1>1. IInv /\ QInv /\ ForkExact /\ [Next]_vars => ForkExact'
  <2>1. CASE UNCHANGED vars
    BY <2>1 DEF vars, node, db, scanVars, ForkExact, ForkSeparates, Rows, NodeBlock
  <2>2. ASSUME IInv, QInv, ForkExact, Next  PROVE ForkExact'
    BY <2>2, ForkExactStep DEF IInv, QInv
  <2> QED  BY <2>1, <2>2
<1>2. ForkExact => [A]_vars
  BY DEF ForkExact
<1>3. Init => ForkExact
  BY InitQuiet
<1> QED  BY <1>1, <1>2, <1>3, Invariance, QuietInvariance, PTL DEF Spec, RollbackIsExact
=============================================================================
