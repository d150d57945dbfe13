SPECIFICATION Spec
CONSTANTS
  Absent = Absent
  t1 = t1
  t2 = t2
  t3 = t3
  NotAHash = NotAHash
  Blocks <- MCBlocks
  Txs <- MCTxs
  Hashes <- MCHashes
  Worlds <- MCWorlds
  Frames <- MCFrames
  Nesting <- MCNesting
  MaxNesting <- MCMaxNesting
  Queries <- MCQueries
  ColumnMax <- MCColumnMax
  U128Max <- MCU128Max
  Word <- MCWord
  MaxFrames = 4
  DefaultLimit = 2
  MaxLimit = 2
  MaxTraceFails = 1
  MaxRestarts = 1
  MaxRollbacks = 1
INVARIANT TypeOK
INVARIANT TreeFaithful
INVARIANT CauseInTree
INVARIANT RetryGoesThrough
INVARIANT TracedIsStored
INVARIANT FramesPrecedeFailure
INVARIANT PagesComplete
CHECK_DEADLOCK FALSE
