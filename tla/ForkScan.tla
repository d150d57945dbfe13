------------------------------ MODULE ForkScan ------------------------------
(***************************************************************************)
(* The pure decision functions of the follow loop (crates/indexer/src/     *)
(* worker.rs): which range to index next, how far one cycle may go, and    *)
(* where the locally stored blocks leave the node's chain.                 *)
(*                                                                         *)
(* Heights are natural numbers; u64 saturation is kept where a subtraction *)
(* can reach zero.  `local` is the result of recent_block_hashes, a        *)
(* function from the stored heights to the stored hashes: the query's      *)
(* ORDER BY block_number DESC is the order of the heights themselves.      *)
(***************************************************************************)
EXTENDS Integers, FiniteSets

\* The Option<i64> checkpoint of next_target: no row in indexer_checkpoint.
NoRow == -1

\* next_target's None, as the range that contains no block.
NoTarget == <<1, 0>>

\* u64::saturating_sub
Monus(a, b) == IF a < b THEN 0 ELSE a - b

Larger(a, b) == IF a < b THEN b ELSE a

Smaller(a, b) == IF a < b THEN a ELSE b

\* The singleton of the least element of a set of heights, {} for {}.
Lowest(S) == {x \in S : \A y \in S : x <= y}

Highest(S) == {x \in S : \A y \in S : y <= x}

-----------------------------------------------------------------------------

Bug_next_target(head, confirmations, checkpoint) ==
  LET safe   == Monus(head, confirmations)
      resume == IF checkpoint = NoRow THEN safe ELSE Larger(checkpoint, 0) + 1
  IN  IF resume >= safe THEN NoTarget ELSE <<resume, safe>>

\* The first and the last block the next cycle should index.
next_target(head, confirmations, checkpoint) ==
  LET safe   == Monus(head, confirmations)
      resume == IF checkpoint = NoRow THEN safe ELSE Larger(checkpoint, 0) + 1
  IN  IF resume > safe THEN NoTarget ELSE <<resume, safe>>

\* The part of from..to that one cycle may index.
cap_range_to(from, to, cap_blocks) ==
  IF cap_blocks = 0 \/ to < from \/ to - from + 1 <= cap_blocks
    THEN <<from, to>>
    ELSE <<from, from + cap_blocks - 1>>

\* current.saturating_mul(4).clamp(current + 1, max), forced to max at the end
next_scan_depth(current, max) ==
  IF current >= max THEN max ELSE Smaller(Larger(4 * current, current + 1), max)

-----------------------------------------------------------------------------

\* The first n elements of a set of heights read from the highest down.
Top(rows, n) == {h \in rows : Cardinality({k \in rows : k > h}) < n}

\* Heights of the window at which classify_fork's loop returns: the chain
\* hash is unavailable, or it equals the stored one.
Decisive(local, seen, window, None) ==
  {h \in window : seen[h] = None \/ seen[h] = local[h]}

\* The heights the loop passes over before it returns or runs out: they all
\* differ from the chain.
Mismatched(local, seen, window, None) ==
  {h \in window : \A d \in Decisive(local, seen, window, None) : d < h}

\* The loop ran through the window: widen it, unless it is all there is.
Bug_exhausted(local, window) == "Fork"
exhausted(local, window) == IF window = DOMAIN local THEN "Fork" ELSE "NeedDeeper"

\* The verdict on the top `depth` stored blocks.  "at" holds the fork height
\* of a Fork verdict (last_mismatch, the lowest of the heights passed over).
classify_fork(local, seen, depth, None) ==
  LET window   == Top(DOMAIN local, depth)
      stop     == Highest(Decisive(local, seen, window, None))
      mismatch == Mismatched(local, seen, window, None)
      verdict  ==
        IF window = {} THEN "NoReorg"
        ELSE IF stop = {} THEN exhausted(local, window)
        ELSE IF \E h \in stop : seen[h] = None THEN "Inconclusive"
        ELSE IF mismatch = {} THEN "NoReorg" ELSE "Fork"
  IN  [kind |-> verdict, at |-> IF verdict = "Fork" THEN Lowest(mismatch) ELSE {}]
=============================================================================
