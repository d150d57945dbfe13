------------------------------ MODULE FailedTxApi ------------------------------
(***************************************************************************)
(* The failed-transaction endpoints of crates/api (routes/failed_tx.rs)    *)
(* beside the indexer that writes what they read: GET /v1/failed-tx/{hash} *)
(* answers from three queries, GET /v1/failed-tx from two for every page,  *)
(* and rows may come and go between any of them.                           *)
(*                                                                         *)
(* There is one client, which may ask for one answer after the other; the  *)
(* answer stays in req until the next request.                             *)
(***************************************************************************)
EXTENDS FailedTx

\* A definition named BugX is X with a plausible mistake, and used nowhere.

CONSTANTS
  Hashes,        \* what a client may put for {hash}: transactions, or a non-hash
  Txs,           \* well-formed hashes
  Queries,       \* category, from, to, limit of a list request
  MaxFrames,     \* MAX_CALL_TREE_FRAMES
  DefaultLimit,  \* 20
  MaxLimit       \* 100

ASSUME ApiAssumption ==
  /\ \A r \in Receipts : r.tx \in Txs
  /\ \A q \in Queries : q.limit \in Int \cup {Absent}
  /\ MaxFrames \in Nat \ {0} /\ DefaultLimit \in Nat \ {0} /\ MaxLimit \in Nat \ {0}

VARIABLE req     \* the request in progress, or its answer

vars == <<writerVars, req>>

\* Nothing to look at: a 400, a 404, or an answer the tables have moved away
\* from.  req.grown: frames or failures were added since a detail was asked for.
NoAnswer == [kind |-> "none", at |-> "done"]

-----------------------------------------------------------------------------
(* get_failed_tx *)

TreeRows(tx) == Those(trace_log, {l \in ToSet(trace_log) : l.tx = tx})

\* list_trace_logs_by_tx: ORDER BY trace_id LIMIT
list_trace_logs_by_tx(tx, limit) ==
  LET rows == TreeRows(tx) IN [i \in 1 .. Min({limit, Len(rows)}) |-> rows[i].frame]

\* get_first_error_frame: error IS NOT NULL ORDER BY trace_id LIMIT 1
Bug_get_first_error_frame(tx) ==
  LET rows == Those(TreeRows(tx), {l \in ToSet(trace_log) : l.frame.error})
  IN  IF rows = <<>> THEN Absent ELSE Last(rows).frame
get_first_error_frame(tx) ==
  LET rows == Those(TreeRows(tx), {l \in ToSet(trace_log) : l.frame.error})
  IN  IF rows = <<>> THEN Absent ELSE Head(rows).frame

\* is_tx_hash, then get_failed_transaction
GetFailed(h) ==
  /\ req' = IF h \notin Txs THEN NoAnswer
            ELSE IF \A f \in failed : f.tx # h THEN NoAnswer
            ELSE [kind |-> "detail", at |-> "tree", tx |-> h, grown |-> FALSE]
  /\ UNCHANGED writerVars

\* call_tree.truncate
BugShown(rows) == rows
Shown(rows) == SubSeq(rows, 1, Min({MaxFrames, Len(rows)}))

\* One frame more than may be shown is asked for, to see that there are more.
GetTree ==
  /\ req.kind = "detail" /\ req.at = "tree"
  /\ LET rows == list_trace_logs_by_tx(req.tx, MaxFrames + 1)
     IN  req' = [kind |-> "detail", at |-> "cause", tx |-> req.tx, grown |-> req.grown,
                 tree |-> Shown(rows),
                 truncated |-> Len(rows) > MaxFrames]
  /\ UNCHANGED writerVars

GetCause ==
  /\ req.kind = "detail" /\ req.at = "cause"
  /\ req' = [kind |-> "detail", at |-> "done", tx |-> req.tx, grown |-> req.grown, tree |-> req.tree,
             truncated |-> req.truncated, cause |-> get_first_error_frame(req.tx)]
  /\ UNCHANGED writerVars

-----------------------------------------------------------------------------
(* list_failed_tx *)

\* limit.unwrap_or(20).clamp(1, 100)
LimitOf(q) == IF q.limit = Absent THEN DefaultLimit ELSE Min({Max({q.limit, 1}), MaxLimit})

Wanted(q, f) ==
  /\ q.category = Absent \/ f.category = from_str(q.category)
  /\ q.from = Absent \/ f.timestamp >= q.from
  /\ q.to = Absent \/ f.timestamp <= q.to

Matches(q) == {f \in failed : Wanted(q, f)}

\* ORDER BY timestamp DESC: rows of one block in any order, in each query anew
BugOrders(rows) == SetToSeqs(rows)
Orders(rows) == {s \in SetToSeqs(rows) : \A i, j \in DOMAIN s : i < j => s[i].timestamp >= s[j].timestamp}

AskList(q) ==
  /\ req' = IF q.category # Absent /\ ~Parses(q.category) THEN NoAnswer
            ELSE [kind |-> "list", at |-> "rows", q |-> q, offset |-> 0, seen |-> <<>>, total |-> 0]
  /\ UNCHANGED writerVars

\* list_failed_transactions
ListRows ==
  /\ req.kind = "list" /\ req.at = "rows"
  /\ \E s \in Orders(Matches(req.q)) :
       req' = [req EXCEPT !.at = "total",
                 !.seen = @ \o SubSeq(s, req.offset + 1, Min({req.offset + LimitOf(req.q), Len(s)}))]
  /\ UNCHANGED writerVars

\* count_failed_transactions; the client asks for the next page while the
\* total says that there is one.
ListTotal ==
  /\ req.kind = "list" /\ req.at = "total"
  /\ LET total == Cardinality(Matches(req.q))
         next == req.offset + LimitOf(req.q)
     IN  req' = IF next < total THEN [req EXCEPT !.at = "rows", !.total = total, !.offset = next]
                ELSE [req EXCEPT !.at = "done", !.total = total]
  /\ UNCHANGED writerVars

-----------------------------------------------------------------------------

Init == WriterInit /\ req = NoAnswer

\* A client that waits for its answer before it asks again.
Free == req.at = "done"

ApiNext ==
  \/ Free /\ \E h \in Hashes : GetFailed(h)
  \/ Free /\ \E q \in Queries : AskList(q)
  \/ GetTree
  \/ GetCause
  \/ ListRows
  \/ ListTotal

Calm == trace_log' = trace_log /\ failed' = failed
Grown == failed \subseteq failed' /\ IsPrefix(trace_log, trace_log')
Disturb ==
  req' = IF Calm \/ req.kind = "none" THEN req
         ELSE IF req.kind = "detail" /\ req.at # "done" /\ Grown THEN [req EXCEPT !.grown = TRUE]
         ELSE NoAnswer

Next == (WriterNext /\ Disturb) \/ ApiNext

Spec == Init /\ [][Next]_vars

-----------------------------------------------------------------------------
(* Properties *)

FrameRows == [id : Nat, depth : Nat, value : 0 .. U128Max, error : BOOLEAN]

\* Every table holds rows of its type, failed_transaction one for each
\* transaction, and an answer never more than MAX_CALL_TREE_FRAMES frames.
TypeOK ==
  /\ task \in [Blocks -> ToSet(Steps)]
  /\ triggers \in BOOLEAN
  /\ \A s \in stored : s.tx \in Txs /\ s.block \in Blocks
  /\ \A l \in ToSet(trace_log) : l.tx \in Txs /\ l.frame \in FrameRows
  /\ \A f \in failed : f.tx \in Txs /\ f.timestamp \in Blocks /\ f.category \in ErrorCategory
  /\ \A f, g \in failed : f.tx = g.tx => f = g
  /\ (req.kind = "detail" /\ req.at # "tree") => Len(req.tree) <= MaxFrames

\* insert_trace_logs comes before insert_failed_transactions, and a rollback
\* takes both: whoever finds a failure finds the frames of its call tree,
\* unless the row is the stub that the trigger stored with the transaction.
FramesPrecedeFailure ==
  \A f \in failed : (triggers /\ f = Stub(f.tx, f.timestamp)) \/ TreeRows(f.tx) # <<>>

\* Failed transactions of a block whose trace was fetched and could be parsed.
TracedIn(b) == {r \in ToSet(receipts[b]) \cap Parsed : r.tx \notin lost[b]}

\* When a block is done, after whatever attempts and however the blocks above
\* it are rolled back, each failed transaction it got a trace of has frames
\* and a failure: the one that was classified, or the trigger's stub.
TracedIsStored ==
  \A b \in Done : \A r \in TracedIn(b) :
    /\ TreeRows(r.tx) # <<>>
    /\ \E f \in failed : f = FailedRow(b, r) \/ (triggers /\ f = Stub(r.tx, b))

DetailDone == req.kind = "detail" /\ req.at = "done"
DetailAtRest == DetailDone /\ ~req.grown

TraceOf(tx) ==
  (CHOOSE r \in UNION {ToSet(receipts[b]) : b \in Blocks} : r.tx = tx).trace

\* The rows from one root to the next.
Copy(rows, i, j) ==
  /\ \A k \in i .. j : rows[k].depth = 0 <=> k = i
  /\ j = Len(rows) \/ rows[j + 1].depth = 0
Copies(rows) == UNION {{SubSeq(rows, i, j) : j \in {j \in i .. Len(rows) : Copy(rows, i, j)}} : i \in DOMAIN rows}

\* A call tree that is not marked truncated can be rebuilt from order and
\* depth alone (docs/api-failed-tx.md), in every copy that an interrupted
\* attempt may have left; it is marked exactly when frames are missing.
TreeFaithful ==
  DetailAtRest =>
    /\ req.truncated <=> Len(req.tree) < Len(TreeRows(req.tx))
    /\ ~req.truncated =>
         \A rows \in Copies(req.tree) :
           /\ Rebuilt(rows) = Edges[TraceOf(req.tx)]
           /\ \A i \in DOMAIN rows : rows[i].depth = 0 => rows[i].id = TraceOf(req.tx).id

\* root_cause, a query of its own, names the earliest frame of the call tree
\* in the same answer whose error is set, whatever was stored between the two
\* queries; and it is null for a call tree without frames, unless they were
\* stored just then.
CauseInTree ==
  DetailDone =>
    IF req.tree = <<>> THEN ~req.grown => req.cause = Absent
    ELSE \E i \in DOMAIN req.tree :
           /\ req.tree[i] = req.cause
           /\ req.tree[i].error
           /\ \A j \in 1 .. i - 1 : ~req.tree[j].error

\* A client that follows the pages while nothing is written sees as many rows
\* as the total says, and sees every one of them if no two are of one block.
PagesComplete ==
  (req.kind = "list" /\ req.at = "done") =>
    LET rows == Matches(req.q)
    IN  /\ Len(req.seen) = Cardinality(rows)
        /\ (\A f, g \in rows : f.timestamp = g.timestamp => f = g) => ToSet(req.seen) = rows

\* A block no attempt can get through: a number or tick range its column
\* refuses, a NUL in a reason, or a reason whose length wraps around.
Poison(b) ==
  \/ \E i \in DOMAIN EventTables : \E r \in RowsFor(receipts, b, EventTables[i]) : ~Fits(r.row)
  \/ \E r \in ToSet(Traced(b, {})) :
       \/ ReasonOf(r).is = "abort"
       \/ \E l \in ToSet(LogsOf(r)) : ~LogFits(l)
       \/ ~RowFits(FailedRow(b, r))

\* Any other block can be processed again after any interruption: what an
\* earlier attempt left in the tables fails no statement of a later one.
RetryGoesThrough == \A b \in Blocks : Refused(b) => Poison(b)
===============================================================================
