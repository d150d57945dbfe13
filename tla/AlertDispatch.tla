---------------------------- MODULE AlertDispatch ----------------------------
(***************************************************************************)
(* Per-event webhook alerts: dispatcher processes (crates/indexer/src/     *)
(* alerts.rs) that share the tables alert_subscription, failed_transaction *)
(* and alert_delivery (crates/db/src/queries.rs) with the API and the      *)
(* indexer, and POST to receivers that may accept, refuse, or accept       *)
(* without the answer arriving.                                            *)
(*                                                                         *)
(* Time is kept as ages: row[p].age is NOW() - created_at of a ledger row, *)
(* cut off above Stale, and job[w][p].held is how long ago a task claimed. *)
(* A pair <<s, t>> is a subscription and a failed transaction it matches.  *)
(***************************************************************************)
EXTENDS Integers, FiniteSets

\* A definition named BugX is X with a plausible mistake: it is used nowhere,
\* and takes the place of X to see that a property notices.

CONSTANTS
  Workers,      \* dispatcher processes
  Subs,         \* subscriptions
  Txs,          \* failed transactions: tx_hash, as its rank in ORDER BY tx_hash
  Matching,     \* pairs that agree on error_category and to_addr
  Unsafe,       \* subscriptions whose URL or secret the dispatcher rejects
  Dead,         \* subscriptions whose receiver is gone for good
  Stale,        \* CLAIM_STALE_AFTER_SECS
  Hold,         \* longest time between a claim and its recorded result
  Batch,        \* DISPATCH_BATCH
  MaxPosts,     \* MAX_CONCURRENT_POSTS
  MaxAccepted,  \* the history counter is cut off here
  MaxCrashes,   \* bound on dispatcher crashes and on tasks that end in an error
  MaxLost,      \* bound on accepted POSTs whose answer does not arrive
  MaxRejects,   \* bound on refused POSTs
  MaxAdmin      \* bound on API calls and on rollbacks of a failed transaction

Pairs == Subs \X Txs

ASSUME DispatchAssumption ==
  /\ Txs \subseteq Int
  /\ Matching \subseteq Pairs
  /\ Unsafe \subseteq Subs
  /\ Dead \subseteq Subs
  /\ IsFiniteSet(Pairs)
  /\ Stale \in Nat
  /\ Hold \in Nat
  /\ Batch \in Nat
  /\ MaxPosts \in Nat \ {0}
  /\ MaxAccepted \in Nat \ {0}
  /\ MaxCrashes \in Nat
  /\ MaxLost \in Nat
  /\ MaxRejects \in Nat
  /\ MaxAdmin \in Nat

VARIABLES
  sub,       \* alert_subscription.active, or "none" before INSERT and after DELETE
  secret,    \* alert_subscription.signing_secret, as the number of rotations
  failed,    \* the transactions in failed_transaction
  row,       \* alert_delivery
  job,       \* per dispatcher: the batch and the tasks of the current cycle
  accepted,  \* history: POSTs the receiver has processed, per pair
  crashes, lost, rejects, admin  \* how much of each bound is used

bounds == <<crashes, lost, rejects, admin>>
vars == <<sub, secret, failed, row, job, accepted, bounds>>

-----------------------------------------------------------------------------

\* The history counter is cut off so that retries stay finite.
Count(n) == IF n < MaxAccepted THEN n + 1 ELSE n

NoRow == [status |-> "none", age |-> 0]

NoJob == [at |-> "none", held |-> 0, key |-> 0]

\* Points of dispatch_item after the claim.
Claimed == {"post", "ok", "err"}

\* Tasks in the JoinSet.
Spawned(w) == {p \in Pairs : job[w][p].at \in {"claim"} \cup Claimed}

Listed(w) == {p \in Pairs : job[w][p].at = "listed"}

JobAt(w, p, from, to) ==
  /\ job[w][p].at = from
  /\ job' = [job EXCEPT ![w][p] = [@ EXCEPT !.at = to]]

JobDone(w, p) == job' = [job EXCEPT ![w][p] = NoJob]

-----------------------------------------------------------------------------
(* The API and the indexer *)

\* insert_alert_subscription
Subscribe(s) ==
  /\ sub[s] = "none"
  /\ admin < MaxAdmin
  /\ admin' = admin + 1
  /\ sub' = [sub EXCEPT ![s] = "active"]
  /\ UNCHANGED <<secret, failed, row, job, accepted, crashes, lost, rejects>>

\* deactivate_alert_subscription
Deactivate(s) ==
  /\ sub[s] = "active"
  /\ admin < MaxAdmin
  /\ admin' = admin + 1
  /\ sub' = [sub EXCEPT ![s] = "inactive"]
  /\ UNCHANGED <<secret, failed, row, job, accepted, crashes, lost, rejects>>

\* rotate_alert_subscription_secret
Rotate(s) ==
  /\ sub[s] = "active"
  /\ admin < MaxAdmin
  /\ admin' = admin + 1
  /\ secret' = [secret EXCEPT ![s] = @ + 1]
  /\ UNCHANGED <<sub, failed, row, job, accepted, crashes, lost, rejects>>

\* delete_alert_subscription; ON DELETE CASCADE takes the ledger rows along.
\* The BIGSERIAL id is not used again.
Delete(s) ==
  /\ sub[s] \in {"active", "inactive"}
  /\ admin < MaxAdmin
  /\ admin' = admin + 1
  /\ sub' = [sub EXCEPT ![s] = "deleted"]
  /\ row' = [p \in Pairs |-> IF p[1] = s THEN NoRow ELSE row[p]]
  /\ UNCHANGED <<secret, failed, job, accepted, crashes, lost, rejects>>

\* insert_failed_transactions
FailedInserted(t) ==
  /\ t \notin failed
  /\ failed' = failed \cup {t}
  /\ UNCHANGED <<sub, secret, row, job, accepted, bounds>>

\* rollback_from_block takes the transaction away, its ledger rows stay.
FailedRolledBack(t) ==
  /\ t \in failed
  /\ admin < MaxAdmin
  /\ admin' = admin + 1
  /\ failed' = failed \ {t}
  /\ UNCHANGED <<sub, secret, row, job, accepted, crashes, lost, rejects>>

-----------------------------------------------------------------------------
(* dispatch_once *)

\* The anti-join of find_pending_alert_matches.
BugPendingAll == {p \in Matching :
  /\ sub[p[1]] = "active"
  /\ p[2] \in failed
  /\ ~(row[p].status = "claimed" /\ row[p].age < Stale)}
BugPending == {p \in Matching :
  /\ sub[p[1]] = "active"
  /\ p[2] \in failed
  /\ row[p].status \in {"none", "failed"}}
Pending == {p \in Matching :
  /\ sub[p[1]] = "active"
  /\ p[2] \in failed
  /\ row[p].status # "delivered"
  /\ ~(row[p].status = "claimed" /\ row[p].age < Stale)}

\* ORDER BY tx_hash LIMIT batch: rows of equal tx_hash come in any order.
Selections ==
  {S \in SUBSET Pending :
     /\ Cardinality(S) = IF Cardinality(Pending) < Batch THEN Cardinality(Pending) ELSE Batch
     /\ \A p \in S, q \in Pending \ S : p[2] <= q[2]}

\* A new cycle; the URL and the secret are read here.
Find(w) ==
  /\ \A p \in Pairs : job[w][p] = NoJob
  /\ Pending # {}
  /\ \E S \in Selections :
       job' = [job EXCEPT ![w] = [p \in Pairs |->
                 IF p \in S THEN [at |-> "listed", held |-> 0, key |-> secret[p[1]]] ELSE NoJob]]
  /\ UNCHANGED <<sub, secret, failed, row, accepted, bounds>>

\* Prime, or refill after a join: the next item of the iterator.
Spawn(w, p) ==
  /\ Cardinality(Spawned(w)) < MaxPosts
  /\ \A q \in Listed(w) : p[2] <= q[2]
  /\ JobAt(w, p, "listed", "claim")
  /\ UNCHANGED <<sub, secret, failed, row, accepted, bounds>>

\* The WHERE of try_claim_alert_match's upsert, or no row yet.
BugClaimAny(p) == TRUE
BugClaimable(p) == row[p].status \in {"none", "failed", "claimed"}
Claimable(p) ==
  \/ row[p].status \in {"none", "failed"}
  \/ row[p].status = "claimed" /\ row[p].age > Stale

\* try_claim_alert_match returns true.
Claim(w, p) ==
  /\ sub[p[1]] # "deleted"
  /\ Claimable(p)
  /\ JobAt(w, p, "claim", "post")
  /\ row' = [row EXCEPT ![p] = [status |-> "claimed", age |-> 0]]
  /\ UNCHANGED <<sub, secret, failed, accepted, bounds>>

\* It returns false, or fails on the foreign key of a deleted subscription.
ClaimSkipped(w, p) ==
  /\ job[w][p].at = "claim"
  /\ sub[p[1]] = "deleted" \/ ~Claimable(p)
  /\ JobDone(w, p)
  /\ UNCHANGED <<sub, secret, failed, row, accepted, bounds>>

\* webhook_url_is_safe or hex::decode says no: failed without a POST.
UnsafeUrl(w, p) ==
  /\ p[1] \in Unsafe
  /\ JobAt(w, p, "post", "err")
  /\ UNCHANGED <<sub, secret, failed, row, accepted, bounds>>

\* post_signed: the receiver takes it and answers 2xx.
PostAccepted(w, p) ==
  /\ p[1] \notin Unsafe \cup Dead
  /\ JobAt(w, p, "post", "ok")
  /\ accepted' = [accepted EXCEPT ![p] = Count(@)]
  /\ UNCHANGED <<sub, secret, failed, row, bounds>>

\* The receiver takes it, but the answer is lost or late: an error here.
PostLost(w, p) ==
  /\ p[1] \notin Unsafe \cup Dead
  /\ lost < MaxLost
  /\ lost' = lost + 1
  /\ JobAt(w, p, "post", "err")
  /\ accepted' = [accepted EXCEPT ![p] = Count(@)]
  /\ UNCHANGED <<sub, secret, failed, row, crashes, rejects, admin>>

\* No POST to a receiver that is gone ever gets a 2xx.
PostUnanswered(w, p) ==
  /\ p[1] \in Dead \ Unsafe
  /\ JobAt(w, p, "post", "err")
  /\ UNCHANGED <<sub, secret, failed, row, accepted, bounds>>

\* Any other receiver cannot be reached or answers with another status.
PostRejected(w, p) ==
  /\ p[1] \notin Unsafe \cup Dead
  /\ rejects < MaxRejects
  /\ rejects' = rejects + 1
  /\ JobAt(w, p, "post", "err")
  /\ UNCHANGED <<sub, secret, failed, row, accepted, crashes, lost, admin>>

\* let status = if delivered { "delivered" } else { "failed" }
BugOutcome(delivered) == "delivered"
BugOutcomeWord(delivered) == IF delivered THEN "delivered" ELSE "error"
Outcome(delivered) == IF delivered THEN "delivered" ELSE "failed"

\* record_alert_delivery: the upsert, unless the subscription is deleted (the
\* row is gone and an INSERT fails on the foreign key).  created_at is kept;
\* a row inserted here would be new, but the claim has always made one.
record_alert_delivery(p, delivered) ==
  row' = IF sub[p[1]] = "deleted" THEN row
         ELSE [row EXCEPT ![p] = [@ EXCEPT !.status = Outcome(delivered)]]

RecordDelivered(w, p) ==
  /\ job[w][p].at = "ok"
  /\ record_alert_delivery(p, TRUE)
  /\ JobDone(w, p)
  /\ UNCHANGED <<sub, secret, failed, accepted, bounds>>

RecordFailed(w, p) ==
  /\ job[w][p].at = "err"
  /\ record_alert_delivery(p, FALSE)
  /\ JobDone(w, p)
  /\ UNCHANGED <<sub, secret, failed, accepted, bounds>>

\* A database error or a panic ends one task; the cycle goes on without it.
TaskError(w, p) ==
  /\ job[w][p].at \in {"claim"} \cup Claimed
  /\ crashes < MaxCrashes
  /\ crashes' = crashes + 1
  /\ JobDone(w, p)
  /\ UNCHANGED <<sub, secret, failed, row, accepted, lost, rejects, admin>>

\* The dispatcher dies, with its batch and its tasks, and is started again.
Crash(w) ==
  /\ \E p \in Pairs : job[w][p] # NoJob
  /\ crashes < MaxCrashes
  /\ crashes' = crashes + 1
  /\ job' = [job EXCEPT ![w] = [p \in Pairs |-> NoJob]]
  /\ UNCHANGED <<sub, secret, failed, row, accepted, lost, rejects, admin>>

\* One second.  Every claim is settled or abandoned within Hold.
Tick ==
  /\ \A w \in Workers, p \in Pairs : job[w][p].at \in Claimed => job[w][p].held < Hold
  /\ row' = [p \in Pairs |->
       IF row[p].status = "claimed" /\ row[p].age <= Stale
         THEN [row[p] EXCEPT !.age = @ + 1] ELSE row[p]]
  /\ job' = [w \in Workers |-> [p \in Pairs |->
       IF job[w][p].at \in Claimed THEN [job[w][p] EXCEPT !.held = @ + 1] ELSE job[w][p]]]
  /\ row' # row \/ job' # job
  /\ UNCHANGED <<sub, secret, failed, accepted, bounds>>

-----------------------------------------------------------------------------

Init ==
  /\ sub = [s \in Subs |-> "none"]
  /\ secret = [s \in Subs |-> 0]
  /\ failed = {}
  /\ row = [p \in Pairs |-> NoRow]
  /\ job = [w \in Workers |-> [p \in Pairs |-> NoJob]]
  /\ accepted = [p \in Pairs |-> 0]
  /\ crashes = 0
  /\ lost = 0
  /\ rejects = 0
  /\ admin = 0

Administer ==
  \/ \E s \in Subs : Subscribe(s) \/ Deactivate(s) \/ Rotate(s) \/ Delete(s)
  \/ \E t \in Txs : FailedRolledBack(t)

\* The steps of dispatch_item that need no luck: a receiver that is not gone
\* takes a POST in the end.
DispatchItem(w, p) ==
  \/ Spawn(w, p)
  \/ Claim(w, p)
  \/ ClaimSkipped(w, p)
  \/ UnsafeUrl(w, p)
  \/ PostAccepted(w, p)
  \/ PostUnanswered(w, p)
  \/ RecordDelivered(w, p)
  \/ RecordFailed(w, p)

Trouble(w, p) ==
  \/ PostLost(w, p)
  \/ PostRejected(w, p)
  \/ TaskError(w, p)

Next ==
  \/ Administer
  \/ \E t \in Txs : FailedInserted(t)
  \/ \E w \in Workers : Find(w) \/ Crash(w)
  \/ \E w \in Workers, p \in Pairs : DispatchItem(w, p) \/ Trouble(w, p)
  \/ Tick

Spec == Init /\ [][Next]_vars

\* Every dispatcher keeps sweeping, its tasks keep running, time passes.  A
\* POST comes back within the client's timeout; refusals are finitely many.
FairSpec ==
  /\ Spec
  /\ WF_vars(Tick)
  /\ \A w \in Workers : WF_vars(Find(w))
  /\ \A w \in Workers, p \in Pairs : WF_vars(DispatchItem(w, p))

-----------------------------------------------------------------------------
(* Properties *)

\* Types of the tables, the tasks and the history.
TypeOK ==
  /\ sub \in [Subs -> {"none", "active", "inactive", "deleted"}]
  /\ secret \in [Subs -> Nat]
  /\ failed \subseteq Txs
  /\ row \in [Pairs -> [status : {"none", "claimed", "failed", "delivered"}, age : 0 .. Stale + 1]]
  /\ job \in [Workers -> [Pairs -> [at : {"none", "listed", "claim"} \cup Claimed, held : 0 .. Hold, key : Nat]]]
  /\ accepted \in [Pairs -> Nat]
  /\ crashes \in 0 .. MaxCrashes
  /\ lost \in 0 .. MaxLost
  /\ rejects \in 0 .. MaxRejects
  /\ admin \in 0 .. MaxAdmin

\* At most one task at a time is between its claim and its recorded result
\* for a pair, in all dispatchers together, as long as a claim is settled
\* before it can be taken over.
ExclusiveClaim ==
  Hold <= Stale =>
    \A p \in Pairs : \A v, w \in Workers :
      job[v][p].at \in Claimed /\ job[w][p].at \in Claimed => v = w

\* The row of a delivered pair is left alone and the pair is not posted.
KeepsDelivered ==
  \A p \in Pairs :
    Hold <= Stale /\ row[p].status = "delivered" /\ sub'[p[1]] # "deleted"
      => row'[p].status = "delivered" /\ accepted'[p] = accepted[p]

\* A delivered pair stays delivered: no late result of another task rewrites
\* it, and no sweep posts it again.
DeliveredIsFinal == [][KeepsDelivered]_vars

\* The ledger says delivered only of what the receiver has taken, whichever
\* task wrote it.
DeliveredWasAccepted ==
  \A p \in Pairs : row[p].status = "delivered" => accepted[p] > 0

\* The receiver sees a pair again only because of a dispatcher that died, a
\* task that ended in an error, or an answer that was lost: once for each.
DuplicatesAreExplained ==
  Hold <= Stale => \A p \in Pairs : accepted[p] <= 1 + crashes + lost

Matches(p) == sub[p[1]] = "active" /\ p[2] \in failed

\* What can never be delivered: it stays pending, and comes first in every
\* batch that its tx_hash gives it a place in.
Hopeless == {p \in Matching : p[1] \in Unsafe \cup Dead}

DeliveredInTheEnd(p) == Matches(p) ~> row[p].status = "delivered" \/ ~Matches(p)

\* While pairs that can never be delivered leave room in a batch, every other
\* pair that matches and keeps matching is delivered in the end: retries,
\* claims that a dead dispatcher left, and more pairs than LIMIT takes delay it
\* only.
EventuallyDelivered ==
  Cardinality(Hopeless) < Batch => \A p \in Matching \ Hopeless : DeliveredInTheEnd(p)

\* docs/api-alerts.md says that a webhook is delivered for each matching failed
\* transaction, and a failed one retried: whatever other receivers do.
EveryMatchDelivered == \A p \in Matching \ Hopeless : DeliveredInTheEnd(p)
=============================================================================
