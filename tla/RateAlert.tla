------------------------------ MODULE RateAlert ------------------------------
(***************************************************************************)
(* Rate-threshold alerts: dispatch_rate_once and dispatch_rate_item of     *)
(* crates/indexer/src/alerts.rs over alert_subscription,                   *)
(* failed_transaction and alert_rate_dispatch.                             *)
(*                                                                         *)
(* Nothing is claimed: a dispatcher selects the subscriptions whose window *)
(* is full and whose last dispatch is older than the debounce, posts, and  *)
(* inserts a dispatch row, delivered or failed.  Time is kept as ages, cut *)
(* off at MaxAge.  NOW() of the database is the clock of everyone.         *)
(***************************************************************************)
EXTENDS AlertApi, FiniteSets

\* A definition named BugX is X with a plausible mistake, and used nowhere.

CONSTANTS
  Workers,    \* dispatcher processes
  Subs,       \* subscription ids
  Txs,        \* failed transactions
  Auths,      \* Authorization headers of the clients
  Bodies,     \* bodies the clients send
  Batch,      \* DISPATCH_BATCH
  MaxPosts,   \* MAX_CONCURRENT_POSTS
  Poll,       \* longest time from one rate cycle to the next: sleep and per-event cycle
  Hold,       \* longest time from the start of a task to its dispatch row
  MaxLag,     \* longest time from a block to its rows
  MaxAge,     \* ages are cut off here
  MaxCrashes, \* bound on dispatchers that die and tasks that end in an error
  MaxRejects, \* bound on POSTs that fail
  MaxAdmin    \* bound on API calls and rollbacks

ASSUME RateAssumption ==
  /\ Subs \subseteq Nat /\ IsFiniteSet(Subs)
  /\ IsFiniteSet(Txs) /\ IsFiniteSet(Workers)
  /\ Batch \in Nat /\ MaxPosts \in Nat \ {0}
  /\ Poll \in Nat /\ Hold \in Nat /\ MaxLag \in Nat
  /\ MaxAge \in Nat /\ MaxLag <= MaxAge
  /\ MaxCrashes \in Nat /\ MaxRejects \in Nat /\ MaxAdmin \in Nat
  /\ \A b \in Bodies : {b.threshold_count, b.threshold_window_secs, b.debounce_secs} \subseteq Int \cup {NoValue}
  /\ \A b \in Bodies : CreateStatus([scheme |-> "bearer", key |-> "admin"], b) = 201 /\ sub_type(b) = "rate_threshold"
       => b.debounce_secs <= MaxAge /\ b.threshold_window_secs < MaxAge

VARIABLES
  sub,      \* alert_subscription
  failed,   \* failed_transaction: age of timestamp, or Absent
  last,     \* alert_rate_dispatch: age of the newest row, MaxAge if there is none
  job,      \* per dispatcher and subscription: where its item is
  held,     \* how long the item's task has been running
  asleep,   \* how long a dispatcher has been between two rate cycles
  since,    \* history: time since the dispatcher last posted, in a task that did not die
  overdue,  \* history: how long a subscription has been due and in no batch
  crashes, rejects, admin  \* how much of each bound is used

bounds == <<crashes, rejects, admin>>
vars == <<sub, failed, last, job, held, asleep, since, overdue, bounds>>

-----------------------------------------------------------------------------

Absent == -1

NoSub == [status |-> "none", kind |-> "per_event", count |-> NoValue, window |-> NoValue, debounce |-> NoValue]

Older(a) == IF a < MaxAge THEN a + 1 ELSE a

Started == {"post", "ok", "err"}

Tasks(w) == {s \in Subs : job[w][s] \in Started}
Listed(w) == {s \in Subs : job[w][s] = "listed"}

\* A cycle is under way.
Busy(w) == Tasks(w) \cup Listed(w) # {}

JobAt(w, s, from, to) == job[w][s] = from /\ job' = [job EXCEPT ![w][s] = to]

\* The transactions of a subscription's window.
InWindow(s) == {t \in Txs : failed[t] # Absent /\ failed[t] <= sub[s].window}

\* NOT EXISTS (a dispatch row younger than debounce_secs)
BugDebounced(s) == last[s] + 1 >= sub[s].debounce
Debounced(s) == last[s] >= sub[s].debounce

\* Due, as the documents define it, and in no batch.
Waiting(s) ==
  /\ sub[s].status = "active" /\ sub[s].kind = "rate_threshold"
  /\ Cardinality(InWindow(s)) >= sub[s].count
  /\ Debounced(s)
  /\ \A w \in Workers : job[w][s] = "none"

-----------------------------------------------------------------------------
(* The API and the indexer *)

\* create_alert_subscription; a request that is turned down changes nothing.
Create(s, auth, body) ==
  /\ sub[s] = NoSub
  /\ \A r \in Subs : r < s => sub[r] # NoSub
  /\ CreateStatus(auth, body) = 201
  /\ sub' = [sub EXCEPT ![s] = RowOf(body)]
  /\ UNCHANGED <<failed, last, job, held, asleep, since, overdue, bounds>>

Deactivate(s) ==
  /\ sub[s].status = "active"
  /\ admin < MaxAdmin
  /\ admin' = admin + 1
  /\ sub' = [sub EXCEPT ![s].status = "inactive"]
  /\ UNCHANGED <<failed, last, job, held, asleep, since, overdue, crashes, rejects>>

\* delete_alert_subscription takes the dispatch rows along.
Delete(s) ==
  /\ sub[s].status \in {"active", "inactive"}
  /\ admin < MaxAdmin
  /\ admin' = admin + 1
  /\ sub' = [sub EXCEPT ![s].status = "deleted"]
  /\ last' = [last EXCEPT ![s] = MaxAge]
  /\ UNCHANGED <<failed, job, held, asleep, since, overdue, crashes, rejects>>

\* insert_failed_transactions: timestamp is the block's, not the insert's.
\* A row that no window reaches any more makes room for a new transaction.
FailedInserted(t) ==
  /\ failed[t] \in {Absent, MaxAge}
  /\ \E lag \in 0 .. MaxLag : failed' = [failed EXCEPT ![t] = lag]
  /\ UNCHANGED <<sub, last, job, held, asleep, since, overdue, bounds>>

FailedRolledBack(t) ==
  /\ failed[t] # Absent
  /\ admin < MaxAdmin
  /\ admin' = admin + 1
  /\ failed' = [failed EXCEPT ![t] = Absent]
  /\ UNCHANGED <<sub, last, job, held, asleep, since, crashes, rejects>>
  /\ overdue' = [s \in Subs |-> IF Waiting(s)' THEN overdue[s] ELSE 0]

-----------------------------------------------------------------------------
(* dispatch_rate_once *)

\* find_pending_rate_alert_matches
BugEligible == {s \in Subs :
  /\ sub[s].status = "active" /\ sub[s].kind = "rate_threshold"
  /\ Cardinality(InWindow(s)) > sub[s].count
  /\ Debounced(s)}
Eligible == {s \in Subs :
  /\ sub[s].status = "active" /\ sub[s].kind = "rate_threshold"
  /\ Cardinality(InWindow(s)) >= sub[s].count
  /\ Debounced(s)}

\* ORDER BY subscription_id LIMIT batch
Selected == {s \in Eligible : Cardinality({r \in Eligible : r < s}) < Batch}

Find(w) ==
  /\ ~Busy(w)
  /\ job' = [job EXCEPT ![w] = [s \in Subs |-> IF s \in Selected THEN "listed" ELSE "none"]]
  /\ asleep' = [asleep EXCEPT ![w] = 0]
  /\ overdue' = [s \in Subs |-> IF s \in Selected THEN 0 ELSE overdue[s]]
  /\ UNCHANGED <<sub, failed, last, held, since, bounds>>

Spawn(w, s) ==
  /\ Cardinality(Tasks(w)) < MaxPosts
  /\ \A r \in Listed(w) : s <= r
  /\ JobAt(w, s, "listed", "post")
  /\ held' = [held EXCEPT ![w][s] = 0]
  /\ UNCHANGED <<sub, failed, last, asleep, since, overdue, bounds>>

\* post_signed: delivered ...
PostAccepted(w, s) ==
  /\ JobAt(w, s, "post", "ok")
  /\ since' = [since EXCEPT ![w][s] = 0]
  /\ UNCHANGED <<sub, failed, last, held, asleep, overdue, bounds>>

\* ... or not: the receiver, SafeDnsResolver, the URL or the secret says no.
PostFailed(w, s) ==
  /\ rejects < MaxRejects
  /\ rejects' = rejects + 1
  /\ JobAt(w, s, "post", "err")
  /\ since' = [since EXCEPT ![w][s] = 0]
  /\ UNCHANGED <<sub, failed, last, held, asleep, overdue, crashes, admin>>

\* record_rate_alert_dispatch: a row for either outcome, unless the
\* subscription is deleted (foreign key).
BugRecordedAge(s, outcome) ==
  IF sub[s].status = "deleted" \/ outcome = "err" THEN last[s] ELSE 0
BugForeignKey(s, outcome) == IF sub[s].status = "deleted" THEN Absent ELSE 0
RecordedAge(s, outcome) == IF sub[s].status = "deleted" THEN last[s] ELSE 0

Record(w, s) ==
  /\ job[w][s] \in {"ok", "err"}
  /\ last' = [last EXCEPT ![s] = RecordedAge(s, job[w][s])]
  /\ job' = [job EXCEPT ![w][s] = "none"]
  /\ held' = [held EXCEPT ![w][s] = 0]
  /\ UNCHANGED <<sub, failed, asleep, since, overdue, bounds>>

\* A database error or a panic ends one task.
TaskError(w, s) ==
  /\ job[w][s] \in Started
  /\ crashes < MaxCrashes
  /\ crashes' = crashes + 1
  /\ job' = [job EXCEPT ![w][s] = "none"]
  /\ held' = [held EXCEPT ![w][s] = 0]
  /\ since' = [since EXCEPT ![w][s] = MaxAge]
  /\ UNCHANGED <<sub, failed, last, asleep, overdue, rejects, admin>>

\* The dispatcher dies, or a query of the cycle fails and dispatch_loop
\* returns; it is started again.
Crash(w) ==
  /\ crashes < MaxCrashes
  /\ crashes' = crashes + 1
  /\ job' = [job EXCEPT ![w] = [s \in Subs |-> "none"]]
  /\ held' = [held EXCEPT ![w] = [s \in Subs |-> 0]]
  /\ asleep' = [asleep EXCEPT ![w] = 0]
  /\ since' = [since EXCEPT ![w] = [s \in Subs |-> IF s \in Tasks(w) THEN MaxAge ELSE since[w][s]]]
  /\ UNCHANGED <<sub, failed, last, overdue, rejects, admin>>

\* One second.  Tasks end within Hold, cycles start within Poll, and an item
\* waits only while all task slots are taken.
Tick ==
  /\ \A w \in Workers : \A s \in Tasks(w) : held[w][s] < Hold
  /\ \A w \in Workers : Busy(w) \/ asleep[w] < Poll
  /\ \A w \in Workers : Listed(w) # {} => Cardinality(Tasks(w)) = MaxPosts
  /\ failed' = [t \in Txs |-> IF failed[t] = Absent THEN Absent ELSE Older(failed[t])]
  /\ last' = [s \in Subs |-> Older(last[s])]
  /\ held' = [w \in Workers |-> [s \in Subs |-> IF s \in Tasks(w) THEN held[w][s] + 1 ELSE 0]]
  /\ asleep' = [w \in Workers |-> IF Busy(w) THEN 0 ELSE asleep[w] + 1]
  /\ since' = [w \in Workers |-> [s \in Subs |-> Older(since[w][s])]]
  /\ UNCHANGED <<sub, job, bounds>>
  /\ overdue' = [s \in Subs |-> IF Waiting(s) /\ Waiting(s)' THEN Older(overdue[s]) ELSE 0]

-----------------------------------------------------------------------------

Init ==
  /\ sub = [s \in Subs |-> NoSub]
  /\ failed = [t \in Txs |-> Absent]
  /\ last = [s \in Subs |-> MaxAge]
  /\ job = [w \in Workers |-> [s \in Subs |-> "none"]]
  /\ held = [w \in Workers |-> [s \in Subs |-> 0]]
  /\ asleep = [w \in Workers |-> 0]
  /\ since = [w \in Workers |-> [s \in Subs |-> MaxAge]]
  /\ overdue = [s \in Subs |-> 0]
  /\ crashes = 0
  /\ rejects = 0
  /\ admin = 0

DispatchItem(w, s) ==
  \/ Spawn(w, s)
  \/ PostAccepted(w, s)
  \/ PostFailed(w, s)
  \/ Record(w, s)
  \/ TaskError(w, s)

Next ==
  \/ \E s \in Subs, a \in Auths, b \in Bodies : Create(s, a, b)
  \/ \E s \in Subs : Deactivate(s) \/ Delete(s)
  \/ \E t \in Txs : FailedInserted(t) \/ FailedRolledBack(t)
  \/ \E w \in Workers : Find(w) \/ Crash(w)
  \/ \E w \in Workers, s \in Subs : DispatchItem(w, s)
  \/ Tick

Spec == Init /\ [][Next]_vars

-----------------------------------------------------------------------------
(* Properties *)

\* Types of the tables, the items and the clocks.
TypeOK ==
  /\ \A s \in Subs : sub[s].status \in {"none", "active", "inactive", "deleted"}
  /\ failed \in [Txs -> {Absent} \cup 0 .. MaxAge]
  /\ last \in [Subs -> 0 .. MaxAge]
  /\ job \in [Workers -> [Subs -> {"none", "listed"} \cup Started]]
  /\ held \in [Workers -> [Subs -> 0 .. Hold]]
  /\ asleep \in [Workers -> 0 .. Poll]
  /\ since \in [Workers -> [Subs -> 0 .. MaxAge]]
  /\ overdue \in [Subs -> 0 .. MaxAge]
  /\ crashes \in 0 .. MaxCrashes /\ rejects \in 0 .. MaxRejects /\ admin \in 0 .. MaxAdmin

\* Whatever the API accepts satisfies the CHECK constraint of the table, so
\* an INSERT never fails on it.
AcceptedPassesCheck == \A s \in Subs : sub[s] # NoSub => SchemaCheck(sub[s])

Posts(w, s) == job[w][s] = "post" /\ job'[w][s] \in {"ok", "err"}

\* A dispatcher does not post for a subscription again before the debounce
\* is over, whether its last POST was delivered or failed, and whatever other
\* dispatchers do in between; only a task that died before its row forgets.
DebounceHolds ==
  [][\A w \in Workers, s \in Subs : Posts(w, s) => since[w][s] >= sub[s].debounce]_vars

\* The longest a cycle takes.
CycleTime == Cardinality(Subs) * Hold

\* Dispatchers race only for a short time: a POST inside the debounce another
\* dispatcher has started comes within one cycle of that start.
RaceIsShort ==
  \A w \in Workers, s \in Subs :
    job[w][s] = "post" /\ last[s] < sub[s].debounce => last[s] <= CycleTime

\* A burst that stays in its window is picked up within one sleep and the
\* rest of a cycle that works on the others, as long as no dispatcher dies and
\* a batch has room for every subscription.
BurstPickedUp ==
  crashes = 0 /\ Batch >= Cardinality(Subs)
    => \A s \in Subs : overdue[s] <= Poll + (Cardinality(Subs) - 1) * Hold
=============================================================================
