--------------------------- MODULE RateAlertProofs ---------------------------
(***************************************************************************)
(* Proofs about the rate-threshold alerts (RateAlert), for any number of   *)
(* dispatchers, subscriptions and transactions, any batch size, number of  *)
(* task slots, sleep and task time, and any number of crashes and API      *)
(* calls.                                                                  *)
(*                                                                         *)
(* DispatchInv carries everything but the pick-up time; BurstInv, for      *)
(* histories without a crash, carries that one.                            *)
(***************************************************************************)
EXTENDS RateAlert, FiniteSetTheorems, TLAPS

-----------------------------------------------------------------------------
(* The inductive invariants *)

\* What alert_subscription can hold.
Fields == Int \cup {NoValue}
TableRows == [status : {"active", "inactive", "deleted"}, kind : {"per_event", "rate_threshold"},
              count : Fields, window : Fields, debounce : Fields]

RowOK(r) ==
  /\ r \in TableRows
  /\ SchemaCheck(r)
  /\ r.kind = "rate_threshold" => r.debounce <= MaxAge /\ r.window < MaxAge

RowsOK == \A s \in Subs : sub[s] = NoSub \/ RowOK(sub[s])
TableOK == DOMAIN sub = Subs /\ RowsOK

\* Only a rate subscription is ever in a batch.
JobSub ==
  \A w \in Workers, s \in Subs : job[w][s] # "none" =>
    sub[s] # NoSub /\ sub[s].kind = "rate_threshold"

SlotsOK == \A w \in Workers : Cardinality(Tasks(w)) <= MaxPosts

\* What a dispatcher has posted has left a row, unless its task still has it.
RowAfterPost ==
  \A w \in Workers, s \in Subs :
    sub[s].status # "deleted" /\ job[w][s] \notin {"ok", "err"} => last[s] <= since[w][s]

\* ... so that what is in a batch was last posted a debounce ago.
DueSince ==
  \A w \in Workers, s \in Subs :
    job[w][s] \in {"listed", "post"} => since[w][s] >= sub[s].debounce

Full(w) == Cardinality(Tasks(w)) = MaxPosts

\* The subscriptions a dispatcher's cycle is through with, or never had.
Past(w) == Subs \ (Tasks(w) \cup Listed(w))
Done(w) == Cardinality(Past(w))

\* An item whose debounce another dispatcher has started meanwhile has lost at
\* most Hold for each item before it, and what the present tasks have used.
RaceAt(w, s) ==
  last[s] < sub[s].debounce =>
    /\ job[w][s] = "listed" =>
         /\ Full(w) => \A t \in Tasks(w) : last[s] <= Hold * Done(w) + held[w][t]
         /\ ~Full(w) => last[s] <= Hold * Done(w)
    /\ job[w][s] = "post" => last[s] <= Hold * Done(w) + held[w][s]
RaceOK == \A w \in Workers, s \in Subs : RaceAt(w, s)

DispatchInv ==
  /\ TypeOK /\ TableOK /\ JobSub /\ SlotsOK
  /\ RowAfterPost /\ DueSince
  /\ RaceOK

\* Only a subscription that waits is overdue, or one that was switched off
\* since the clock last moved.
OverdueOK ==
  \A s \in Subs :
    /\ overdue[s] > 0 => Waiting(s) \/ sub[s].status \in {"inactive", "deleted"}
    /\ sub[s] = NoSub => overdue[s] = 0
    /\ \A w \in Workers : job[w][s] # "none" => overdue[s] = 0

InBatch(w) == Tasks(w) \cup Listed(w)

\* How many subscriptions a cycle with batch A is through with, s apart.
Others(A, s) == Cardinality(Subs \ (A \cup {s}))

\* How long s may have waited for a dispatcher that works on the others ...
BusyWait(w, s) ==
  /\ \A t \in Tasks(w) : overdue[s] <= Hold * Others(InBatch(w), s) + held[w][t]
  /\ Listed(w) # {} /\ ~Full(w) => overdue[s] <= Hold * Others(InBatch(w), s)

\* ... or sleeps.
IdleWait(w, s) == overdue[s] <= Hold * (Cardinality(Subs) - 1) + asleep[w]

WaitAt(w, s) == IF InBatch(w) # {} THEN BusyWait(w, s) ELSE IdleWait(w, s)
WaitOK == \A w \in Workers, s \in Subs : Waiting(s) => WaitAt(w, s)

PickedUp == \A s \in Subs : overdue[s] <= Poll + (Cardinality(Subs) - 1) * Hold

Room == Batch >= Cardinality(Subs)

BurstInv == crashes = 0 /\ Room => OverdueOK /\ WaitOK /\ PickedUp

-----------------------------------------------------------------------------
(* Types and tables *)

\* A product of natural numbers, one step further and monotone.
LEMMA Times ==
  ASSUME NEW a \in Nat, NEW b \in Nat
  PROVE  /\ a * b \in Nat
         /\ a * (b + 1) = a * b + a
         /\ \A c \in Nat : b <= c => a * b <= a * c
<1>1. a * b \in Nat
  OBVIOUS
<1>2. a * (b + 1) = a * b + a
  OBVIOUS
<1>3. ASSUME NEW c \in Nat, b <= c  PROVE a * b <= a * c
  <2>1. c - b \in Nat /\ a * (c - b) >= 0
    BY <1>3
  <2>2. a * (c - b) = a * c - a * b
    OBVIOUS
  <2> QED  BY <2>1, <2>2
<1> QED  BY <1>1, <1>2, <1>3

\* Ages are cut off at MaxAge and never run backwards.
LEMMA OlderType ==
  ASSUME NEW a \in 0 .. MaxAge
  PROVE  /\ Older(a) \in 0 .. MaxAge
         /\ a <= Older(a) /\ Older(a) <= a + 1
         /\ \A b \in 0 .. MaxAge : a <= b => Older(a) <= Older(b)
BY RateAssumption DEF Older

\* A row the API writes is one the table can hold, and is active.
LEMMA CreatedRow ==
  ASSUME NEW auth, NEW b \in Bodies, CreateStatus(auth, b) = 201
  PROVE  RowOK(RowOf(b)) /\ RowOf(b).status = "active"
<1> DEFINE r == RowOf(b)
<1>1. RateFieldsValid(b) /\ TargetValid(b)
  BY DEF CreateStatus
<1>2. CreateStatus([scheme |-> "bearer", key |-> "admin"], b) = 201
  BY <1>1 DEF CreateStatus, AdminAuth
<1>3. /\ r.status = "active" /\ r.kind = sub_type(b)
      /\ r.count = b.threshold_count /\ r.window = b.threshold_window_secs /\ r.debounce = b.debounce_secs
      /\ r = [status |-> "active", kind |-> sub_type(b), count |-> b.threshold_count,
              window |-> b.threshold_window_secs, debounce |-> b.debounce_secs]
  BY DEF RowOf
<1>4. b.threshold_count \in Fields /\ b.threshold_window_secs \in Fields /\ b.debounce_secs \in Fields
  BY RateAssumption DEF Fields
<1>5. sub_type(b) \in {"per_event", "rate_threshold"}
  BY <1>1 DEF RateFieldsValid
<1>6. r \in TableRows
  BY <1>3, <1>4, <1>5 DEF TableRows
<1>7. SchemaCheck(r)
  <2>1. CASE sub_type(b) = "per_event" /\ \A i \in 1 .. 3 : RateFields(b)[i] = NoValue
    <3>1. RateFields(b)[1] = NoValue /\ RateFields(b)[2] = NoValue /\ RateFields(b)[3] = NoValue
      BY <2>1
    <3> QED  BY <2>1, <3>1, <1>3 DEF SchemaCheck, RateFields
  <2>2. CASE /\ sub_type(b) = "rate_threshold"
             /\ \A i \in 1 .. 3 : RateFields(b)[i] # NoValue
             /\ b.threshold_count > 0 /\ b.threshold_window_secs > 0 /\ b.debounce_secs >= 0
    <3>1. RateFields(b)[1] # NoValue /\ RateFields(b)[2] # NoValue /\ RateFields(b)[3] # NoValue
      BY <2>2
    <3> QED  BY <2>2, <3>1, <1>3 DEF SchemaCheck, RateFields
  <2> QED  BY <1>1, <2>1, <2>2 DEF RateFieldsValid
<1>8. r.kind = "rate_threshold" => r.debounce <= MaxAge /\ r.window < MaxAge
  BY <1>2, <1>3, RateAssumption
<1> QED  BY <1>3, <1>6, <1>7, <1>8 DEF RowOK

\* The clocks of a rate subscription are integers within MaxAge.
LEMMA RateRow ==
  ASSUME TableOK, NEW s \in Subs, sub[s].kind = "rate_threshold"
  PROVE  /\ sub[s].count \in Nat \ {0}
         /\ sub[s].window \in Nat /\ sub[s].window < MaxAge
         /\ sub[s].debounce \in 0 .. MaxAge
BY RateAssumption DEF TableOK, RowsOK, RowOK, SchemaCheck, NoSub, TableRows, Fields

\* Changing a row's status keeps it a row of the table.
LEMMA StatusRow ==
  ASSUME NEW r, RowOK(r), NEW st \in {"active", "inactive", "deleted"},
         NEW q, q = [r EXCEPT !.status = st]
  PROVE  /\ RowOK(q) /\ q.status = st
         /\ q.kind = r.kind /\ q.count = r.count /\ q.window = r.window /\ q.debounce = r.debounce
BY DEF RowOK, TableRows, SchemaCheck

\* What happens to the table of subscriptions in one step.
SubStep ==
  \/ sub' = sub
  \/ /\ overdue' = overdue /\ failed' = failed /\ job' = job /\ held' = held
     /\ asleep' = asleep /\ since' = since /\ crashes' = crashes
     /\ \E s \in Subs :
          /\ \A r \in Subs \ {s} : sub'[r] = sub[r] /\ last'[r] = last[r]
          /\ \/ sub[s] = NoSub /\ RowOK(sub'[s]) /\ sub'[s].status = "active" /\ last' = last
             \/ /\ RowOK(sub[s]) /\ RowOK(sub'[s]) /\ sub[s].status # "deleted"
                /\ sub'[s].kind = sub[s].kind /\ sub'[s].count = sub[s].count
                /\ sub'[s].window = sub[s].window /\ sub'[s].debounce = sub[s].debounce
                /\ \/ sub'[s].status = "inactive" /\ last' = last
                   \/ sub'[s].status = "deleted" /\ last'[s] = MaxAge

\* Rows are created once and keep their rule; the table keeps its form.
LEMMA SubSteps ==
  ASSUME TypeOK, TableOK, Next
  PROVE  SubStep /\ TableOK'
<1>1. CASE sub' = sub
  BY <1>1 DEF SubStep, TableOK, RowsOK
<1>2. ASSUME NEW s \in Subs, NEW a \in Auths, NEW b \in Bodies, Create(s, a, b)
      PROVE  SubStep /\ TableOK'
  <2>1. RowOK(RowOf(b)) /\ RowOf(b).status = "active"
    BY <1>2, CreatedRow DEF Create
  <2>2. sub' = [sub EXCEPT ![s] = RowOf(b)] /\ sub[s] = NoSub /\ last' = last
    BY <1>2 DEF Create
  <2>3. \A r \in Subs \ {s} : sub'[r] = sub[r] /\ last'[r] = last[r]
    BY <2>2 DEF TableOK
  <2>4. sub'[s] = RowOf(b) /\ DOMAIN sub' = Subs
    BY <2>2 DEF TableOK
  <2>5. TableOK'
    BY <2>1, <2>3, <2>4 DEF TableOK, RowsOK
  <2>6. SubStep
    BY <1>2, <2>1, <2>2, <2>3, <2>4 DEF SubStep, Create, bounds
  <2> QED  BY <2>5, <2>6
<1>3. ASSUME NEW s \in Subs, NEW st \in {"inactive", "deleted"},
             sub' = [sub EXCEPT ![s].status = st], sub[s].status \in {"active", "inactive"},
             st = "inactive" => last' = last,
             st = "deleted" => last' = [last EXCEPT ![s] = MaxAge],
             UNCHANGED <<failed, job, held, asleep, since, overdue, crashes>>
      PROVE  SubStep /\ TableOK'
  <2>1. RowOK(sub[s])
    BY <1>3 DEF TableOK, RowsOK, NoSub
  <2>2. sub'[s] = [sub[s] EXCEPT !.status = st] /\ DOMAIN sub' = Subs
    BY <1>3 DEF TableOK
  <2>3. /\ RowOK(sub'[s]) /\ sub'[s].status = st /\ sub'[s].kind = sub[s].kind
        /\ sub'[s].count = sub[s].count /\ sub'[s].window = sub[s].window /\ sub'[s].debounce = sub[s].debounce
    BY <2>1, <2>2, StatusRow
  <2>4. \A r \in Subs \ {s} : sub'[r] = sub[r] /\ last'[r] = last[r]
    BY <1>3 DEF TableOK, TypeOK
  <2>5. TableOK'
    BY <2>2, <2>3, <2>4 DEF TableOK, RowsOK
  <2>6. \/ sub'[s].status = "inactive" /\ last' = last
        \/ sub'[s].status = "deleted" /\ last'[s] = MaxAge
    BY <1>3, <2>3 DEF TypeOK
  <2>7. SubStep
    BY <1>3, <2>1, <2>3, <2>4, <2>6 DEF SubStep
  <2> QED  BY <2>5, <2>7
<1>4. ASSUME NEW s \in Subs, Deactivate(s)  PROVE SubStep /\ TableOK'
  <2>1. /\ sub' = [sub EXCEPT ![s].status = "inactive"] /\ sub[s].status \in {"active", "inactive"}
        /\ last' = last /\ UNCHANGED <<failed, job, held, asleep, since, overdue, crashes>>
    BY <1>4 DEF Deactivate
  <2>2. "inactive" \in {"inactive", "deleted"} /\ "inactive" # "deleted"
    OBVIOUS
  <2> QED  BY <1>3, <2>1, <2>2
<1>5. ASSUME NEW s \in Subs, Delete(s)  PROVE SubStep /\ TableOK'
  BY <1>3, <1>5 DEF Delete
<1>6. ASSUME NEW t \in Txs, FailedInserted(t) \/ FailedRolledBack(t)  PROVE sub' = sub
  BY <1>6 DEF FailedInserted, FailedRolledBack
<1>7. ASSUME NEW w \in Workers, Find(w) \/ Crash(w)  PROVE sub' = sub
  BY <1>7 DEF Find, Crash
<1>8. ASSUME NEW w \in Workers, NEW s \in Subs, DispatchItem(w, s)  PROVE sub' = sub
  BY <1>8 DEF DispatchItem, Spawn, PostAccepted, PostFailed, Record, TaskError
<1>9. ASSUME Tick  PROVE sub' = sub
  BY <1>9 DEF Tick
<1> QED  BY <1>1, <1>2, <1>4, <1>5, <1>6, <1>7, <1>8, <1>9 DEF Next

-----------------------------------------------------------------------------
(* The items *)

\* One entry of a table of dispatchers and subscriptions is overwritten.
LEMMA Overwrite ==
  ASSUME NEW X, NEW f \in [Workers -> [Subs -> X]], NEW w \in Workers, NEW s \in Subs, NEW x \in X,
         NEW g, g = [f EXCEPT ![w][s] = x]
  PROVE  /\ g \in [Workers -> [Subs -> X]]
         /\ g[w][s] = x
         /\ \A v \in Workers, r \in Subs : v # w \/ r # s => g[v][r] = f[v][r]
OBVIOUS

JobStates == {"none", "listed", "post", "ok", "err"}

LEMMA JobType == TypeOK => job \in [Workers -> [Subs -> JobStates]]
BY DEF TypeOK, Started, JobStates

\* The steps of one item, without what they count.
Moves(w, s, to) ==
  /\ job' \in [Workers -> [Subs -> JobStates]]
  /\ job'[w][s] = to
  /\ \A v \in Workers, r \in Subs : v # w \/ r # s => job'[v][r] = job[v][r]

Keeps(w, s, f, g) == \A v \in Workers, r \in Subs : v # w \/ r # s => g[v][r] = f[v][r]

Spawns(w, s) ==
  /\ job[w][s] = "listed" /\ Moves(w, s, "post")
  /\ Cardinality(Tasks(w)) < MaxPosts
  /\ held'[w][s] = 0 /\ Keeps(w, s, held, held')
  /\ UNCHANGED <<sub, failed, last, asleep, since, overdue, crashes>>

Posted(w, s) ==
  /\ job[w][s] = "post" /\ (Moves(w, s, "ok") \/ Moves(w, s, "err"))
  /\ since'[w][s] = 0 /\ Keeps(w, s, since, since')
  /\ UNCHANGED <<sub, failed, last, held, asleep, overdue, crashes>>

Ends(w, s) ==
  /\ job[w][s] \in Started /\ Moves(w, s, "none")
  /\ held'[w][s] = 0 /\ Keeps(w, s, held, held')
  /\ \/ /\ job[w][s] \in {"ok", "err"}
        /\ last'[s] = (IF sub[s].status = "deleted" THEN last[s] ELSE 0)
        /\ since' = since /\ crashes' = crashes
     \/ /\ last'[s] = last[s]
        /\ since'[w][s] = MaxAge /\ Keeps(w, s, since, since')
        /\ crashes' = crashes + 1
  /\ \A r \in Subs \ {s} : last'[r] = last[r]
  /\ UNCHANGED <<sub, failed, asleep, overdue>>

\* The types of an item step, and what it is.
LEMMA ItemStep ==
  ASSUME TypeOK, TableOK, NEW w \in Workers, NEW s \in Subs, DispatchItem(w, s)
  PROVE  TypeOK' /\ (Spawns(w, s) \/ Posted(w, s) \/ Ends(w, s))
<1> DEFINE Ages == 0 .. MaxAge
<1> USE RateAssumption
<1>0. /\ job \in [Workers -> [Subs -> JobStates]]
      /\ held \in [Workers -> [Subs -> 0 .. Hold]]
      /\ since \in [Workers -> [Subs -> 0 .. MaxAge]]
      /\ last \in [Subs -> 0 .. MaxAge]
  BY JobType DEF TypeOK
<1>1. CASE Spawn(w, s)
  <2>1. job' = [job EXCEPT ![w][s] = "post"] /\ held' = [held EXCEPT ![w][s] = 0]
    BY <1>1 DEF Spawn, JobAt
  <2>2. Moves(w, s, "post")
    BY <2>1, <1>0, Overwrite DEF Moves, JobStates
  <2>3. held' \in [Workers -> [Subs -> 0 .. Hold]] /\ held'[w][s] = 0 /\ Keeps(w, s, held, held')
    BY <2>1, <1>0, Overwrite DEF Keeps
  <2>4. TypeOK'
    BY <1>1, <2>2, <2>3 DEF TypeOK, Spawn, bounds, Moves, JobStates, Started
  <2>5. Spawns(w, s)
    BY <1>1, <2>2, <2>3 DEF Spawn, JobAt, Spawns, bounds
  <2> QED  BY <2>4, <2>5
<1>2. CASE PostAccepted(w, s) \/ PostFailed(w, s)
  <2>1. /\ job[w][s] = "post"
        /\ job' = [job EXCEPT ![w][s] = "ok"] \/ job' = [job EXCEPT ![w][s] = "err"]
        /\ since' = [since EXCEPT ![w][s] = 0]
        /\ UNCHANGED <<sub, failed, last, held, asleep, overdue, crashes, admin>>
        /\ rejects' = rejects \/ (rejects < MaxRejects /\ rejects' = rejects + 1)
    BY <1>2 DEF PostAccepted, PostFailed, JobAt, bounds
  <2>2. Moves(w, s, "ok") \/ Moves(w, s, "err")
    <3>1. CASE job' = [job EXCEPT ![w][s] = "ok"]
      BY <3>1, <1>0, Overwrite DEF Moves, JobStates
    <3>2. CASE job' = [job EXCEPT ![w][s] = "err"]
      BY <3>2, <1>0, Overwrite DEF Moves, JobStates
    <3> QED  BY <2>1, <3>1, <3>2
  <2>3. since' \in [Workers -> [Subs -> 0 .. MaxAge]] /\ since'[w][s] = 0 /\ Keeps(w, s, since, since')
    BY <2>1, <1>0, Overwrite DEF Keeps
  <2>4. TypeOK'
    BY <2>1, <2>2, <2>3 DEF TypeOK, Moves, JobStates, Started
  <2>5. Posted(w, s)
    BY <2>1, <2>2, <2>3 DEF Posted
  <2> QED  BY <2>4, <2>5
<1>3. CASE Record(w, s) \/ TaskError(w, s)
  <2>1. /\ job[w][s] \in Started
        /\ job' = [job EXCEPT ![w][s] = "none"] /\ held' = [held EXCEPT ![w][s] = 0]
        /\ UNCHANGED <<sub, failed, asleep, overdue, rejects, admin>>
    BY <1>3 DEF Record, TaskError, Started, bounds
  <2>2. Moves(w, s, "none")
    BY <2>1, <1>0, Overwrite DEF Moves, JobStates
  <2>3. held' \in [Workers -> [Subs -> 0 .. Hold]] /\ held'[w][s] = 0 /\ Keeps(w, s, held, held')
    BY <2>1, <1>0, Overwrite DEF Keeps
  <2>4. CASE Record(w, s)
    <3>1. RecordedAge(s, job[w][s]) = (IF sub[s].status = "deleted" THEN last[s] ELSE 0)
      BY DEF RecordedAge
    <3>2. /\ last' \in [Subs -> 0 .. MaxAge]
          /\ last'[s] = (IF sub[s].status = "deleted" THEN last[s] ELSE 0)
          /\ \A r \in Subs \ {s} : last'[r] = last[r]
          /\ job[w][s] \in {"ok", "err"} /\ since' = since /\ crashes' = crashes
      BY <2>4, <1>0, <3>1 DEF Record, bounds
    <3>3. TypeOK'
      BY <2>1, <2>2, <2>3, <3>2 DEF TypeOK, Moves, JobStates, Started
    <3>4. Ends(w, s)
      BY <2>1, <2>2, <2>3, <3>2 DEF Ends
    <3> QED  BY <3>3, <3>4
  <2>5. CASE TaskError(w, s)
    <3>1. /\ since' = [since EXCEPT ![w][s] = MaxAge] /\ last' = last
          /\ crashes < MaxCrashes /\ crashes' = crashes + 1
      BY <2>5 DEF TaskError
    <3>2. since' \in [Workers -> [Subs -> 0 .. MaxAge]] /\ since'[w][s] = MaxAge /\ Keeps(w, s, since, since')
      BY <3>1, <1>0, Overwrite DEF Keeps
    <3>3. TypeOK'
      BY <2>1, <2>2, <2>3, <3>1, <3>2 DEF TypeOK, Moves, JobStates, Started
    <3>4. Ends(w, s)
      BY <2>1, <2>2, <2>3, <3>1, <3>2 DEF Ends
    <3> QED  BY <3>3, <3>4
  <2> QED  BY <1>3, <2>4, <2>5
<1> QED  BY <1>1, <1>2, <1>3 DEF DispatchItem

\* The remaining steps keep the types.
LEMMA TypeStep ==
  ASSUME TypeOK, TableOK, Next
  PROVE  TypeOK'
<1> USE RateAssumption
<1>0. /\ job \in [Workers -> [Subs -> JobStates]]
      /\ TableOK'
  BY JobType, SubSteps
<1>1. \A s \in Subs : sub'[s].status \in {"none", "active", "inactive", "deleted"}
  BY <1>0 DEF TableOK, RowsOK, RowOK, TableRows, NoSub
<1>2. ASSUME NEW s \in Subs, NEW a \in Auths, NEW b \in Bodies, Create(s, a, b)  PROVE TypeOK'
  BY <1>1, <1>2 DEF Create, TypeOK, bounds
<1>3. ASSUME NEW s \in Subs, Deactivate(s) \/ Delete(s)  PROVE TypeOK'
  <2>1. last' \in [Subs -> 0 .. MaxAge] /\ admin' \in 0 .. MaxAdmin
    BY <1>3 DEF Deactivate, Delete, TypeOK
  <2>2. UNCHANGED <<failed, job, held, asleep, since, overdue, crashes, rejects>>
    BY <1>3 DEF Deactivate, Delete
  <2> QED  BY <1>1, <2>1, <2>2 DEF TypeOK
<1>4. ASSUME NEW t \in Txs, FailedInserted(t)  PROVE TypeOK'
  BY <1>1, <1>4 DEF FailedInserted, TypeOK, bounds
<1>5. ASSUME NEW t \in Txs, FailedRolledBack(t)  PROVE TypeOK'
  <2>1. overdue' \in [Subs -> 0 .. MaxAge]
    <3> DEFINE P(s) == Waiting(s)'
    <3>1. overdue' = [s \in Subs |-> IF P(s) THEN overdue[s] ELSE 0]
      BY <1>5 DEF FailedRolledBack
    <3> HIDE DEF P
    <3> QED  BY <3>1 DEF TypeOK
  <2> QED  BY <1>1, <1>5, <2>1 DEF FailedRolledBack, TypeOK
<1>6. ASSUME NEW w \in Workers, Find(w)  PROVE TypeOK'
  <2>1. job' \in [Workers -> [Subs -> JobStates]]
    BY <1>0, <1>6 DEF Find, JobStates
  <2>2. overdue' \in [Subs -> 0 .. MaxAge] /\ asleep' \in [Workers -> 0 .. Poll]
    BY <1>6 DEF Find, TypeOK
  <2> QED  BY <1>1, <1>6, <2>1, <2>2 DEF Find, TypeOK, bounds, JobStates, Started
<1>7. ASSUME NEW w \in Workers, Crash(w)  PROVE TypeOK'
  <2>1. job' \in [Workers -> [Subs -> JobStates]]
    BY <1>0, <1>7 DEF Crash, JobStates
  <2>2. held' \in [Workers -> [Subs -> 0 .. Hold]] /\ asleep' \in [Workers -> 0 .. Poll]
    BY <1>7 DEF Crash, TypeOK
  <2>3. since' \in [Workers -> [Subs -> 0 .. MaxAge]]
    BY <1>7 DEF Crash, TypeOK
  <2> QED  BY <1>1, <1>7, <2>1, <2>2, <2>3 DEF Crash, TypeOK, JobStates, Started
<1>8. ASSUME NEW w \in Workers, NEW s \in Subs, DispatchItem(w, s)  PROVE TypeOK'
  BY <1>8, ItemStep
<1>9. ASSUME Tick  PROVE TypeOK'
  <2>1. failed' \in [Txs -> {Absent} \cup 0 .. MaxAge]
    BY <1>9, OlderType DEF Tick, TypeOK, Absent
  <2>2. last' \in [Subs -> 0 .. MaxAge] /\ since' \in [Workers -> [Subs -> 0 .. MaxAge]]
    BY <1>9, OlderType DEF Tick, TypeOK
  <2>3. held' \in [Workers -> [Subs -> 0 .. Hold]]
    BY <1>9 DEF Tick, TypeOK
  <2>4. asleep' \in [Workers -> 0 .. Poll]
    BY <1>9 DEF Tick, TypeOK
  <2>5. overdue' \in [Subs -> 0 .. MaxAge]
    <3> DEFINE P(s) == Waiting(s) /\ Waiting(s)'
    <3>1. overdue' = [s \in Subs |-> IF P(s) THEN Older(overdue[s]) ELSE 0]
      BY <1>9 DEF Tick
    <3> HIDE DEF P
    <3> QED  BY <3>1, OlderType DEF TypeOK
  <2> QED  BY <1>1, <1>9, <2>1, <2>2, <2>3, <2>4, <2>5 DEF Tick, TypeOK, bounds
<1> QED  BY <1>2, <1>3, <1>4, <1>5, <1>6, <1>7, <1>8, <1>9 DEF Next

\* The sets a cycle is made of are finite, and an item in the batch is not
\* among those the cycle is through with.
LEMMA CycleSets ==
  ASSUME NEW w \in Workers
  PROVE  /\ IsFiniteSet(Subs) /\ Cardinality(Subs) \in Nat
         /\ IsFiniteSet(Tasks(w)) /\ Cardinality(Tasks(w)) \in Nat
         /\ IsFiniteSet(Past(w)) /\ Done(w) \in Nat
         /\ \A s \in Tasks(w) \cup Listed(w) : Done(w) + 1 <= Cardinality(Subs)
<1> USE RateAssumption
<1>1. Tasks(w) \subseteq Subs /\ Past(w) \subseteq Subs
  BY DEF Tasks, Past
<1>2. /\ IsFiniteSet(Subs) /\ IsFiniteSet(Tasks(w)) /\ IsFiniteSet(Past(w))
  BY <1>1, FS_Subset
<1>3. Cardinality(Subs) \in Nat /\ Cardinality(Tasks(w)) \in Nat /\ Done(w) \in Nat
  BY <1>2, FS_CardinalityType DEF Done
<1>4. ASSUME NEW s \in Tasks(w) \cup Listed(w)  PROVE Done(w) + 1 <= Cardinality(Subs)
  <2>1. s \in Subs /\ s \notin Past(w)
    BY DEF Tasks, Listed, Past
  <2>2. Cardinality(Past(w) \cup {s}) = Done(w) + 1
    BY <1>2, <2>1, FS_AddElement DEF Done
  <2>3. Past(w) \cup {s} \subseteq Subs
    BY <1>1, <2>1
  <2>4. Cardinality(Past(w) \cup {s}) <= Cardinality(Subs)
    BY <1>2, <2>3, FS_Subset
  <2> QED  BY <1>3, <2>2, <2>4
<1> QED  BY <1>2, <1>3, <1>4

\* What the steps of an item do to the sets of its cycle, and of the others'.
LEMMA ItemSets ==
  ASSUME TypeOK, NEW w \in Workers, NEW s \in Subs
  PROVE  /\ Spawns(w, s) =>
              /\ Tasks(w)' = Tasks(w) \cup {s} /\ Listed(w)' = Listed(w) \ {s} /\ Past(w)' = Past(w)
              /\ s \notin Tasks(w) /\ s \in Listed(w)
         /\ Posted(w, s) =>
              /\ Tasks(w)' = Tasks(w) /\ Listed(w)' = Listed(w) /\ Past(w)' = Past(w)
         /\ Ends(w, s) =>
              /\ Tasks(w)' = Tasks(w) \ {s} /\ Listed(w)' = Listed(w) /\ Past(w)' = Past(w) \cup {s}
              /\ s \in Tasks(w) /\ s \notin Past(w)
         /\ Spawns(w, s) \/ Posted(w, s) \/ Ends(w, s) => \A v \in Workers \ {w} :
              Tasks(v)' = Tasks(v) /\ Listed(v)' = Listed(v) /\ Past(v)' = Past(v)
<1>0. job \in [Workers -> [Subs -> JobStates]]
  BY JobType
<1>1. ASSUME Spawns(w, s)
      PROVE  /\ Tasks(w)' = Tasks(w) \cup {s} /\ Listed(w)' = Listed(w) \ {s} /\ Past(w)' = Past(w)
             /\ s \notin Tasks(w) /\ s \in Listed(w)
  <2>1. Tasks(w)' = Tasks(w) \cup {s} /\ Listed(w)' = Listed(w) \ {s} /\ s \notin Tasks(w) /\ s \in Listed(w)
    BY <1>1 DEF Spawns, Moves, Tasks, Listed, Started
  <2> QED  BY <2>1 DEF Past
<1>2. ASSUME Posted(w, s)
      PROVE  Tasks(w)' = Tasks(w) /\ Listed(w)' = Listed(w) /\ Past(w)' = Past(w)
  <2>1. Tasks(w)' = Tasks(w) /\ Listed(w)' = Listed(w)
    BY <1>2 DEF Posted, Moves, Tasks, Listed, Started
  <2> QED  BY <2>1 DEF Past
<1>3. ASSUME Ends(w, s)
      PROVE  /\ Tasks(w)' = Tasks(w) \ {s} /\ Listed(w)' = Listed(w) /\ Past(w)' = Past(w) \cup {s}
             /\ s \in Tasks(w) /\ s \notin Past(w)
  <2>1. Tasks(w)' = Tasks(w) \ {s} /\ Listed(w)' = Listed(w) /\ s \in Tasks(w) /\ s \notin Listed(w)
    BY <1>3 DEF Ends, Moves, Tasks, Listed, Started
  <2> QED  BY <2>1 DEF Past
<1>4. ASSUME Spawns(w, s) \/ Posted(w, s) \/ Ends(w, s), NEW v \in Workers \ {w}
      PROVE  Tasks(v)' = Tasks(v) /\ Listed(v)' = Listed(v) /\ Past(v)' = Past(v)
  <2>1. \A r \in Subs : job'[v][r] = job[v][r]
    BY <1>4 DEF Spawns, Posted, Ends, Moves
  <2>2. Tasks(v)' = Tasks(v) /\ Listed(v)' = Listed(v)
    BY <2>1 DEF Tasks, Listed
  <2> QED  BY <2>2 DEF Past
<1> QED  BY <1>1, <1>2, <1>3, <1>4

\* ... and to their sizes.
LEMMA ItemSizes ==
  ASSUME TypeOK, NEW w \in Workers, NEW s \in Subs
  PROVE  /\ Spawns(w, s) => Cardinality(Tasks(w)') = Cardinality(Tasks(w)) + 1 /\ Done(w)' = Done(w)
         /\ Posted(w, s) => Cardinality(Tasks(w)') = Cardinality(Tasks(w)) /\ Done(w)' = Done(w)
         /\ Ends(w, s) => Cardinality(Tasks(w)') = Cardinality(Tasks(w)) - 1 /\ Done(w)' = Done(w) + 1
<1>1. IsFiniteSet(Tasks(w)) /\ IsFiniteSet(Past(w))
  BY CycleSets
<1>2. ASSUME Spawns(w, s)
      PROVE  Cardinality(Tasks(w)') = Cardinality(Tasks(w)) + 1 /\ Done(w)' = Done(w)
  BY <1>1, <1>2, ItemSets, FS_AddElement DEF Done
<1>3. ASSUME Posted(w, s)
      PROVE  Cardinality(Tasks(w)') = Cardinality(Tasks(w)) /\ Done(w)' = Done(w)
  BY <1>3, ItemSets DEF Done
<1>4. ASSUME Ends(w, s)
      PROVE  Cardinality(Tasks(w)') = Cardinality(Tasks(w)) - 1 /\ Done(w)' = Done(w) + 1
  <2>1. Cardinality(Tasks(w) \ {s}) = Cardinality(Tasks(w)) - 1
    BY <1>1, <1>4, ItemSets, FS_RemoveElement
  <2>2. Cardinality(Past(w) \cup {s}) = Cardinality(Past(w)) + 1
    BY <1>1, <1>4, ItemSets, FS_AddElement
  <2> QED  BY <1>4, <2>1, <2>2, ItemSets DEF Done
<1> QED  BY <1>2, <1>3, <1>4

\* The kinds of steps, as the invariants tell them apart.
Aside == UNCHANGED <<sub, last, job, held, asleep, since, crashes>>
Admin == sub' # sub /\ SubStep
ItemMoves(w, s) == Spawns(w, s) \/ Posted(w, s) \/ Ends(w, s)

LEMMA StepKinds ==
  ASSUME TypeOK, TableOK, [Next]_vars
  PROVE  \/ Aside
         \/ Admin
         \/ \E w \in Workers : Find(w)
         \/ \E w \in Workers : Crash(w)
         \/ \E w \in Workers, s \in Subs : ItemMoves(w, s)
         \/ Tick
<1>1. CASE UNCHANGED vars
  BY <1>1 DEF Aside, vars, bounds
<1>2. CASE Next
  <2>1. ASSUME NEW s \in Subs, NEW a \in Auths, NEW b \in Bodies, Create(s, a, b)  PROVE Admin \/ Aside
    BY <1>2, <2>1, SubSteps DEF Admin, Aside, Create, bounds
  <2>2. ASSUME NEW s \in Subs, Deactivate(s) \/ Delete(s)  PROVE Admin \/ Aside
    <3>1. sub' # sub
      <4>1. sub[s].status \in {"active", "inactive"} /\ sub'[s].status # sub[s].status
        BY <2>2 DEF Deactivate, Delete, TableOK, RowsOK, RowOK, TableRows, NoSub
      <4> QED  BY <4>1
    <3> QED  BY <1>2, <3>1, SubSteps DEF Admin
  <2>3. ASSUME NEW t \in Txs, FailedInserted(t) \/ FailedRolledBack(t)  PROVE Aside
    BY <2>3 DEF Aside, FailedInserted, FailedRolledBack, bounds
  <2>4. ASSUME NEW w \in Workers, NEW s \in Subs, DispatchItem(w, s)  PROVE ItemMoves(w, s)
    BY <2>4, ItemStep DEF ItemMoves
  <2> QED  BY <1>2, <2>1, <2>2, <2>3, <2>4 DEF Next
<1> QED  BY <1>1, <1>2

-----------------------------------------------------------------------------
(* The debounce *)

\* What an administrative step leaves of a subscription that is in a batch.
LEMMA AdminKeeps ==
  ASSUME TypeOK, TableOK, JobSub, Admin, NEW s \in Subs
  PROVE  /\ UNCHANGED <<job, held, asleep, since, overdue, failed, crashes>>
         /\ sub[s] # NoSub =>
              /\ sub'[s] # NoSub
              /\ sub'[s].kind = sub[s].kind /\ sub'[s].count = sub[s].count
              /\ sub'[s].window = sub[s].window /\ sub'[s].debounce = sub[s].debounce
              /\ sub'[s].status # "deleted" => last'[s] = last[s] /\ sub[s].status # "deleted"
         /\ sub[s] = NoSub => last'[s] = last[s]
         /\ last'[s] = last[s] \/ last'[s] = MaxAge
BY DEF Admin, SubStep, RowOK, TableRows, NoSub

\* A dispatcher that starts a cycle has no item, and gets eligible ones.
LEMMA FindLists ==
  ASSUME TypeOK, NEW w \in Workers, Find(w)
  PROVE  /\ \A s \in Subs : job[w][s] = "none"
         /\ \A s \in Subs : job'[w][s] \in {"none", "listed"}
         /\ \A s \in Subs : job'[w][s] = "listed" <=> s \in Selected
         /\ \A s \in Selected : s \in Eligible
         /\ \A v \in Workers \ {w}, s \in Subs : job'[v][s] = job[v][s]
         /\ UNCHANGED <<sub, failed, last, held, since, crashes>>
<1>0. job \in [Workers -> [Subs -> JobStates]]
  BY JobType
<1>1. \A s \in Subs : job[w][s] = "none"
  BY <1>0 DEF Find, Busy, Tasks, Listed, Started, JobStates
<1>2. \A s \in Subs : job'[w][s] = (IF s \in Selected THEN "listed" ELSE "none")
  BY <1>0 DEF Find
<1>3. \A v \in Workers \ {w} : job'[v] = job[v]
  BY <1>0 DEF Find
<1>4. \A s \in Selected : s \in Eligible
  BY DEF Selected
<1>5. UNCHANGED <<sub, failed, last, held, since, crashes>>
  BY DEF Find, bounds
<1> QED  BY <1>1, <1>2, <1>3, <1>4, <1>5

\* A dispatcher that dies has no item any more; the others go on.
LEMMA CrashDrops ==
  ASSUME TypeOK, NEW w \in Workers, Crash(w)
  PROVE  /\ \A s \in Subs : job'[w][s] = "none"
         /\ \A s \in Subs : since'[w][s] = (IF job[w][s] \in Started THEN MaxAge ELSE since[w][s])
         /\ \A v \in Workers \ {w} : job'[v] = job[v] /\ held'[v] = held[v] /\ since'[v] = since[v]
         /\ UNCHANGED <<sub, failed, last>>
         /\ crashes' = crashes + 1
<1>1. \A s \in Subs : job'[w][s] = "none"
  BY DEF Crash, TypeOK
<1>2. \A s \in Subs : since'[w][s] = (IF job[w][s] \in Started THEN MaxAge ELSE since[w][s])
  BY DEF Crash, TypeOK, Tasks
<1>3. \A v \in Workers \ {w} : job'[v] = job[v] /\ held'[v] = held[v] /\ since'[v] = since[v]
  BY DEF Crash, TypeOK
<1> QED  BY <1>1, <1>2, <1>3 DEF Crash

\* An item belongs to a rate subscription as long as it exists.
LEMMA JobSubStep ==
  ASSUME TypeOK, TableOK, JobSub, [Next]_vars
  PROVE  JobSub'
<1> SUFFICES ASSUME NEW w \in Workers, NEW s \in Subs, job'[w][s] # "none"
             PROVE  sub'[s] # NoSub /\ sub'[s].kind = "rate_threshold"
  BY DEF JobSub
<1>1. CASE Aside
  BY <1>1 DEF Aside, JobSub
<1>2. CASE Admin
  BY <1>2, AdminKeeps DEF JobSub
<1>3. ASSUME NEW v \in Workers, Find(v)  PROVE sub'[s] # NoSub /\ sub'[s].kind = "rate_threshold"
  BY <1>3, FindLists DEF JobSub, Eligible, NoSub
<1>4. ASSUME NEW v \in Workers, Crash(v)  PROVE sub'[s] # NoSub /\ sub'[s].kind = "rate_threshold"
  BY <1>4, CrashDrops DEF JobSub
<1>5. ASSUME NEW v \in Workers, NEW r \in Subs, ItemMoves(v, r)
      PROVE  sub'[s] # NoSub /\ sub'[s].kind = "rate_threshold"
  <2>1. sub' = sub /\ job[w][s] # "none"
    BY <1>5 DEF ItemMoves, Spawns, Posted, Ends, Moves, Started
  <2> QED  BY <2>1 DEF JobSub
<1>6. CASE Tick
  BY <1>6 DEF Tick, JobSub
<1> QED  BY StepKinds, <1>1, <1>2, <1>3, <1>4, <1>5, <1>6

\* What the clock does to a table of ages.
LEMMA TickAges ==
  ASSUME TypeOK, Tick
  PROVE  /\ sub' = sub /\ job' = job /\ crashes' = crashes
         /\ \A s \in Subs : last'[s] = Older(last[s])
         /\ \A w \in Workers, s \in Subs :
              /\ since'[w][s] = Older(since[w][s])
              /\ s \in Tasks(w) => held'[w][s] = held[w][s] + 1 /\ held[w][s] < Hold
         /\ \A w \in Workers : Listed(w) # {} => Full(w)
         /\ \A w \in Workers :
              Tasks(w)' = Tasks(w) /\ Listed(w)' = Listed(w) /\ Past(w)' = Past(w) /\ Done(w)' = Done(w)
<1>1. sub' = sub /\ job' = job /\ crashes' = crashes
  BY DEF Tick, bounds
<1>2. \A w \in Workers : Tasks(w)' = Tasks(w) /\ Listed(w)' = Listed(w) /\ Past(w)' = Past(w)
  BY <1>1 DEF Tasks, Listed, Past
<1>3. \A w \in Workers : Done(w)' = Done(w)
  BY <1>2 DEF Done
<1>4. \A s \in Subs : last'[s] = Older(last[s])
  BY DEF Tick
<1>5. \A w \in Workers, s \in Subs : since'[w][s] = Older(since[w][s])
  BY DEF Tick
<1>6. \A w \in Workers, s \in Subs : s \in Tasks(w) => held'[w][s] = held[w][s] + 1 /\ held[w][s] < Hold
  BY DEF Tick
<1>7. \A w \in Workers : Listed(w) # {} => Full(w)
  BY DEF Tick, Full
<1> QED  BY <1>1, <1>2, <1>3, <1>4, <1>5, <1>6, <1>7

\* A dispatcher's POST is followed by a row before its item is gone, in every
\* interleaving with the other dispatchers' rows.
LEMMA RowAfterPostStep ==
  ASSUME TypeOK, TypeOK', TableOK, JobSub, RowAfterPost, [Next]_vars
  PROVE  RowAfterPost'
<1> USE RateAssumption
<1> SUFFICES ASSUME NEW w \in Workers, NEW s \in Subs,
                    sub'[s].status # "deleted", job'[w][s] \notin {"ok", "err"}
             PROVE  last'[s] <= since'[w][s]
  BY DEF RowAfterPost
<1>0. /\ last[s] \in 0 .. MaxAge /\ since[w][s] \in 0 .. MaxAge
      /\ last'[s] \in 0 .. MaxAge /\ since'[w][s] \in 0 .. MaxAge
  BY DEF TypeOK
<1>1. CASE Aside
  BY <1>1 DEF Aside, RowAfterPost
<1>2. CASE Admin
  <2>1. job' = job /\ since' = since
    BY <1>2, AdminKeeps
  <2>2. last'[s] = last[s] /\ sub[s].status # "deleted"
    <3>1. CASE sub[s] = NoSub
      BY <1>2, <3>1, AdminKeeps DEF NoSub
    <3>2. CASE sub[s] # NoSub
      BY <1>2, <3>2, AdminKeeps
    <3> QED  BY <3>1, <3>2
  <2> QED  BY <2>1, <2>2 DEF RowAfterPost
<1>3. ASSUME NEW v \in Workers, Find(v)  PROVE last'[s] <= since'[w][s]
  <2>1. job[w][s] \notin {"ok", "err"}
    BY <1>3, FindLists
  <2> QED  BY <1>3, <2>1, FindLists DEF RowAfterPost
<1>4. ASSUME NEW v \in Workers, Crash(v)  PROVE last'[s] <= since'[w][s]
  <2>1. UNCHANGED <<sub, last>>
    BY <1>4, CrashDrops
  <2>2. CASE v = w
    <3>1. since'[w][s] = (IF job[w][s] \in Started THEN MaxAge ELSE since[w][s])
      BY <1>4, <2>2, CrashDrops
    <3>2. CASE job[w][s] \in Started
      BY <1>0, <2>1, <3>1, <3>2
    <3>3. CASE job[w][s] \notin Started
      BY <2>1, <3>1, <3>3 DEF RowAfterPost, Started
    <3> QED  BY <3>2, <3>3
  <2>3. CASE v # w
    <3>1. job'[w] = job[w] /\ since'[w] = since[w]
      BY <1>4, <2>3, CrashDrops
    <3> QED  BY <2>1, <3>1 DEF RowAfterPost
  <2> QED  BY <2>2, <2>3
<1>5. ASSUME NEW v \in Workers, NEW r \in Subs, ItemMoves(v, r)  PROVE last'[s] <= since'[w][s]
  <2>1. CASE Spawns(v, r)
    BY <2>1 DEF Spawns, Moves, RowAfterPost
  <2>2. CASE Posted(v, r)
    BY <2>2 DEF Posted, Moves, Keeps, RowAfterPost
  <2>3. CASE Ends(v, r)
    <3>1. sub' = sub /\ (v # w \/ r # s => job'[w][s] = job[w][s])
      BY <2>3 DEF Ends, Moves
    <3>2. CASE v = w /\ r = s
      BY <2>3, <3>1, <3>2, <1>0 DEF Ends, RowAfterPost
    <3>3. CASE ~(v = w /\ r = s)
      <4>1. since'[w][s] = since[w][s] /\ last[s] <= since[w][s]
        BY <2>3, <3>1, <3>3 DEF Ends, Keeps, RowAfterPost
      <4>2. last'[s] <= last[s]
        BY <2>3, <1>0 DEF Ends
      <4> QED  BY <4>1, <4>2, <1>0
    <3> QED  BY <3>2, <3>3
  <2> QED  BY <1>5, <2>1, <2>2, <2>3 DEF ItemMoves
<1>6. CASE Tick
  <2>1. /\ sub' = sub /\ job' = job
        /\ last'[s] = Older(last[s]) /\ since'[w][s] = Older(since[w][s])
    BY <1>6, TickAges
  <2>2. last[s] <= since[w][s]
    BY <2>1 DEF RowAfterPost
  <2> QED  BY <1>0, <2>1, <2>2, OlderType
<1> QED  BY StepKinds, <1>1, <1>2, <1>3, <1>4, <1>5, <1>6

\* An item stays in a batch only while its last POST is a debounce old.
LEMMA DueSinceStep ==
  ASSUME TypeOK, TypeOK', TableOK, JobSub, RowAfterPost, DueSince, [Next]_vars
  PROVE  DueSince'
<1> SUFFICES ASSUME NEW w \in Workers, NEW s \in Subs, job'[w][s] \in {"listed", "post"}
             PROVE  since'[w][s] >= sub'[s].debounce
  BY DEF DueSince
<1>0. last[s] \in 0 .. MaxAge /\ since[w][s] \in 0 .. MaxAge /\ since'[w][s] \in 0 .. MaxAge
  BY DEF TypeOK
<1>1. CASE Aside
  BY <1>1 DEF Aside, DueSince
<1>2. CASE Admin
  <2>1. job' = job /\ since' = since
    BY <1>2, AdminKeeps
  <2>2. sub[s] # NoSub
    BY <2>1 DEF JobSub
  <2> QED  BY <1>2, <2>1, <2>2, AdminKeeps DEF DueSince
<1>3. ASSUME NEW v \in Workers, Find(v)  PROVE since'[w][s] >= sub'[s].debounce
  <2>1. CASE v = w
    <3>1. s \in Eligible /\ job[w][s] = "none" /\ since' = since /\ sub' = sub
      BY <1>3, <2>1, FindLists
    <3>2. /\ sub[s].status = "active" /\ sub[s].kind = "rate_threshold" /\ last[s] >= sub[s].debounce
      BY <3>1 DEF Eligible, Debounced
    <3>3. sub[s].debounce \in 0 .. MaxAge /\ last[s] <= since[w][s]
      BY <3>1, <3>2, RateRow DEF RowAfterPost
    <3> QED  BY <1>0, <3>1, <3>2, <3>3
  <2>2. CASE v # w
    BY <1>3, <2>2, FindLists DEF DueSince
  <2> QED  BY <2>1, <2>2
<1>4. ASSUME NEW v \in Workers, Crash(v)  PROVE since'[w][s] >= sub'[s].debounce
  <2>1. v # w /\ job'[w] = job[w] /\ since'[w] = since[w] /\ sub' = sub
    BY <1>4, CrashDrops
  <2> QED  BY <2>1 DEF DueSince
<1>5. ASSUME NEW v \in Workers, NEW r \in Subs, ItemMoves(v, r)  PROVE since'[w][s] >= sub'[s].debounce
  <2>1. CASE Spawns(v, r)
    BY <2>1 DEF Spawns, Moves, DueSince
  <2>2. CASE Posted(v, r)
    BY <2>2 DEF Posted, Moves, Keeps, DueSince
  <2>3. CASE Ends(v, r)
    <3>1. v # w \/ r # s
      BY <2>3 DEF Ends, Moves
    <3> QED  BY <2>3, <3>1 DEF Ends, Moves, Keeps, DueSince
  <2> QED  BY <1>5, <2>1, <2>2, <2>3 DEF ItemMoves
<1>6. CASE Tick
  <2>1. sub' = sub /\ job' = job /\ since'[w][s] = Older(since[w][s])
    BY <1>6, TickAges
  <2>2. since[w][s] >= sub[s].debounce
    BY <2>1 DEF DueSince
  <2>3. sub[s].debounce \in 0 .. MaxAge
    BY <2>1, RateRow DEF JobSub
  <2>4. since[w][s] <= Older(since[w][s])
    BY <1>0, OlderType
  <2> QED  BY <1>0, <2>1, <2>2, <2>3, <2>4
<1> QED  BY StepKinds, <1>1, <1>2, <1>3, <1>4, <1>5, <1>6

-----------------------------------------------------------------------------
(* The race of dispatchers *)

\* No more tasks than slots.
LEMMA SlotsStep ==
  ASSUME TypeOK, TypeOK', TableOK, SlotsOK, [Next]_vars
  PROVE  SlotsOK'
<1> USE RateAssumption
<1> SUFFICES ASSUME NEW w \in Workers  PROVE Cardinality(Tasks(w)') <= MaxPosts
  BY DEF SlotsOK
<1>0. Cardinality(Tasks(w)) \in Nat /\ Cardinality(Tasks(w)) <= MaxPosts
  BY CycleSets DEF SlotsOK
<1>1. CASE job' = job
  BY <1>0, <1>1 DEF Tasks
<1>2. CASE Tasks(w)' = {}
  BY <1>2, FS_EmptySet
<1>3. ASSUME NEW v \in Workers, Find(v)  PROVE Tasks(w)' = {} \/ Tasks(w)' = Tasks(w)
  <2>1. CASE v = w
    BY <1>3, <2>1, FindLists DEF Tasks, Started
  <2>2. CASE v # w
    <3>1. \A x \in Workers \ {v}, t \in Subs : job'[x][t] = job[x][t]
      BY <1>3, FindLists
    <3> QED  BY <2>2, <3>1 DEF Tasks
  <2> QED  BY <2>1, <2>2
<1>4. ASSUME NEW v \in Workers, Crash(v)  PROVE Tasks(w)' = {} \/ Tasks(w)' = Tasks(w)
  BY <1>4, CrashDrops DEF Tasks, Started
<1>5. ASSUME NEW v \in Workers, NEW r \in Subs, ItemMoves(v, r)  PROVE Cardinality(Tasks(w)') <= MaxPosts
  <2>1. CASE v # w
    BY <1>0, <1>5, <2>1, ItemSets DEF ItemMoves
  <2>2. CASE v = w
    BY <1>0, <1>5, <2>2, ItemSizes DEF ItemMoves, Spawns
  <2> QED  BY <2>1, <2>2
<1>6. Aside => job' = job
  BY DEF Aside
<1>7. Admin => job' = job
  BY DEF Admin, SubStep
<1>8. Tick => job' = job
  BY DEF Tick
<1> QED  BY StepKinds, <1>0, <1>1, <1>2, <1>3, <1>4, <1>5, <1>6, <1>7, <1>8

\* A step that leaves a cycle alone, and of an item's last row changes at most
\* that a new one comes.
LEMMA RaceFrame ==
  ASSUME TypeOK, TypeOK', NEW w \in Workers, NEW s \in Subs, RaceAt(w, s),
         job'[w][s] = job[w][s], Tasks(w)' = Tasks(w), Past(w)' = Past(w),
         \A t \in Tasks(w) : held'[w][t] = held[w][t],
         sub'[s].debounce = sub[s].debounce,
         last'[s] = last[s] \/ last'[s] = 0
  PROVE  RaceAt(w, s)'
<1> USE RateAssumption
<1>1. Done(w)' = Done(w) /\ Full(w)' = Full(w) /\ Done(w) \in Nat
  BY CycleSets DEF Done, Full
<1>2. Hold * Done(w) \in Nat
  BY <1>1, Times
<1>3. \A t \in Subs : held[w][t] \in Nat /\ held'[w][t] \in Nat
  BY DEF TypeOK
<1>4. job[w][s] = "post" => s \in Tasks(w)
  BY DEF Tasks, Started
<1>5. \A t \in Tasks(w) : t \in Subs
  BY DEF Tasks
<1>6. CASE last'[s] = last[s]
  BY <1>1, <1>4, <1>6 DEF RaceAt
<1>7. CASE last'[s] = 0
  <2>1. \A t \in Subs : last'[s] <= Hold * Done(w) + held'[w][t]
    <3> TAKE t \in Subs
    <3> QED  BY <1>2, <1>3, <1>7
  <2>2. last'[s] <= Hold * Done(w)
    BY <1>2, <1>7
  <2>3. /\ \A t \in Tasks(w)' : last'[s] <= Hold * Done(w)' + held'[w][t]
        /\ last'[s] <= Hold * Done(w)'
        /\ last'[s] <= Hold * Done(w)' + held'[w][s]
    BY <1>1, <1>5, <2>1, <2>2
  <2> QED  BY <2>3 DEF RaceAt
<1> QED  BY <1>6, <1>7

\* The bound on a race is kept: only the end of an item lets time pass that
\* is not counted by the tasks of the moment, and it counts Hold for it.
LEMMA RaceStep ==
  ASSUME TypeOK, TypeOK', TableOK, TableOK', JobSub, JobSub', SlotsOK, RaceOK, [Next]_vars,
         NEW w \in Workers, NEW s \in Subs
  PROVE  RaceAt(w, s)'
<1> USE RateAssumption
<1>0. /\ last[s] \in 0 .. MaxAge /\ last'[s] \in 0 .. MaxAge
      /\ Done(w) \in Nat /\ Hold * Done(w) \in Nat /\ Hold * (Done(w) + 1) = Hold * Done(w) + Hold
      /\ \A t \in Subs : held[w][t] \in 0 .. Hold /\ held'[w][t] \in 0 .. Hold
      /\ \A t \in Tasks(w) : t \in Subs
      /\ Cardinality(Tasks(w)) \in Nat /\ Cardinality(Tasks(w)) <= MaxPosts
  BY CycleSets, Times DEF TypeOK, Tasks, SlotsOK
<1>1. RaceAt(w, s)
  BY DEF RaceOK
<1>2. CASE Aside
  <2>1. Tasks(w)' = Tasks(w) /\ Past(w)' = Past(w)
    BY <1>2 DEF Aside, Tasks, Past, Listed
  <2> QED  BY <1>1, <1>2, <2>1, RaceFrame DEF Aside
<1>3. CASE Admin
  <2>1. job' = job /\ held' = held
    BY <1>3, AdminKeeps
  <2>2. Tasks(w)' = Tasks(w) /\ Past(w)' = Past(w)
    BY <2>1 DEF Tasks, Past, Listed
  <2>3. CASE job[w][s] = "none"
    BY <2>1, <2>3 DEF RaceAt
  <2>4. CASE job[w][s] # "none"
    <3>1. sub[s] # NoSub /\ sub'[s].kind = "rate_threshold"
      BY <2>1, <2>4 DEF JobSub
    <3>2. sub'[s].debounce = sub[s].debounce /\ (last'[s] = last[s] \/ last'[s] = MaxAge)
      BY <1>3, <3>1, AdminKeeps
    <3>3. CASE last'[s] = MaxAge
      <4>1. sub'[s].debounce \in 0 .. MaxAge
        BY <3>1, RateRow DEF TableOK, RowsOK, RowOK, SchemaCheck, NoSub, TableRows, Fields
      <4>2. ~(last'[s] < sub'[s].debounce)
        BY <3>3, <4>1
      <4> QED  BY <4>2 DEF RaceAt
    <3>4. CASE last'[s] = last[s]
      BY <1>1, <2>1, <2>2, <3>2, <3>4, RaceFrame
    <3> QED  BY <3>2, <3>3, <3>4
  <2> QED  BY <2>3, <2>4
<1>4. ASSUME NEW v \in Workers, Find(v)  PROVE RaceAt(w, s)'
  <2>1. CASE v = w
    <3>1. CASE job'[w][s] = "listed"
      <4>1. /\ sub' = sub /\ last' = last /\ s \in Eligible
        BY <1>4, <2>1, <3>1, FindLists
      <4>2. sub[s].kind = "rate_threshold" /\ last[s] >= sub[s].debounce
        BY <4>1 DEF Eligible, Debounced
      <4>3. sub[s].debounce \in 0 .. MaxAge
        BY <4>2, RateRow
      <4> QED  BY <1>0, <4>1, <4>2, <4>3 DEF RaceAt
    <3>2. CASE job'[w][s] = "none"
      BY <3>2 DEF RaceAt
    <3> QED  BY <1>4, <2>1, <3>1, <3>2, FindLists
  <2>2. CASE v # w
    <3>1. \A t \in Subs : job'[w][t] = job[w][t]
      <4>1. \A x \in Workers \ {v}, t \in Subs : job'[x][t] = job[x][t]
        BY <1>4, FindLists
      <4> QED  BY <2>2, <4>1
    <3>2. Tasks(w)' = Tasks(w) /\ Past(w)' = Past(w)
      BY <3>1 DEF Tasks, Past, Listed
    <3>3. sub' = sub /\ last' = last /\ held' = held
      BY <1>4, FindLists
    <3> QED  BY <1>1, <3>1, <3>2, <3>3, RaceFrame
  <2> QED  BY <2>1, <2>2
<1>5. ASSUME NEW v \in Workers, Crash(v)  PROVE RaceAt(w, s)'
  <2>1. CASE v = w
    <3>1. job'[w][s] = "none"
      BY <1>5, <2>1, CrashDrops
    <3> QED  BY <3>1 DEF RaceAt
  <2>2. CASE v # w
    <3>1. job'[w] = job[w] /\ held'[w] = held[w] /\ sub' = sub /\ last' = last
      BY <1>5, <2>2, CrashDrops
    <3>2. Tasks(w)' = Tasks(w) /\ Past(w)' = Past(w)
      BY <3>1 DEF Tasks, Past, Listed
    <3> QED  BY <1>1, <3>1, <3>2, RaceFrame
  <2> QED  BY <2>1, <2>2
<1>6. ASSUME NEW v \in Workers, NEW r \in Subs, ItemMoves(v, r), v # w  PROVE RaceAt(w, s)'
  <2>1. Tasks(w)' = Tasks(w) /\ Past(w)' = Past(w)
    BY <1>6, ItemSets DEF ItemMoves
  <2>2. job'[w][s] = job[w][s] /\ sub' = sub /\ (last'[s] = last[s] \/ last'[s] = 0)
    BY <1>6 DEF ItemMoves, Spawns, Posted, Ends, Moves
  <2>3. \A t \in Tasks(w) : held'[w][t] = held[w][t]
    BY <1>6, <1>0 DEF ItemMoves, Spawns, Posted, Ends, Keeps
  <2> QED  BY <1>1, <2>1, <2>2, <2>3, RaceFrame
<1>7. ASSUME NEW r \in Subs, Spawns(w, r)  PROVE RaceAt(w, s)'
  <2>1. /\ Tasks(w)' = Tasks(w) \cup {r} /\ Done(w)' = Done(w) /\ ~Full(w)
    BY <1>0, <1>7, ItemSets, ItemSizes DEF Full, Spawns
  <2>2. /\ sub' = sub /\ last' = last /\ held'[w][r] = 0
        /\ \A t \in Subs \ {r} : held'[w][t] = held[w][t] /\ job'[w][t] = job[w][t]
        /\ job[w][r] = "listed" /\ job'[w][r] = "post"
    BY <1>7 DEF Spawns, Moves, Keeps
  <2>3. CASE s = r
    <3>1. last'[s] < sub'[s].debounce => last'[s] <= Hold * Done(w)
      BY <1>1, <2>1, <2>2, <2>3 DEF RaceAt
    <3> QED  BY <1>0, <2>1, <2>2, <2>3, <3>1 DEF RaceAt
  <2>4. CASE s # r /\ job[w][s] = "listed"
    <3>1. last'[s] < sub'[s].debounce => last'[s] <= Hold * Done(w)
      BY <1>1, <2>1, <2>2, <2>4 DEF RaceAt
    <3>2. \A t \in Tasks(w)' : held'[w][t] >= 0 /\ held'[w][t] \in Int
      <4> TAKE t \in Tasks(w)'
      <4>1. t \in Subs
        BY <1>0, <2>1
      <4> QED  BY <1>0, <4>1
    <3> QED  BY <1>0, <2>1, <2>2, <2>4, <3>1, <3>2 DEF RaceAt
  <2>5. CASE s # r /\ job[w][s] # "listed"
    BY <1>1, <2>1, <2>2, <2>5 DEF RaceAt
  <2> QED  BY <2>3, <2>4, <2>5
<1>8. ASSUME NEW r \in Subs, Posted(w, r)  PROVE RaceAt(w, s)'
  <2>1. /\ Tasks(w)' = Tasks(w) /\ Past(w)' = Past(w)
    BY <1>8, ItemSets
  <2>2. /\ sub' = sub /\ last' = last /\ held' = held
        /\ job'[w][r] \in {"ok", "err"}
        /\ \A t \in Subs \ {r} : job'[w][t] = job[w][t]
    BY <1>8 DEF Posted, Moves, Keeps
  <2>3. CASE s = r
    BY <2>2, <2>3 DEF RaceAt
  <2>4. CASE s # r
    BY <1>1, <2>1, <2>2, <2>4, RaceFrame
  <2> QED  BY <2>3, <2>4
<1>9. ASSUME NEW r \in Subs, Ends(w, r)  PROVE RaceAt(w, s)'
  <2>1. /\ Done(w)' = Done(w) + 1 /\ r \in Tasks(w) /\ ~Full(w)'
    BY <1>0, <1>9, ItemSets, ItemSizes DEF Full
  <2>2. /\ sub' = sub /\ job'[w][r] = "none"
        /\ \A t \in Subs \ {r} : held'[w][t] = held[w][t] /\ job'[w][t] = job[w][t] /\ last'[t] = last[t]
    BY <1>9 DEF Ends, Moves, Keeps
  <2>3. CASE s = r
    BY <2>2, <2>3 DEF RaceAt
  <2>4. CASE s # r
    <3>1. ASSUME last[s] < sub[s].debounce, job[w][s] = "listed"  PROVE last[s] <= Hold * Done(w) + Hold
      <4>1. CASE Full(w)
        <5>1. last[s] <= Hold * Done(w) + held[w][r]
          BY <1>1, <2>1, <3>1, <4>1 DEF RaceAt
        <5> QED  BY <1>0, <5>1
      <4>2. CASE ~Full(w)
        <5>1. last[s] <= Hold * Done(w)
          BY <1>1, <3>1, <4>2 DEF RaceAt
        <5> QED  BY <1>0, <5>1
      <4> QED  BY <4>1, <4>2
    <3>2. ASSUME last[s] < sub[s].debounce, job[w][s] = "post"
          PROVE  last[s] <= (Hold * Done(w) + Hold) + held[w][s]
      <4>1. last[s] <= Hold * Done(w) + held[w][s]
        BY <1>1, <3>2 DEF RaceAt
      <4> QED  BY <1>0, <4>1
    <3>3. Hold * Done(w)' = Hold * Done(w) + Hold
      BY <1>0, <2>1
    <3> QED  BY <2>1, <2>2, <2>4, <3>1, <3>2, <3>3 DEF RaceAt
  <2> QED  BY <2>3, <2>4
<1>10. CASE Tick
  <2>1. /\ sub' = sub /\ job' = job /\ last'[s] = Older(last[s])
        /\ Tasks(w)' = Tasks(w) /\ Done(w)' = Done(w)
        /\ \A t \in Tasks(w) : held'[w][t] = held[w][t] + 1
    BY <1>0, <1>10, TickAges
  <2>2. last[s] <= last'[s] /\ last'[s] <= last[s] + 1
    BY <1>0, <2>1, OlderType
  <2>3. Full(w)' = Full(w)
    BY <2>1 DEF Full
  <2> SUFFICES ASSUME last'[s] < sub'[s].debounce, job[w][s] \in {"listed", "post"}
               PROVE  RaceAt(w, s)'
    BY <2>1 DEF RaceAt
  <2>4. sub[s].debounce \in 0 .. MaxAge /\ last[s] < sub[s].debounce
    <3>1. sub[s].debounce \in 0 .. MaxAge
      BY RateRow DEF JobSub
    <3> QED  BY <1>0, <2>1, <2>2, <3>1
  <2>5. CASE job[w][s] = "listed"
    <3>1. Full(w)
      BY <1>10, <2>5, TickAges DEF Listed
    <3>2. \A t \in Tasks(w) : last[s] <= Hold * Done(w) + held[w][t]
      BY <1>1, <2>4, <2>5, <3>1 DEF RaceAt
    <3>3. ASSUME NEW t \in Tasks(w)  PROVE last'[s] <= Hold * Done(w) + held'[w][t]
      <4>1. last[s] <= Hold * Done(w) + held[w][t] /\ held'[w][t] = held[w][t] + 1 /\ t \in Subs
        BY <1>0, <2>1, <3>2
      <4>2. held[w][t] \in Int
        BY <1>0, <4>1
      <4> QED  BY <1>0, <2>2, <4>1, <4>2
    <3> QED  BY <2>1, <2>3, <2>5, <3>1, <3>3 DEF RaceAt
  <2>6. CASE job[w][s] = "post"
    <3>1. s \in Tasks(w) /\ last[s] <= Hold * Done(w) + held[w][s]
      BY <1>1, <2>4, <2>6 DEF RaceAt, Tasks, Started
    <3>2. last'[s] <= Hold * Done(w) + held'[w][s]
      BY <1>0, <2>1, <2>2, <3>1
    <3> QED  BY <2>1, <2>6, <3>2 DEF RaceAt
  <2> QED  BY <2>5, <2>6
<1> QED  BY StepKinds, <1>2, <1>3, <1>4, <1>5, <1>6, <1>7, <1>8, <1>9, <1>10 DEF ItemMoves

-----------------------------------------------------------------------------
(* The theorems of DispatchInv *)

\* Nothing has been created, posted or recorded yet.
LEMMA InitInv == Init => DispatchInv
<1> SUFFICES ASSUME Init  PROVE DispatchInv
  OBVIOUS
<1> USE RateAssumption
<1>1. TypeOK
  BY DEF Init, TypeOK, NoSub, Started, Absent
<1>2. TableOK
  BY DEF Init, TableOK, RowsOK
<1>3. \A w \in Workers, s \in Subs : job[w][s] = "none" /\ last[s] = MaxAge /\ since[w][s] = MaxAge
  BY DEF Init
<1>4. JobSub /\ RowAfterPost /\ DueSince
  BY <1>3 DEF JobSub, RowAfterPost, DueSince
<1>5. SlotsOK
  <2>1. \A w \in Workers : Tasks(w) = {}
    BY <1>3 DEF Tasks, Started
  <2>2. Cardinality({}) = 0 /\ 0 <= MaxPosts
    BY FS_EmptySet
  <2> QED  BY <2>1, <2>2, Zenon DEF SlotsOK
<1>6. RaceOK
  BY <1>3 DEF RaceOK, RaceAt
<1> QED  BY <1>1, <1>2, <1>4, <1>5, <1>6 DEF DispatchInv

\* Every step keeps DispatchInv.
LEMMA StepInv == DispatchInv /\ [Next]_vars => DispatchInv'
<1> SUFFICES ASSUME DispatchInv, [Next]_vars  PROVE DispatchInv'
  OBVIOUS
<1>0. TypeOK /\ TableOK /\ JobSub /\ SlotsOK /\ RowAfterPost /\ DueSince /\ RaceOK
  BY DEF DispatchInv
<1>1. TypeOK' /\ TableOK'
  <2>1. CASE Next
    BY <1>0, <2>1, TypeStep, SubSteps
  <2>2. CASE UNCHANGED vars
    BY <1>0, <2>2 DEF vars, bounds, TypeOK, TableOK, RowsOK
  <2> QED  BY <2>1, <2>2
<1>2. JobSub' /\ SlotsOK' /\ RowAfterPost' /\ DueSince'
  BY <1>0, <1>1, JobSubStep, SlotsStep, RowAfterPostStep, DueSinceStep
<1>3. RaceOK'
  <2>1. \A w \in Workers, s \in Subs : RaceAt(w, s)'
    BY <1>0, <1>1, <1>2, RaceStep
  <2> QED  BY <2>1 DEF RaceOK
<1> QED  BY <1>1, <1>2, <1>3 DEF DispatchInv

\* DispatchInv holds in every reachable state.
THEOREM Invariance == Spec => []DispatchInv
BY InitInv, StepInv, PTL DEF Spec

\* The tables, the items and the clocks keep their types, whatever the number
\* of dispatchers, crashes and API calls.
THEOREM TypeCorrect == Spec => []TypeOK
<1>1. DispatchInv => TypeOK
  BY DEF DispatchInv
<1> QED  BY <1>1, Invariance, PTL

\* No INSERT of create_alert_subscription meets the CHECK constraint of the
\* table, whatever bodies the clients send.
THEOREM InsertsPassCheck == Spec => []AcceptedPassesCheck
<1>1. DispatchInv => AcceptedPassesCheck
  BY DEF DispatchInv, TableOK, RowsOK, RowOK, AcceptedPassesCheck
<1> QED  BY <1>1, Invariance, PTL

\* A dispatcher does not post for a subscription twice within the debounce,
\* for any number of dispatchers that do not know of each other.
THEOREM Debounce == Spec => DebounceHolds
<1>1. ASSUME DispatchInv, [Next]_vars
      PROVE  [\A w \in Workers, s \in Subs : Posts(w, s) => since[w][s] >= sub[s].debounce]_vars
  BY <1>1 DEF DispatchInv, DueSince, Posts
<1> QED  BY <1>1, Invariance, PTL DEF Spec, DebounceHolds

\* A POST inside a debounce that another dispatcher has started comes at most
\* Hold for every subscription after that start.
THEOREM RacesAreShort == Spec => []RaceIsShort
<1>1. ASSUME DispatchInv  PROVE RaceIsShort
  <2> USE RateAssumption
  <2> SUFFICES ASSUME NEW w \in Workers, NEW s \in Subs, job[w][s] = "post", last[s] < sub[s].debounce
               PROVE  last[s] <= CycleTime
    BY DEF RaceIsShort
  <2>1. last[s] <= Hold * Done(w) + held[w][s]
    BY <1>1 DEF DispatchInv, RaceOK, RaceAt
  <2>2. held[w][s] \in 0 .. Hold /\ last[s] \in Nat
    BY <1>1 DEF DispatchInv, TypeOK
  <2>3. s \in Tasks(w)
    BY DEF Tasks, Started
  <2>4. Done(w) \in Nat /\ Cardinality(Subs) \in Nat /\ Done(w) + 1 <= Cardinality(Subs)
    BY <2>3, CycleSets
  <2>5. Hold * (Done(w) + 1) = Hold * Done(w) + Hold /\ Hold * Done(w) \in Nat
    BY <2>4, Times
  <2>6. Hold * (Done(w) + 1) <= Hold * Cardinality(Subs)
    BY <2>4, Times
  <2>7. Hold * Cardinality(Subs) = Cardinality(Subs) * Hold /\ Hold * Cardinality(Subs) \in Nat
    BY <2>4
  <2> QED  BY <2>1, <2>2, <2>5, <2>6, <2>7 DEF CycleTime
<1> QED  BY <1>1, Invariance, PTL

-----------------------------------------------------------------------------
(* The pick-up of a burst *)

\* The others a cycle is through with, counted.
LEMMA OthersCount ==
  ASSUME NEW A \in SUBSET Subs, NEW s \in Subs
  PROVE  /\ Others(A, s) \in Nat /\ Cardinality(Subs) - 1 \in Nat
         /\ Others(A, s) <= Cardinality(Subs) - 1
         /\ A = {} => Others(A, s) = Cardinality(Subs) - 1
         /\ \A t \in A \ {s} : /\ Others(A \ {t}, s) = Others(A, s) + 1
                               /\ Others(A, s) + 1 <= Cardinality(Subs) - 1
<1> USE RateAssumption
<1> DEFINE B == Subs \ (A \cup {s})
<1>1. IsFiniteSet(Subs) /\ IsFiniteSet(Subs \ {s}) /\ IsFiniteSet(B)
  BY FS_Subset
<1>2. Cardinality(Subs) \in Nat /\ Cardinality(Subs \ {s}) \in Nat /\ Cardinality(B) \in Nat
  BY <1>1, FS_CardinalityType
<1>3. Cardinality(Subs \ {s}) = Cardinality(Subs) - 1
  BY <1>1, FS_RemoveElement
<1>4. Cardinality(B) <= Cardinality(Subs \ {s})
  <2>1. B \subseteq Subs \ {s}
    OBVIOUS
  <2> QED  BY <1>1, <2>1, FS_Subset
<1>5. A = {} => B = Subs \ {s}
  OBVIOUS
<1>6. ASSUME NEW t \in A \ {s}
      PROVE  Others(A \ {t}, s) = Cardinality(B) + 1 /\ Cardinality(B) + 1 <= Cardinality(Subs) - 1
  <2>1. Subs \ ((A \ {t}) \cup {s}) = B \cup {t} /\ t \notin B /\ B \cup {t} \subseteq Subs \ {s}
    OBVIOUS
  <2>2. Cardinality(B \cup {t}) = Cardinality(B) + 1
    BY <1>1, <2>1, FS_AddElement
  <2>3. Cardinality(B \cup {t}) <= Cardinality(Subs \ {s})
    BY <1>1, <2>1, FS_Subset
  <2> QED  BY <1>3, <2>1, <2>2, <2>3 DEF Others
<1> QED  BY <1>2, <1>3, <1>4, <1>5, <1>6 DEF Others

\* A batch is a set of subscriptions.
LEMMA BatchSubs ==
  ASSUME NEW w \in Workers
  PROVE  /\ InBatch(w) \in SUBSET Subs /\ InBatch(w)' \in SUBSET Subs
         /\ Tasks(w) \subseteq InBatch(w) /\ Tasks(w)' \subseteq InBatch(w)'
         /\ Listed(w) \subseteq InBatch(w) /\ Listed(w)' \subseteq InBatch(w)'
BY DEF InBatch, Tasks, Listed

\* Who has not waited has not waited too long.
LEMMA FreshWait ==
  ASSUME TypeOK', NEW w \in Workers, NEW s \in Subs, overdue'[s] = 0
  PROVE  WaitAt(w, s)'
<1> USE RateAssumption
<1> DEFINE D == Others(InBatch(w)', s)
<1>1. D \in Nat /\ Cardinality(Subs) - 1 \in Nat
  BY BatchSubs, OthersCount
<1>2. Hold * D \in Nat /\ Hold * (Cardinality(Subs) - 1) \in Nat
  BY <1>1, Times
<1>3. asleep'[w] \in Nat /\ \A t \in Subs : held'[w][t] \in Nat
  <2>1. asleep' \in [Workers -> 0 .. Poll] /\ held' \in [Workers -> [Subs -> 0 .. Hold]]
    BY DEF TypeOK
  <2>2. asleep'[w] \in 0 .. Poll /\ \A t \in Subs : held'[w][t] \in 0 .. Hold
    BY <2>1
  <2> QED  BY <2>2
<1>4. ASSUME NEW t \in Tasks(w)'  PROVE 0 <= Hold * D + held'[w][t]
  <2>1. held'[w][t] \in Nat
    BY <1>3 DEF Tasks
  <2> QED  BY <1>2, <2>1
<1>5. 0 <= Hold * (Cardinality(Subs) - 1) + asleep'[w]
  BY <1>2, <1>3
<1>6. Others(InBatch(w), s)' = D
  BY DEF Others
<1> HIDE DEF D
<1>7. BusyWait(w, s)'
  BY <1>2, <1>4, <1>6 DEF BusyWait
<1>8. IdleWait(w, s)'
  BY <1>5 DEF IdleWait
<1> QED  BY <1>7, <1>8 DEF WaitAt

\* A step that leaves a cycle and the wait of s alone.
LEMMA WaitFrame ==
  ASSUME NEW w \in Workers, NEW s \in Subs, WaitAt(w, s),
         Tasks(w)' = Tasks(w), Listed(w)' = Listed(w),
         \A t \in Tasks(w) : held'[w][t] = held[w][t],
         asleep'[w] = asleep[w], overdue'[s] = overdue[s]
  PROVE  WaitAt(w, s)'
<1>1. InBatch(w)' = InBatch(w) /\ Full(w)' = Full(w)
  BY DEF InBatch, Full
<1>2. Others(InBatch(w), s)' = Others(InBatch(w), s)
  BY <1>1 DEF Others
<1> QED  BY <1>1, <1>2 DEF WaitAt, BusyWait, IdleWait

\* The wait of a subscription that is still waiting is within the bound.
LEMMA WaitBound ==
  ASSUME TypeOK', NEW w \in Workers, NEW s \in Subs, Waiting(s)', WaitAt(w, s)'
  PROVE  overdue'[s] <= Poll + (Cardinality(Subs) - 1) * Hold
<1> USE RateAssumption
<1> DEFINE D == Others(InBatch(w)', s)
           N == Cardinality(Subs) - 1
<1>1. D \in Nat /\ N \in Nat /\ \A t \in InBatch(w)' \ {s} : D + 1 <= N
  BY BatchSubs, OthersCount
<1>2. Hold * D \in Nat /\ Hold * N \in Nat /\ Hold * (D + 1) = Hold * D + Hold
  BY <1>1, Times
<1>3. N * Hold = Hold * N
  BY <1>1
<1>4. D + 1 <= N => Hold * (D + 1) <= Hold * N
  BY <1>1, Times
<1>5. Others(InBatch(w), s)' = D
  BY DEF Others
<1>6. s \notin InBatch(w)'
  BY DEF Waiting, InBatch, Tasks, Listed, Started
<1>7. /\ asleep'[w] \in 0 .. Poll /\ overdue'[s] \in Nat
      /\ \A t \in Subs : held'[w][t] \in 0 .. Hold
  BY DEF TypeOK
<1> HIDE DEF D, N
<1>8. CASE InBatch(w)' = {}
  <2>1. overdue'[s] <= Hold * N + asleep'[w]
    BY <1>8 DEF WaitAt, IdleWait, N
  <2>2. overdue'[s] <= Poll + N * Hold
    BY <2>1, <1>2, <1>3, <1>7
  <2> QED  BY <2>2 DEF N
<1>9. CASE InBatch(w)' # {}
  <2>1. /\ \A t \in Tasks(w)' : overdue'[s] <= Hold * D + held'[w][t]
        /\ Listed(w)' # {} /\ ~Full(w)' => overdue'[s] <= Hold * D
    BY <1>5, <1>9 DEF WaitAt, BusyWait
  <2>2. PICK t \in InBatch(w)' : TRUE
    BY <1>9
  <2>3. Hold * D + Hold <= Hold * N
    BY <1>1, <1>2, <1>4, <1>6, <2>2
  <2>4. overdue'[s] <= Hold * D + Hold
    <3>1. CASE Tasks(w)' # {}
      <4>1. PICK u \in Tasks(w)' : TRUE
        BY <3>1
      <4>2. u \in Subs
        BY BatchSubs, <4>1
      <4> QED  BY <1>2, <1>7, <2>1, <4>1, <4>2
    <3>2. CASE Tasks(w)' = {}
      <4>1. Cardinality({}) = 0 /\ MaxPosts # 0
        BY FS_EmptySet
      <4>2. ~Full(w)' /\ Listed(w)' # {}
        BY <1>9, <3>2, <4>1 DEF Full, InBatch
      <4> QED  BY <1>2, <1>7, <2>1, <4>2
    <3> QED  BY <3>1, <3>2
  <2>5. overdue'[s] <= Poll + N * Hold
    BY <1>2, <1>3, <1>7, <2>3, <2>4
  <2> QED  BY <2>5 DEF N
<1> QED  BY <1>8, <1>9

\* Whether a subscription waits depends on its row, its last dispatch, the
\* failed transactions and its items.
LEMMA SameWaiting ==
  ASSUME NEW s \in Subs, sub'[s] = sub[s], last'[s] = last[s], failed' = failed,
         \A w \in Workers : job'[w][s] = job[w][s]
  PROVE  Waiting(s)' <=> Waiting(s)
<1>1. InWindow(s)' = InWindow(s)
  BY DEF InWindow
<1> QED  BY <1>1 DEF Waiting, Debounced

\* A new failed transaction takes no subscription's window below its
\* threshold: the row it replaces is out of every window.
LEMMA InsertKeepsWaiting ==
  ASSUME TypeOK, TableOK, NEW t \in Txs, FailedInserted(t), NEW s \in Subs, Waiting(s)
  PROVE  Waiting(s)'
<1> USE RateAssumption
<1>1. sub' = sub /\ last' = last /\ job' = job /\ \A u \in Txs \ {t} : failed'[u] = failed[u]
  BY DEF FailedInserted, TypeOK
<1>2. sub[s].window \in Nat /\ sub[s].window < MaxAge /\ sub[s].count \in Nat
  BY RateRow DEF Waiting
<1>3. t \notin InWindow(s)
  BY <1>2 DEF FailedInserted, InWindow, Absent
<1>4. InWindow(s) \subseteq InWindow(s)'
  BY <1>1, <1>3 DEF InWindow
<1>5. IsFiniteSet(InWindow(s)') /\ IsFiniteSet(InWindow(s))
  <2>1. InWindow(s) \subseteq Txs /\ InWindow(s)' \subseteq Txs
    BY DEF InWindow
  <2> QED  BY <2>1, FS_Subset
<1>6. /\ Cardinality(InWindow(s)) <= Cardinality(InWindow(s)')
      /\ Cardinality(InWindow(s)) \in Nat /\ Cardinality(InWindow(s)') \in Nat
  BY <1>4, <1>5, FS_Subset, FS_CardinalityType
<1>7. Cardinality(InWindow(s)') >= sub[s].count
  BY <1>2, <1>6 DEF Waiting
<1> QED  BY <1>1, <1>7 DEF Waiting, Debounced

\* A rollback starts no wait.
LEMMA RollbackStartsNone ==
  ASSUME TypeOK, TableOK, NEW t \in Txs, FailedRolledBack(t), NEW s \in Subs, Waiting(s)'
  PROVE  Waiting(s)
<1> USE RateAssumption
<1>1. sub' = sub /\ last' = last /\ job' = job /\ failed' = [failed EXCEPT ![t] = Absent]
  BY DEF FailedRolledBack
<1>2. sub[s].count \in Nat
  BY <1>1, RateRow DEF Waiting
<1>3. InWindow(s)' \subseteq InWindow(s)
  BY <1>1 DEF InWindow, TypeOK
<1>4. IsFiniteSet(InWindow(s)') /\ IsFiniteSet(InWindow(s))
  <2>1. InWindow(s) \subseteq Txs /\ InWindow(s)' \subseteq Txs
    BY DEF InWindow
  <2> QED  BY <2>1, FS_Subset
<1>5. /\ Cardinality(InWindow(s)') <= Cardinality(InWindow(s))
      /\ Cardinality(InWindow(s)) \in Nat /\ Cardinality(InWindow(s)') \in Nat
  BY <1>3, <1>4, FS_Subset, FS_CardinalityType
<1>6. Cardinality(InWindow(s)) >= sub[s].count
  BY <1>1, <1>2, <1>5 DEF Waiting
<1> QED  BY <1>1, <1>6 DEF Waiting, Debounced

\* With room for every subscription a batch takes all that are due.
LEMMA RoomForAll ==
  ASSUME Room
  PROVE  Selected = Eligible
<1> USE RateAssumption
<1> SUFFICES ASSUME NEW s \in Eligible  PROVE Cardinality({r \in Eligible : r < s}) < Batch
  BY DEF Selected
<1> DEFINE L == {r \in Eligible : r < s}
<1>1. s \in Subs /\ L \subseteq Subs /\ s \notin L /\ L \cup {s} \subseteq Subs
  BY DEF Eligible
<1>2. IsFiniteSet(Subs) /\ IsFiniteSet(L)
  BY <1>1, FS_Subset
<1>3. Cardinality(L \cup {s}) = Cardinality(L) + 1 /\ Cardinality(L \cup {s}) <= Cardinality(Subs)
  BY <1>1, <1>2, FS_AddElement, FS_Subset
<1>4. Cardinality(L) \in Nat /\ Cardinality(Subs) \in Nat
  BY <1>2, FS_CardinalityType
<1> QED  BY <1>3, <1>4 DEF Room

\* Inside the window and without crashes: what the parts of BurstInv say of s.
BurstAt(s) ==
  /\ overdue[s] > 0 => Waiting(s) \/ sub[s].status \in {"inactive", "deleted"}
  /\ sub[s] = NoSub => overdue[s] = 0
  /\ \A w \in Workers : job[w][s] # "none" => overdue[s] = 0
  /\ Waiting(s) => \A w \in Workers : WaitAt(w, s)
  /\ overdue[s] <= Poll + (Cardinality(Subs) - 1) * Hold

LEMMA BurstParts == (\A s \in Subs : BurstAt(s)) <=> (OverdueOK /\ WaitOK /\ PickedUp)
BY Zenon DEF BurstAt, OverdueOK, WaitOK, PickedUp

\* A subscription that does not wait, or only just began to, is in order.
LEMMA NotOverdue ==
  ASSUME TypeOK', NEW s \in Subs, overdue'[s] = 0
  PROVE  BurstAt(s)'
<1> USE RateAssumption
<1>1. \A w \in Workers : WaitAt(w, s)'
  BY FreshWait
<1>2. Cardinality(Subs) - 1 \in Nat
  <2>1. {} \in SUBSET Subs
    OBVIOUS
  <2> QED  BY <2>1, OthersCount
<1>3. (Cardinality(Subs) - 1) * Hold \in Nat
  BY <1>2, Times
<1>4. overdue'[s] <= Poll + (Cardinality(Subs) - 1) * Hold
  BY <1>3
<1>5. ~(overdue'[s] > 0)
  OBVIOUS
<1> QED  BY <1>1, <1>4, <1>5 DEF BurstAt

\* A step that leaves the items and clocks alone.
LEMMA BurstFrame ==
  ASSUME TypeOK, TypeOK', NEW s \in Subs, BurstAt(s),
         UNCHANGED <<job, held, asleep>>, overdue'[s] = overdue[s],
         sub'[s] = NoSub => sub[s] = NoSub,
         Waiting(s) /\ ~Waiting(s)' => sub'[s].status \in {"inactive", "deleted"},
         sub[s].status \in {"inactive", "deleted"} => sub'[s].status \in {"inactive", "deleted"}
  PROVE  BurstAt(s)'
<1>1. CASE overdue[s] = 0
  BY <1>1, NotOverdue
<1>2. CASE overdue[s] # 0
  <2>1. overdue[s] > 0
    BY <1>2 DEF TypeOK
  <2>2. Waiting(s)' => Waiting(s)
    BY <2>1 DEF BurstAt, Waiting
  <2>3. ASSUME Waiting(s)', NEW w \in Workers  PROVE WaitAt(w, s)'
    <3>1. WaitAt(w, s)
      BY <2>2, <2>3 DEF BurstAt
    <3>2. Tasks(w)' = Tasks(w) /\ Listed(w)' = Listed(w)
      BY DEF Tasks, Listed
    <3> QED  BY <3>1, <3>2, WaitFrame
  <2>4. Waiting(s)' \/ sub'[s].status \in {"inactive", "deleted"}
    BY <2>1 DEF BurstAt
  <2> QED  BY <2>1, <2>3, <2>4 DEF BurstAt
<1> QED  BY <1>1, <1>2

\* A dispatcher goes on with its cycle while s waits for it.
LEMMA CycleWait ==
  ASSUME TypeOK, TypeOK', NEW w \in Workers, NEW s \in Subs, NEW r \in Subs, r # s,
         ItemMoves(w, r), WaitAt(w, s), overdue'[s] = overdue[s]
  PROVE  WaitAt(w, s)'
<1> USE RateAssumption
<1> DEFINE D == Others(InBatch(w), s)
<1>0. /\ D \in Nat /\ Hold * D \in Nat /\ Hold * (D + 1) = Hold * D + Hold
      /\ overdue[s] \in Nat /\ asleep[w] \in Nat
      /\ \A t \in Subs : held[w][t] \in 0 .. Hold
      /\ \A t \in Tasks(w) : t \in Subs
      /\ Cardinality(Tasks(w)) \in Nat
  <2>1. D \in Nat
    BY BatchSubs, OthersCount
  <2>2. Hold * D \in Nat /\ Hold * (D + 1) = Hold * D + Hold
    BY <2>1, Times
  <2>3. overdue[s] \in Nat /\ asleep[w] \in Nat /\ \A t \in Subs : held[w][t] \in 0 .. Hold
    BY DEF TypeOK
  <2>4. Cardinality(Tasks(w)) \in Nat
    BY CycleSets
  <2> QED  BY <2>1, <2>2, <2>3, <2>4 DEF Tasks
<1> HIDE DEF D
<1>1. CASE Posted(w, r)
  <2>1. Tasks(w)' = Tasks(w) /\ Listed(w)' = Listed(w) /\ held' = held /\ asleep' = asleep
    BY <1>1, ItemSets DEF Posted
  <2> QED  BY <2>1, WaitFrame
<1>2. CASE Spawns(w, r)
  <2>1. /\ Tasks(w)' = Tasks(w) \cup {r} /\ Listed(w)' = Listed(w) \ {r} /\ r \in Listed(w)
        /\ ~Full(w)
    BY <1>0, <1>2, ItemSets DEF Spawns, Full
  <2>2. InBatch(w)' = InBatch(w) /\ InBatch(w) # {}
    BY <2>1 DEF InBatch
  <2>3. Others(InBatch(w), s)' = D
    BY <2>2 DEF Others, D
  <2>4. held'[w][r] = 0 /\ \A t \in Tasks(w) \ {r} : held'[w][t] = held[w][t]
    BY <1>0, <1>2 DEF Spawns, Keeps
  <2>5. /\ \A t \in Tasks(w) : overdue[s] <= Hold * D + held[w][t]
        /\ overdue[s] <= Hold * D
    BY <2>1, <2>2 DEF WaitAt, BusyWait, D
  <2>6. \A t \in Tasks(w)' : overdue[s] <= Hold * D + held'[w][t]
    BY <1>0, <2>1, <2>4, <2>5
  <2>7. BusyWait(w, s)'
    BY <2>3, <2>5, <2>6 DEF BusyWait
  <2> QED  BY <2>2, <2>7 DEF WaitAt
<1>3. CASE Ends(w, r)
  <2>1. Tasks(w)' = Tasks(w) \ {r} /\ Listed(w)' = Listed(w) /\ r \in Tasks(w)
    BY <1>3, ItemSets
  <2>2. r \notin Listed(w)
    BY <2>1 DEF Tasks, Listed, Started
  <2>3. InBatch(w)' = InBatch(w) \ {r} /\ r \in InBatch(w) /\ InBatch(w) \in SUBSET Subs
    BY <2>1, <2>2, BatchSubs DEF InBatch
  <2>4. Others(InBatch(w) \ {r}, s) = D + 1
    BY <2>3, OthersCount DEF D
  <2>5. Others(InBatch(w), s)' = D + 1
    BY <2>3, <2>4 DEF Others
  <2>6. /\ \A t \in Tasks(w) : overdue[s] <= Hold * D + held[w][t]
    BY <2>3 DEF WaitAt, BusyWait, D
  <2>7. overdue[s] <= Hold * (D + 1)
    <3>1. overdue[s] <= Hold * D + held[w][r] /\ held[w][r] \in 0 .. Hold
      BY <1>0, <2>1, <2>6
    <3> QED  BY <1>0, <3>1
  <2>8. CASE InBatch(w)' # {}
    <3>1. ASSUME NEW t \in Tasks(w)'  PROVE overdue[s] <= Hold * (D + 1) + held'[w][t]
      <4>1. held'[w][t] \in 0 .. Hold
        <5>1. t \in Subs
          BY <1>0, <2>1
        <5> QED  BY <5>1 DEF TypeOK
      <4> QED  BY <1>0, <2>7, <4>1
    <3>2. BusyWait(w, s)'
      BY <2>5, <2>7, <3>1 DEF BusyWait
    <3> QED  BY <2>8, <3>2 DEF WaitAt
  <2>9. CASE InBatch(w)' = {}
    <3>1. InBatch(w) \ {r} = {}
      BY <2>3, <2>9
    <3>2. {} \in SUBSET Subs
      OBVIOUS
    <3>3. D + 1 = Cardinality(Subs) - 1
      BY <2>4, <3>1, <3>2, OthersCount
    <3>4. asleep' = asleep
      BY <1>3 DEF Ends
    <3>5. overdue[s] <= Hold * (Cardinality(Subs) - 1) + asleep[w]
      BY <1>0, <2>7, <3>3
    <3>6. IdleWait(w, s)'
      BY <3>4, <3>5 DEF IdleWait
    <3> QED  BY <2>9, <3>6 DEF WaitAt
  <2> QED  BY <2>8, <2>9
<1> QED  BY <1>1, <1>2, <1>3 DEF ItemMoves

\* A second passes for s and for the dispatcher alike.
LEMMA TickWait ==
  ASSUME TypeOK, TypeOK', NEW w \in Workers, NEW s \in Subs, Tick, WaitAt(w, s), overdue'[s] = Older(overdue[s])
  PROVE  WaitAt(w, s)'
<1> USE RateAssumption
<1> DEFINE D == Others(InBatch(w), s)
           N == Hold * (Cardinality(Subs) - 1)
<1>0. /\ Hold * D \in Nat /\ N \in Nat
      /\ overdue[s] \in Nat /\ asleep[w] \in Nat
      /\ \A t \in Tasks(w) : held[w][t] \in Nat
  <2>1. D \in Nat /\ Cardinality(Subs) - 1 \in Nat
    BY BatchSubs, OthersCount
  <2>2. Hold * D \in Nat /\ N \in Nat
    BY <2>1, Times
  <2>3. overdue[s] \in Nat /\ asleep[w] \in Nat /\ \A t \in Tasks(w) : held[w][t] \in Nat
    BY DEF TypeOK, Tasks
  <2> QED  BY <2>2, <2>3
<1>1. /\ Tasks(w)' = Tasks(w) /\ Listed(w)' = Listed(w)
      /\ \A t \in Tasks(w) : held'[w][t] = held[w][t] + 1
      /\ Listed(w) # {} => Full(w)
  BY TickAges DEF Tasks
<1>2. InBatch(w)' = InBatch(w) /\ Full(w)' = Full(w)
  BY <1>1 DEF InBatch, Full
<1>3. Others(InBatch(w), s)' = D
  BY <1>2 DEF Others
<1>4. overdue'[s] <= overdue[s] + 1 /\ overdue'[s] \in Nat
  <2>1. overdue[s] \in 0 .. MaxAge
    BY DEF TypeOK
  <2> QED  BY <2>1, OlderType
<1>5. asleep'[w] = (IF InBatch(w) # {} THEN 0 ELSE asleep[w] + 1)
  BY DEF Tick, Busy, InBatch
<1> HIDE DEF D
<1>6. CASE InBatch(w) # {}
  <2>1. ASSUME NEW t \in Tasks(w)'  PROVE overdue'[s] <= Hold * D + held'[w][t]
    <3>1. overdue[s] <= Hold * D + held[w][t] /\ held'[w][t] = held[w][t] + 1 /\ held[w][t] \in Nat
      BY <1>0, <1>1, <1>6, <2>1 DEF WaitAt, BusyWait, D
    <3> QED  BY <1>0, <1>4, <3>1
  <2>2. BusyWait(w, s)'
    BY <1>1, <1>2, <1>3, <2>1 DEF BusyWait
  <2> QED  BY <1>2, <1>6, <2>2 DEF WaitAt
<1>7. CASE InBatch(w) = {}
  <2>1. overdue[s] <= N + asleep[w] /\ asleep'[w] = asleep[w] + 1
    BY <1>5, <1>7 DEF WaitAt, IdleWait
  <2>2. overdue'[s] <= N + asleep'[w]
    BY <1>0, <1>4, <2>1
  <2> QED  BY <1>2, <1>7, <2>2 DEF WaitAt, IdleWait
<1> QED  BY <1>6, <1>7

\* A second passes.
LEMMA BurstTick ==
  ASSUME TypeOK, TypeOK', Workers # {}, Tick, NEW s \in Subs, BurstAt(s)
  PROVE  BurstAt(s)'
<1> DEFINE P(r) == Waiting(r) /\ Waiting(r)'
<1>1. overdue'[s] = (IF P(s) THEN Older(overdue[s]) ELSE 0)
  <2>1. overdue' = [r \in Subs |-> IF P(r) THEN Older(overdue[r]) ELSE 0]
    BY DEF Tick
  <2> HIDE DEF P
  <2> QED  BY <2>1
<1>2. CASE ~P(s)
  <2>1. overdue'[s] = 0
    BY <1>1, <1>2
  <2> QED  BY <2>1, NotOverdue
<1>3. CASE P(s)
  <2>1. \A w \in Workers : WaitAt(w, s)
    BY <1>3 DEF BurstAt
  <2>2. \A w \in Workers : WaitAt(w, s)'
    BY <1>1, <1>3, <2>1, TickWait
  <2>3. overdue'[s] <= Poll + (Cardinality(Subs) - 1) * Hold
    <3>1. PICK w \in Workers : TRUE
      OBVIOUS
    <3> QED  BY <1>3, <2>2, <3>1, WaitBound
  <2>4. sub'[s] # NoSub /\ \A w \in Workers : job'[w][s] = "none"
    BY <1>3 DEF Waiting, NoSub
  <2> QED  BY <1>3, <2>2, <2>3, <2>4 DEF BurstAt
<1> QED  BY <1>2, <1>3

\* An item moves: its own subscription has just been picked up, the others go
\* on waiting.
LEMMA BurstItem ==
  ASSUME TypeOK, TypeOK', NEW v \in Workers, NEW r \in Subs, ItemMoves(v, r), NEW s \in Subs, BurstAt(s)
  PROVE  BurstAt(s)'
<1>1. overdue' = overdue /\ asleep' = asleep /\ sub' = sub /\ failed' = failed
  BY DEF ItemMoves, Spawns, Posted, Ends
<1>2. CASE s = r
  <2>1. job[v][s] # "none"
    BY <1>2 DEF ItemMoves, Spawns, Posted, Ends, Started
  <2>2. overdue'[s] = 0
    BY <1>1, <2>1 DEF BurstAt
  <2> QED  BY <2>2, NotOverdue
<1>3. CASE s # r
  <2>1. last'[s] = last[s] /\ \A w \in Workers : job'[w][s] = job[w][s]
    BY <1>3 DEF ItemMoves, Spawns, Posted, Ends, Moves
  <2>2. Waiting(s)' <=> Waiting(s)
    BY <1>1, <2>1, SameWaiting
  <2>3. ASSUME Waiting(s), NEW w \in Workers  PROVE WaitAt(w, s)'
    <3>1. WaitAt(w, s)
      BY <2>3 DEF BurstAt
    <3>2. CASE w = v
      BY <1>1, <1>3, <3>1, <3>2, CycleWait
    <3>3. CASE w # v
      <4>1. Tasks(w)' = Tasks(w) /\ Listed(w)' = Listed(w)
        BY <3>3, ItemSets DEF ItemMoves
      <4>2. \A t \in Tasks(w) : held'[w][t] = held[w][t]
        BY <3>3 DEF ItemMoves, Spawns, Posted, Ends, Keeps, Tasks
      <4> QED  BY <1>1, <3>1, <4>1, <4>2, WaitFrame
    <3> QED  BY <3>2, <3>3
  <2> QED  BY <1>1, <2>1, <2>2, <2>3 DEF BurstAt
<1> QED  BY <1>2, <1>3

\* A dispatcher starts a cycle: with room for all, no one waits any more.
LEMMA BurstFind ==
  ASSUME TypeOK, TypeOK', Room, NEW v \in Workers, Find(v), NEW s \in Subs, BurstAt(s)
  PROVE  BurstAt(s)'
<1>1. overdue'[s] = (IF s \in Selected THEN 0 ELSE overdue[s])
  BY DEF Find
<1>2. CASE overdue'[s] = 0
  BY <1>2, NotOverdue
<1>3. CASE overdue'[s] # 0
  <2>1. overdue'[s] = overdue[s] /\ overdue[s] > 0 /\ s \notin Eligible
    BY <1>1, <1>3, RoomForAll DEF TypeOK
  <2>2. ~Waiting(s)
    BY <2>1 DEF Waiting, Eligible
  <2>3. UNCHANGED <<sub, failed, last>>
    BY FindLists
  <2>4. ~Waiting(s)'
    <3>1. InWindow(s)' = InWindow(s)
      BY <2>3 DEF InWindow
    <3> QED  BY <2>1, <2>3, <3>1 DEF Waiting, Eligible, Debounced
  <2>5. ASSUME NEW w \in Workers  PROVE job'[w][s] = "none"
    <3>1. CASE w = v
      BY <2>1, <3>1, FindLists
    <3>2. CASE w # v
      <4>1. job'[w][s] = job[w][s]
        BY <3>2, FindLists
      <4> QED  BY <2>1, <4>1 DEF BurstAt
    <3> QED  BY <3>1, <3>2
  <2> QED  BY <2>1, <2>2, <2>3, <2>4, <2>5 DEF BurstAt
<1> QED  BY <1>2, <1>3

\* The other steps: the API, the indexer, and none at all.
LEMMA BurstRest ==
  ASSUME TypeOK, TypeOK', TableOK, TableOK', JobSub, NEW s \in Subs, BurstAt(s),
         \/ Admin
         \/ \E t \in Txs : FailedInserted(t) \/ FailedRolledBack(t)
         \/ UNCHANGED vars
  PROVE  BurstAt(s)'
<1>1. CASE Admin
  <2>1. UNCHANGED <<job, held, asleep, overdue, failed>>
    BY <1>1, AdminKeeps
  <2>2. sub'[s] = NoSub => sub[s] = NoSub
    BY <1>1, AdminKeeps
  <2>3. sub[s].status \in {"inactive", "deleted"} => sub'[s].status \in {"inactive", "deleted"}
    BY <1>1 DEF Admin, SubStep, NoSub
  <2>4. Waiting(s) /\ ~Waiting(s)' => sub'[s].status \in {"inactive", "deleted"}
    <3>1. CASE sub'[s] = sub[s] /\ last'[s] = last[s]
      BY <2>1, <3>1, SameWaiting
    <3>2. CASE sub[s] = NoSub
      BY <3>2 DEF Waiting, NoSub
    <3>3. CASE sub'[s].status \in {"inactive", "deleted"}
      BY <3>3
    <3> QED  BY <1>1, <3>1, <3>2, <3>3 DEF Admin, SubStep
  <2> QED  BY <2>1, <2>2, <2>3, <2>4, BurstFrame
<1>2. ASSUME NEW t \in Txs, FailedInserted(t)  PROVE BurstAt(s)'
  <2>1. UNCHANGED <<sub, job, held, asleep, overdue>>
    BY <1>2 DEF FailedInserted
  <2>2. Waiting(s) => Waiting(s)'
    BY <1>2, InsertKeepsWaiting
  <2> QED  BY <2>1, <2>2, BurstFrame
<1>3. ASSUME NEW t \in Txs, FailedRolledBack(t)  PROVE BurstAt(s)'
  <2> DEFINE P(r) == Waiting(r)'
  <2>1. UNCHANGED <<sub, job, held, asleep>>
    BY <1>3 DEF FailedRolledBack
  <2>2. overdue'[s] = (IF P(s) THEN overdue[s] ELSE 0)
    <3>1. overdue' = [r \in Subs |-> IF P(r) THEN overdue[r] ELSE 0]
      BY <1>3 DEF FailedRolledBack
    <3> HIDE DEF P
    <3> QED  BY <3>1
  <2>3. CASE ~P(s)
    <3>1. overdue'[s] = 0
      BY <2>2, <2>3
    <3> QED  BY <3>1, NotOverdue
  <2>4. CASE P(s)
    <3>1. overdue'[s] = overdue[s] /\ Waiting(s)'
      BY <2>2, <2>4
    <3> QED  BY <2>1, <3>1, BurstFrame
  <2> QED  BY <2>3, <2>4
<1>4. CASE UNCHANGED vars
  <2>1. UNCHANGED <<sub, failed, last, job, held, asleep, overdue>>
    BY <1>4 DEF vars
  <2>2. Waiting(s)' <=> Waiting(s)
    BY <2>1, SameWaiting
  <2> QED  BY <2>1, <2>2, BurstFrame
<1> QED  BY <1>1, <1>2, <1>3, <1>4

\* Every step keeps BurstInv.
LEMMA BurstStep ==
  ASSUME Workers # {}
  PROVE  DispatchInv /\ DispatchInv' /\ BurstInv /\ [Next]_vars => BurstInv'
<1> SUFFICES ASSUME DispatchInv, DispatchInv', BurstInv, [Next]_vars, crashes' = 0, Room
             PROVE  \A s \in Subs : BurstAt(s)'
  <2>1. (\A s \in Subs : BurstAt(s)') <=> (OverdueOK /\ WaitOK /\ PickedUp)'
    BY Zenon DEF BurstAt, OverdueOK, WaitOK, PickedUp
  <2> QED  BY <2>1 DEF BurstInv, Room
<1>0. TypeOK /\ TypeOK' /\ TableOK /\ TableOK' /\ JobSub
  BY DEF DispatchInv
<1>1. crashes \in Nat
  BY <1>0, RateAssumption DEF TypeOK
<1>2. crashes = 0 /\ ~(\E w \in Workers : Crash(w))
  <2>1. ASSUME NEW w \in Workers, Crash(w)  PROVE crashes' = crashes + 1
    BY <2>1 DEF Crash
  <2>2. ASSUME NEW w \in Workers, NEW s \in Subs, ItemMoves(w, s)
        PROVE  crashes' = crashes \/ crashes' = crashes + 1
    BY <2>2 DEF ItemMoves, Spawns, Posted, Ends
  <2>3. ASSUME NEW w \in Workers, Find(w)  PROVE crashes' = crashes
    BY <2>3 DEF Find, bounds
  <2>4. Tick => crashes' = crashes
    BY DEF Tick, bounds
  <2>5. Admin => crashes' = crashes
    BY DEF Admin, SubStep
  <2>6. Aside => crashes' = crashes
    BY DEF Aside
  <2>7. crashes' = crashes \/ crashes' = crashes + 1
    BY <1>0, <2>1, <2>2, <2>3, <2>4, <2>5, <2>6, StepKinds
  <2> QED  BY <1>1, <2>1, <2>7
<1>3. \A s \in Subs : BurstAt(s)
  BY <1>2, BurstParts DEF BurstInv
<1> TAKE s \in Subs
<1>4. BurstAt(s)
  BY <1>3
<1>5. CASE UNCHANGED vars
  BY <1>0, <1>4, <1>5, BurstRest
<1>6. CASE Next
  <2>1. ASSUME NEW r \in Subs, NEW a \in Auths, NEW b \in Bodies, Create(r, a, b)  PROVE BurstAt(s)'
    <3>1. SubStep
      BY <1>0, <1>6, SubSteps
    <3>2. sub' # sub
      <4>1. RowOf(b).status = "active" /\ sub'[r] = RowOf(b) /\ sub[r] = NoSub
        BY <1>0, <2>1, CreatedRow DEF Create, TableOK
      <4> QED  BY <4>1 DEF NoSub
    <3> QED  BY <1>0, <1>4, <3>1, <3>2, BurstRest DEF Admin
  <2>2. ASSUME NEW r \in Subs, Deactivate(r) \/ Delete(r)  PROVE BurstAt(s)'
    <3>1. SubStep
      BY <1>0, <1>6, SubSteps
    <3>2. sub' # sub
      <4>1. sub[r].status \in {"active", "inactive"} /\ sub'[r].status # sub[r].status
        BY <1>0, <2>2 DEF Deactivate, Delete, TableOK, RowsOK, RowOK, TableRows, NoSub
      <4> QED  BY <4>1
    <3> QED  BY <1>0, <1>4, <3>1, <3>2, BurstRest DEF Admin
  <2>3. ASSUME NEW t \in Txs, FailedInserted(t) \/ FailedRolledBack(t)  PROVE BurstAt(s)'
    BY <1>0, <1>4, <2>3, BurstRest
  <2>4. ASSUME NEW w \in Workers, Find(w)  PROVE BurstAt(s)'
    BY <1>0, <1>4, <2>4, BurstFind
  <2>5. ASSUME NEW w \in Workers, NEW r \in Subs, DispatchItem(w, r)  PROVE BurstAt(s)'
    <3>1. ItemMoves(w, r)
      BY <1>0, <2>5, ItemStep DEF ItemMoves
    <3> QED  BY <1>0, <1>4, <3>1, BurstItem
  <2>6. CASE Tick
    BY <1>0, <1>4, <2>6, BurstTick
  <2> QED  BY <1>2, <1>6, <2>1, <2>2, <2>3, <2>4, <2>5, <2>6 DEF Next
<1> QED  BY <1>5, <1>6

\* A burst is picked up within one sleep and one cycle over the others, for
\* every number of dispatchers but none, while no dispatcher dies and a batch
\* has room for every subscription.
THEOREM BurstsArePickedUp ==
  ASSUME Workers # {}
  PROVE  Spec => []BurstPickedUp
<1>1. Init => BurstInv
  <2> SUFFICES ASSUME Init  PROVE \A s \in Subs : BurstAt(s)
    BY BurstParts DEF BurstInv
  <2> TAKE s \in Subs
  <2>1. overdue[s] = 0 /\ sub[s] = NoSub /\ \A w \in Workers : job[w][s] = "none"
    BY DEF Init
  <2>2. ~Waiting(s)
    BY <2>1 DEF Waiting, NoSub
  <2>3. 0 <= Poll + (Cardinality(Subs) - 1) * Hold
    <3>1. {} \in SUBSET Subs
      OBVIOUS
    <3>2. Cardinality(Subs) - 1 \in Nat
      BY <3>1, OthersCount
    <3>3. (Cardinality(Subs) - 1) * Hold \in Nat
      BY <3>2, Times, RateAssumption
    <3> QED  BY <3>3, RateAssumption
  <2> QED  BY <2>1, <2>2, <2>3 DEF BurstAt
<1>2. DispatchInv /\ DispatchInv' /\ BurstInv /\ [Next]_vars => BurstInv'
  BY BurstStep
<1>3. BurstInv => BurstPickedUp
  BY DEF BurstInv, BurstPickedUp, PickedUp, Room
<1> QED  BY <1>1, <1>2, <1>3, Invariance, PTL DEF Spec

=============================================================================
