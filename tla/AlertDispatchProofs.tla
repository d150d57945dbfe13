------------------------- MODULE AlertDispatchProofs -------------------------
(***************************************************************************)
(* Proofs about the per-event dispatcher for any number of dispatchers,    *)
(* subscriptions and transactions, any batch size, any number of crashes,  *)
(* and any lease: what needs Hold <= Stale says so.                        *)
(***************************************************************************)
EXTENDS AlertDispatch, TLAPS

-----------------------------------------------------------------------------
(* The inductive invariant *)

\* Time is counted from the claim on.
HeldOK == \A w \in Workers, p \in Pairs : job[w][p].at \notin Claimed => job[w][p].held = 0

\* A task between its claim and its result holds the row: it is still claimed,
\* and exactly as old as the task's claim.
LeaseOK ==
  Hold <= Stale =>
    \A w \in Workers, p \in Pairs :
      job[w][p].at \in Claimed
        => sub[p[1]] = "deleted" \/ (row[p].status = "claimed" /\ row[p].age = job[w][p].held)

\* A task that is about to record a delivery has seen one.
AnsweredOK == \A w \in Workers, p \in Pairs : job[w][p].at = "ok" => accepted[p] > 0

\* The extra delivery of a pair is the one that is recorded or about to be: as
\* long as there is none, every POST that was accepted has its accident.
Settled(p) ==
  \/ row[p].status = "delivered"
  \/ sub[p[1]] = "deleted"
  \/ \E w \in Workers : job[w][p].at = "ok"

AccountOK ==
  Hold <= Stale =>
    \A p \in Pairs :
      /\ Settled(p) \/ accepted[p] <= crashes + lost
      /\ \A w \in Workers : job[w][p].at \in {"post", "err"} => accepted[p] <= crashes + lost

DInv ==
  /\ TypeOK
  /\ HeldOK
  /\ LeaseOK
  /\ ExclusiveClaim
  /\ AnsweredOK
  /\ DeliveredWasAccepted
  /\ AccountOK
  /\ DuplicatesAreExplained

-----------------------------------------------------------------------------
(* Types *)

JobType == [at : {"none", "listed", "claim"} \cup Claimed, held : 0 .. Hold, key : Nat]
RowType == [status : {"none", "claimed", "failed", "delivered"}, age : 0 .. Stale + 1]

\* The parts of TypeOK that are functions.
LEMMA Tables ==
  ASSUME TypeOK
  PROVE  /\ row \in [Pairs -> RowType]
         /\ job \in [Workers -> [Pairs -> JobType]]
         /\ accepted \in [Pairs -> Nat]
BY DEF TypeOK, JobType, RowType

LEMMA InitType == Init => TypeOK
BY DispatchAssumption DEF Init, TypeOK, NoRow, NoJob, Claimed

\* One task moves; the others are where they were.
LEMMA OneJob ==
  ASSUME TypeOK, NEW w \in Workers, NEW p \in Pairs, NEW x,
         job' = [job EXCEPT ![w][p] = x]
  PROVE  /\ job'[w][p] = x
         /\ \A v \in Workers, q \in Pairs : v # w \/ q # p => job'[v][q] = job[v][q]
         /\ x \in JobType => job' \in [Workers -> [Pairs -> JobType]]
<1>1. job \in [Workers -> [Pairs -> JobType]]
  BY Tables
<1> QED  BY <1>1

\* A task goes from one point of dispatch_item to another, or ends.
Moves(w, p, from, to) ==
  /\ job[w][p].at = from
  /\ job'[w][p] = [job[w][p] EXCEPT !.at = to]
  /\ \A v \in Workers, q \in Pairs : v # w \/ q # p => job'[v][q] = job[v][q]

Ends(w, p) ==
  /\ job'[w][p] = NoJob
  /\ \A v \in Workers, q \in Pairs : v # w \/ q # p => job'[v][q] = job[v][q]

LEMMA JobMoves ==
  ASSUME TypeOK, NEW w \in Workers, NEW p \in Pairs, NEW from,
         NEW to \in {"none", "listed", "claim"} \cup Claimed, JobAt(w, p, from, to)
  PROVE  /\ Moves(w, p, from, to)
         /\ job' \in [Workers -> [Pairs -> JobType]]
<1> DEFINE x == [job[w][p] EXCEPT !.at = to]
<1>1. job[w][p] \in JobType
  BY Tables
<1>2. x \in JobType
  BY <1>1 DEF JobType
<1>3. job[w][p].at = from /\ job' = [job EXCEPT ![w][p] = x]
  BY DEF JobAt
<1> HIDE DEF x
<1>4. /\ job'[w][p] = x
      /\ \A v \in Workers, q \in Pairs : v # w \/ q # p => job'[v][q] = job[v][q]
      /\ job' \in [Workers -> [Pairs -> JobType]]
  BY <1>2, <1>3, OneJob
<1> QED  BY <1>3, <1>4 DEF Moves, x

LEMMA JobEnds ==
  ASSUME TypeOK, NEW w \in Workers, NEW p \in Pairs, JobDone(w, p)
  PROVE  /\ Ends(w, p)
         /\ job' \in [Workers -> [Pairs -> JobType]]
<1>1. NoJob \in JobType
  BY DispatchAssumption DEF NoJob, JobType
<1>2. job' = [job EXCEPT ![w][p] = NoJob]
  BY DEF JobDone
<1>3. /\ job'[w][p] = NoJob
      /\ \A v \in Workers, q \in Pairs : v # w \/ q # p => job'[v][q] = job[v][q]
      /\ job' \in [Workers -> [Pairs -> JobType]]
  BY <1>1, <1>2, OneJob
<1> QED  BY <1>3 DEF Ends

\* What the recorded result does to the row of the pair.
LEMMA RecordRow ==
  ASSUME TypeOK, NEW w \in Workers, NEW p \in Pairs,
         RecordDelivered(w, p) \/ RecordFailed(w, p)
  PROVE  /\ row' \in [Pairs -> RowType]
         /\ \A q \in Pairs : q # p \/ sub[p[1]] = "deleted" => row'[q] = row[q]
         /\ sub[p[1]] # "deleted"
              => row'[p].status = IF job[w][p].at = "ok" THEN "delivered" ELSE "failed"
<1> DEFINE x == IF job[w][p].at = "ok" THEN "delivered" ELSE "failed"
<1>1. row \in [Pairs -> RowType]
  BY Tables
<1>2. row' = IF sub[p[1]] = "deleted" THEN row ELSE [row EXCEPT ![p] = [@ EXCEPT !.status = x]]
  BY DEF RecordDelivered, RecordFailed, record_alert_delivery, Outcome
<1>3. x \in {"delivered", "failed"}
  OBVIOUS
<1> HIDE DEF x
<1>4. [row[p] EXCEPT !.status = x] \in RowType /\ [row[p] EXCEPT !.status = x].status = x
  BY <1>1, <1>3 DEF RowType
<1>5. row' \in [Pairs -> RowType] /\ (sub[p[1]] # "deleted" => row'[p].status = x)
  BY <1>1, <1>2, <1>4
<1>6. \A q \in Pairs : q # p \/ sub[p[1]] = "deleted" => row'[q] = row[q]
  BY <1>1, <1>2
<1> QED  BY <1>5, <1>6 DEF x

\* Every step keeps the types.
LEMMA TypeStep ==
  ASSUME TypeOK, Next
  PROVE  TypeOK'
<1> USE DEF bounds
<1> USE DispatchAssumption
<1>1. CASE Administer
  <2>1. ASSUME NEW s \in Subs, Subscribe(s) \/ Deactivate(s) \/ Rotate(s)  PROVE TypeOK'
    <3>1. CASE Subscribe(s)
      BY <3>1 DEF Subscribe, TypeOK
    <3>2. CASE Deactivate(s)
      BY <3>2 DEF Deactivate, TypeOK
    <3>3. CASE Rotate(s)
      BY <3>3 DEF Rotate, TypeOK
    <3> QED  BY <2>1, <3>1, <3>2, <3>3
  <2>2. ASSUME NEW s \in Subs, Delete(s)  PROVE TypeOK'
    <3>1. row' \in [Pairs -> RowType]
      BY <2>2 DEF Delete, TypeOK, NoRow, RowType
    <3> QED  BY <2>2, <3>1 DEF Delete, TypeOK, RowType
  <2>3. ASSUME NEW t \in Txs, FailedRolledBack(t)  PROVE TypeOK'
    BY <2>3 DEF FailedRolledBack, TypeOK
  <2> QED  BY <1>1, <2>1, <2>2, <2>3 DEF Administer
<1>2. ASSUME NEW t \in Txs, FailedInserted(t)  PROVE TypeOK'
  BY <1>2 DEF FailedInserted, TypeOK
<1>3. ASSUME NEW w \in Workers, Find(w)  PROVE TypeOK'
  <2>1. PICK S \in Selections :
          job' = [job EXCEPT ![w] = [p \in Pairs |->
                    IF p \in S THEN [at |-> "listed", held |-> 0, key |-> secret[p[1]]] ELSE NoJob]]
    BY <1>3 DEF Find
  <2>2. \A p \in Pairs : secret[p[1]] \in Nat
    BY DEF TypeOK, Pairs
  <2>3. [p \in Pairs |-> IF p \in S THEN [at |-> "listed", held |-> 0, key |-> secret[p[1]]] ELSE NoJob]
          \in [Pairs -> JobType]
    BY <2>2 DEF JobType, NoJob
  <2>4. job' \in [Workers -> [Pairs -> JobType]]
    BY <2>1, <2>3 DEF TypeOK, JobType
  <2> QED  BY <1>3, <2>4 DEF Find, TypeOK, JobType
<1>4. ASSUME NEW w \in Workers, Crash(w)  PROVE TypeOK'
  <2>1. job' \in [Workers -> [Pairs -> JobType]]
    BY <1>4 DEF Crash, TypeOK, JobType, NoJob
  <2> QED  BY <1>4, <2>1 DEF Crash, TypeOK, JobType
<1>5. ASSUME NEW w \in Workers, NEW p \in Pairs, DispatchItem(w, p) \/ Trouble(w, p)  PROVE TypeOK'
  <2>1. CASE Spawn(w, p)
    <3>1. job' \in [Workers -> [Pairs -> JobType]]
      BY <2>1, JobMoves DEF Spawn
    <3> QED  BY <2>1, <3>1 DEF Spawn, TypeOK, JobType
  <2>2. CASE Claim(w, p)
    <3>1. job' \in [Workers -> [Pairs -> JobType]]
      BY <2>2, JobMoves DEF Claim, Claimed
    <3>2. row' \in [Pairs -> RowType]
      BY <2>2, Tables DEF Claim, RowType
    <3> QED  BY <2>2, <3>1, <3>2 DEF Claim, TypeOK, JobType, RowType
  <2>3. CASE ClaimSkipped(w, p)
    <3>1. job' \in [Workers -> [Pairs -> JobType]]
      BY <2>3, JobEnds DEF ClaimSkipped
    <3> QED  BY <2>3, <3>1 DEF ClaimSkipped, TypeOK, JobType
  <2>4. CASE UnsafeUrl(w, p) \/ PostUnanswered(w, p)
    <3>1. job' \in [Workers -> [Pairs -> JobType]]
      BY <2>4, JobMoves DEF UnsafeUrl, PostUnanswered, Claimed
    <3> QED  BY <2>4, <3>1 DEF UnsafeUrl, PostUnanswered, TypeOK, JobType
  <2>5. CASE PostAccepted(w, p) \/ PostLost(w, p)
    <3>1. job' \in [Workers -> [Pairs -> JobType]]
      BY <2>5, JobMoves DEF PostAccepted, PostLost, Claimed
    <3>2. accepted' \in [Pairs -> Nat]
      <4>1. accepted \in [Pairs -> Nat] /\ accepted' = [accepted EXCEPT ![p] = Count(@)]
        BY <2>5, Tables DEF PostAccepted, PostLost
      <4>2. Count(accepted[p]) \in Nat
        BY <4>1 DEF Count
      <4> QED  BY <4>1, <4>2
    <3>3. CASE PostAccepted(w, p)
      BY <3>3, <3>1, <3>2 DEF PostAccepted, TypeOK, JobType
    <3>4. CASE PostLost(w, p)
      BY <3>4, <3>1, <3>2 DEF PostLost, TypeOK, JobType
    <3> QED  BY <2>5, <3>3, <3>4
  <2>6. CASE PostRejected(w, p)
    <3>1. job' \in [Workers -> [Pairs -> JobType]]
      BY <2>6, JobMoves DEF PostRejected, Claimed
    <3> QED  BY <2>6, <3>1 DEF PostRejected, TypeOK, JobType
  <2>7. CASE RecordDelivered(w, p) \/ RecordFailed(w, p)
    <3>1. job' \in [Workers -> [Pairs -> JobType]]
      BY <2>7, JobEnds DEF RecordDelivered, RecordFailed
    <3>2. row' \in [Pairs -> RowType]
      BY <2>7, RecordRow
    <3> QED  BY <2>7, <3>1, <3>2 DEF RecordDelivered, RecordFailed, TypeOK, JobType, RowType
  <2>8. CASE TaskError(w, p)
    <3>1. job' \in [Workers -> [Pairs -> JobType]]
      BY <2>8, JobEnds DEF TaskError
    <3> QED  BY <2>8, <3>1 DEF TaskError, TypeOK, JobType
  <2> QED  BY <1>5, <2>1, <2>2, <2>3, <2>4, <2>5, <2>6, <2>7, <2>8 DEF DispatchItem, Trouble
<1>6. CASE Tick
  <2>1. row' \in [Pairs -> RowType]
    BY <1>6, Tables DEF Tick, RowType
  <2>2. ASSUME NEW w \in Workers, NEW p \in Pairs
        PROVE  (IF job[w][p].at \in Claimed THEN [job[w][p] EXCEPT !.held = @ + 1] ELSE job[w][p]) \in JobType
    <3>1. job[w][p] \in JobType /\ (job[w][p].at \in Claimed => job[w][p].held < Hold)
      BY <1>6, Tables DEF Tick
    <3> QED  BY <3>1 DEF JobType
  <2>3. job' \in [Workers -> [Pairs -> JobType]]
    BY <1>6, <2>2 DEF Tick
  <2> QED  BY <1>6, <2>1, <2>3 DEF Tick, TypeOK, JobType, RowType
<1> QED  BY <1>1, <1>2, <1>3, <1>4, <1>5, <1>6 DEF Next

-----------------------------------------------------------------------------
(* What each kind of step does *)

\* Deleted subscriptions stay deleted: their BIGSERIAL ids are not used again.
DeletedStays == \A s \in Subs : sub[s] = "deleted" => sub'[s] = "deleted"

\* Steps of the API and the indexer that leave the ledger and the tasks alone.
Calm == UNCHANGED <<row, job, accepted, crashes, lost>> /\ DeletedStays

LEMMA NextCases ==
  ASSUME TypeOK, Next
  PROVE  \/ Calm
         \/ \E s \in Subs : Delete(s)
         \/ \E w \in Workers : Find(w) \/ Crash(w)
         \/ \E w \in Workers, p \in Pairs : DispatchItem(w, p) \/ Trouble(w, p)
         \/ Tick
<1> USE DEF bounds, Calm, DeletedStays
<1>1. ASSUME NEW s \in Subs, Subscribe(s) \/ Deactivate(s) \/ Rotate(s)  PROVE Calm
  BY <1>1 DEF Subscribe, Deactivate, Rotate, TypeOK
<1>2. ASSUME NEW t \in Txs, FailedRolledBack(t) \/ FailedInserted(t)  PROVE Calm
  BY <1>2 DEF FailedRolledBack, FailedInserted
<1> HIDE DEF Calm
<1> QED  BY <1>1, <1>2 DEF Next, Administer

\* Every step but Delete keeps the subscriptions that are there.
LEMMA DeleteFrame ==
  ASSUME TypeOK, NEW s \in Subs, Delete(s)
  PROVE  /\ UNCHANGED <<job, accepted, crashes, lost>>
         /\ DeletedStays
         /\ \A p \in Pairs : sub'[p[1]] = "deleted" \/ row'[p] = row[p]
         /\ \A p \in Pairs : row'[p] = row[p] \/ row'[p] = NoRow
<1>1. sub \in [Subs -> {"none", "active", "inactive", "deleted"}] /\ sub' = [sub EXCEPT ![s] = "deleted"]
  BY DEF TypeOK, Delete
<1>2. row' = [p \in Pairs |-> IF p[1] = s THEN NoRow ELSE row[p]]
  BY DEF Delete
<1>3. \A p \in Pairs : p[1] = s => sub'[p[1]] = "deleted"
  BY <1>1
<1> QED  BY <1>1, <1>2, <1>3 DEF Delete, DeletedStays

\* A cycle starts from nothing and a crash leaves nothing: in both cases the
\* tasks of one dispatcher are before their claim, and the others' are as
\* they were.
LEMMA CycleFrame ==
  ASSUME TypeOK, NEW w \in Workers, Find(w) \/ Crash(w)
  PROVE  /\ UNCHANGED <<sub, row, accepted, lost>>
         /\ \A v \in Workers, p \in Pairs : v # w => job'[v][p] = job[v][p]
         /\ \A p \in Pairs : job'[w][p].at \in {"none", "listed"} /\ job'[w][p].held = 0
         /\ \/ crashes' = crashes /\ \A p \in Pairs : job[w][p] = NoJob
            \/ crashes' = crashes + 1
<1> USE DEF bounds
<1>1. job \in [Workers -> [Pairs -> JobType]]
  BY Tables
<1>2. CASE Find(w)
  <2>1. PICK S \in Selections :
          job' = [job EXCEPT ![w] = [p \in Pairs |->
                    IF p \in S THEN [at |-> "listed", held |-> 0, key |-> secret[p[1]]] ELSE NoJob]]
    BY <1>2 DEF Find
  <2>2. \A p \in Pairs : job'[w][p].at \in {"none", "listed"} /\ job'[w][p].held = 0
    BY <1>1, <2>1 DEF NoJob
  <2>3. \A v \in Workers, p \in Pairs : v # w => job'[v][p] = job[v][p]
    BY <1>1, <2>1
  <2> QED  BY <1>2, <2>2, <2>3 DEF Find
<1>3. CASE Crash(w)
  <2>1. job' = [job EXCEPT ![w] = [p \in Pairs |-> NoJob]]
    BY <1>3 DEF Crash
  <2> QED  BY <1>1, <1>3, <2>1 DEF Crash, NoJob
<1> QED  BY <1>2, <1>3

\* A second passes: the claims get older together.
LEMMA TickFrame ==
  ASSUME TypeOK, Tick
  PROVE  /\ UNCHANGED <<sub, accepted, crashes, lost>>
         /\ \A p \in Pairs :
              /\ row'[p].status = row[p].status
              /\ row'[p].age = IF row[p].status = "claimed" /\ row[p].age <= Stale
                                 THEN row[p].age + 1 ELSE row[p].age
         /\ \A w \in Workers, p \in Pairs :
              /\ job'[w][p].at = job[w][p].at
              /\ job[w][p].at \in Claimed => job[w][p].held < Hold
              /\ job'[w][p].held = IF job[w][p].at \in Claimed THEN job[w][p].held + 1 ELSE job[w][p].held
<1> USE DEF bounds
<1>1. \A p \in Pairs : row[p] \in RowType
  BY Tables
<1>2. \A w \in Workers, p \in Pairs : job[w][p] \in JobType
  BY Tables
<1>3. ASSUME NEW p \in Pairs
      PROVE  /\ row'[p].status = row[p].status
             /\ row'[p].age = IF row[p].status = "claimed" /\ row[p].age <= Stale
                                THEN row[p].age + 1 ELSE row[p].age
  BY <1>1 DEF Tick, RowType
<1>4. ASSUME NEW w \in Workers, NEW p \in Pairs
      PROVE  /\ job'[w][p].at = job[w][p].at
             /\ job[w][p].at \in Claimed => job[w][p].held < Hold
             /\ job'[w][p].held = IF job[w][p].at \in Claimed THEN job[w][p].held + 1 ELSE job[w][p].held
  BY <1>2 DEF Tick, JobType
<1> QED  BY <1>3, <1>4 DEF Tick

\* The steps of one task, by what they do to the row and to the history.
OthersStay(w, p) ==
  /\ sub' = sub
  /\ \A v \in Workers, q \in Pairs : v # w \/ q # p => job'[v][q] = job[v][q]
  /\ \A q \in Pairs : q # p => row'[q] = row[q] /\ accepted'[q] = accepted[q]

KeepsLedger(p) == row'[p] = row[p] /\ accepted'[p] = accepted[p]

BeforeClaim(w, p) ==
  /\ job[w][p].at \in {"listed", "claim"}
  /\ job'[w][p].at \in {"none", "claim"}
  /\ job'[w][p].held \in {0, job[w][p].held}
  /\ KeepsLedger(p)
  /\ crashes' + lost' >= crashes + lost

Claims(w, p) ==
  /\ job[w][p].at = "claim"
  /\ job'[w][p].at = "post"
  /\ job'[w][p].held = job[w][p].held
  /\ sub[p[1]] # "deleted"
  /\ Claimable(p)
  /\ row'[p].status = "claimed"
  /\ row'[p].age = 0
  /\ accepted'[p] = accepted[p]
  /\ crashes' + lost' = crashes + lost

Posts(w, p) ==
  /\ job[w][p].at = "post"
  /\ job'[w][p].held = job[w][p].held
  /\ row'[p] = row[p]
  /\ \/ /\ job'[w][p].at = "ok"
        /\ 0 < accepted'[p] /\ accepted'[p] <= accepted[p] + 1
        /\ crashes' + lost' = crashes + lost
     \/ /\ job'[w][p].at = "err"
        /\ accepted'[p] = accepted[p]
        /\ crashes' + lost' = crashes + lost
     \/ /\ job'[w][p].at = "err"
        /\ 0 < accepted'[p] /\ accepted'[p] <= accepted[p] + 1
        /\ crashes' + lost' = crashes + lost + 1

Records(w, p) ==
  /\ job[w][p].at \in {"ok", "err"}
  /\ job'[w][p] = NoJob
  /\ IF sub[p[1]] = "deleted" THEN row'[p] = row[p]
     ELSE row'[p].status = IF job[w][p].at = "ok" THEN "delivered" ELSE "failed"
  /\ accepted'[p] = accepted[p]
  /\ crashes' + lost' = crashes + lost

Abandons(w, p) ==
  /\ job[w][p].at \in Claimed
  /\ job'[w][p] = NoJob
  /\ KeepsLedger(p)
  /\ crashes' + lost' = crashes + lost + 1

LEMMA ItemCases ==
  ASSUME TypeOK, NEW w \in Workers, NEW p \in Pairs, DispatchItem(w, p) \/ Trouble(w, p)
  PROVE  /\ OthersStay(w, p)
         /\ \/ BeforeClaim(w, p)
            \/ Claims(w, p)
            \/ Posts(w, p)
            \/ Records(w, p)
            \/ Abandons(w, p)
<1> USE DEF bounds, OthersStay
<1>1. job[w][p] \in JobType /\ row \in [Pairs -> RowType] /\ accepted \in [Pairs -> Nat]
  BY Tables
<1>2. crashes \in Nat /\ lost \in Nat
  BY DispatchAssumption DEF TypeOK
<1>3. ASSUME NEW from, NEW to \in {"none", "listed", "claim"} \cup Claimed, JobAt(w, p, from, to)
      PROVE  /\ job[w][p].at = from /\ job'[w][p].at = to /\ job'[w][p].held = job[w][p].held
             /\ \A v \in Workers, q \in Pairs : v # w \/ q # p => job'[v][q] = job[v][q]
  <2>1. Moves(w, p, from, to)
    BY <1>3, JobMoves
  <2> QED  BY <1>1, <2>1 DEF Moves, JobType
<1>4. ASSUME JobDone(w, p)
      PROVE  /\ job'[w][p] = NoJob
             /\ \A v \in Workers, q \in Pairs : v # w \/ q # p => job'[v][q] = job[v][q]
  BY <1>4, JobEnds DEF Ends
<1>5. ASSUME accepted' = [accepted EXCEPT ![p] = Count(@)]
      PROVE  /\ 0 < accepted'[p] /\ accepted'[p] <= accepted[p] + 1
             /\ \A q \in Pairs : q # p => accepted'[q] = accepted[q]
  BY <1>1, <1>5, DispatchAssumption DEF Count
<1>6. CASE Spawn(w, p)
  BY <1>2, <1>3, <1>6 DEF Spawn, BeforeClaim, KeepsLedger
<1>7. CASE Claim(w, p)
  BY <1>1, <1>2, <1>3, <1>7 DEF Claim, Claims, Claimed
<1>8. CASE ClaimSkipped(w, p)
  BY <1>2, <1>4, <1>8 DEF ClaimSkipped, BeforeClaim, KeepsLedger, NoJob
<1>9. CASE UnsafeUrl(w, p) \/ PostUnanswered(w, p)
  BY <1>2, <1>3, <1>9 DEF UnsafeUrl, PostUnanswered, Posts, Claimed
<1>10. CASE PostAccepted(w, p)
  BY <1>2, <1>3, <1>5, <1>10 DEF PostAccepted, Posts, Claimed
<1>11. CASE PostLost(w, p)
  BY <1>2, <1>3, <1>5, <1>11 DEF PostLost, Posts, Claimed
<1>12. CASE PostRejected(w, p)
  BY <1>2, <1>3, <1>12 DEF PostRejected, Posts, Claimed
<1>13. CASE RecordDelivered(w, p) \/ RecordFailed(w, p)
  BY <1>2, <1>4, <1>13, RecordRow DEF RecordDelivered, RecordFailed, Records
<1>14. CASE TaskError(w, p)
  BY <1>2, <1>4, <1>14 DEF TaskError, BeforeClaim, Abandons, KeepsLedger, NoJob
<1> QED  BY <1>6, <1>7, <1>8, <1>9, <1>10, <1>11, <1>12, <1>13, <1>14 DEF DispatchItem, Trouble

-----------------------------------------------------------------------------
(* The lease *)

\* Only a claim starts the clock.
LEMMA HeldStep ==
  ASSUME TypeOK, HeldOK, Next
  PROVE  HeldOK'
<1>1. CASE Calm \/ (\E s \in Subs : Delete(s))
  BY <1>1, DeleteFrame DEF Calm, HeldOK
<1>2. ASSUME NEW w \in Workers, Find(w) \/ Crash(w)  PROVE HeldOK'
  BY <1>2, CycleFrame DEF HeldOK
<1>3. ASSUME NEW w \in Workers, NEW p \in Pairs, DispatchItem(w, p) \/ Trouble(w, p)  PROVE HeldOK'
  <2>1. ASSUME NEW v \in Workers, NEW q \in Pairs, v # w \/ q # p, job'[v][q].at \notin Claimed
        PROVE  job'[v][q].held = 0
    BY <1>3, <2>1, ItemCases DEF OthersStay, HeldOK
  <2>2. ASSUME job'[w][p].at \notin Claimed  PROVE job'[w][p].held = 0
    BY <1>3, <2>2, ItemCases DEF BeforeClaim, Claims, Posts, Records, Abandons, HeldOK, Claimed, NoJob
  <2> QED  BY <2>1, <2>2 DEF HeldOK
<1>4. CASE Tick
  BY <1>4, TickFrame DEF HeldOK
<1> QED  BY <1>1, <1>2, <1>3, <1>4, NextCases

\* A row that a task holds cannot be claimed: it is not old enough.
LEMMA NotClaimable ==
  ASSUME TypeOK, LeaseOK, Hold <= Stale, NEW w \in Workers, NEW p \in Pairs,
         job[w][p].at \in Claimed, sub[p[1]] # "deleted"
  PROVE  ~Claimable(p)
<1>1. row[p].status = "claimed" /\ row[p].age = job[w][p].held
  BY DEF LeaseOK
<1>2. job[w][p] \in JobType
  BY Tables
<1>3. job[w][p].held \in 0 .. Hold
  BY <1>2 DEF JobType
<1> QED  BY <1>1, <1>3, DispatchAssumption DEF Claimable

\* A task keeps its lease until it records, abandons or dies.
LEMMA LeaseStep ==
  ASSUME TypeOK, HeldOK, LeaseOK, ExclusiveClaim, Next
  PROVE  LeaseOK'
<1> SUFFICES ASSUME Hold <= Stale, NEW v \in Workers, NEW q \in Pairs, job'[v][q].at \in Claimed
             PROVE  sub'[q[1]] = "deleted" \/ (row'[q].status = "claimed" /\ row'[q].age = job'[v][q].held)
  BY DEF LeaseOK
<1>1. q[1] \in Subs
  BY DEF Pairs
<1>2. job[v][q].at \in Claimed
        => sub[q[1]] = "deleted" \/ (row[q].status = "claimed" /\ row[q].age = job[v][q].held)
  BY DEF LeaseOK
<1>3. CASE Calm
  BY <1>1, <1>2, <1>3 DEF Calm, DeletedStays
<1>4. ASSUME NEW s \in Subs, Delete(s)  PROVE sub'[q[1]] = "deleted" \/ (row'[q].status = "claimed" /\ row'[q].age = job'[v][q].held)
  BY <1>1, <1>2, <1>4, DeleteFrame DEF DeletedStays
<1>5. ASSUME NEW w \in Workers, Find(w) \/ Crash(w)
      PROVE  sub'[q[1]] = "deleted" \/ (row'[q].status = "claimed" /\ row'[q].age = job'[v][q].held)
  BY <1>2, <1>5, CycleFrame DEF Claimed
<1>6. ASSUME NEW w \in Workers, NEW p \in Pairs, DispatchItem(w, p) \/ Trouble(w, p)
      PROVE  sub'[q[1]] = "deleted" \/ (row'[q].status = "claimed" /\ row'[q].age = job'[v][q].held)
  <2>1. OthersStay(w, p) /\ (BeforeClaim(w, p) \/ Claims(w, p) \/ Posts(w, p) \/ Records(w, p) \/ Abandons(w, p))
    BY <1>6, ItemCases
  <2>2. CASE q # p
    BY <1>2, <2>1, <2>2 DEF OthersStay
  <2>3. CASE q = p /\ v # w
    <3>1. job[v][p] = job'[v][p] /\ job[v][p].at \in Claimed /\ sub' = sub
      BY <2>1, <2>3 DEF OthersStay
    <3>2. CASE sub[p[1]] = "deleted"
      BY <2>3, <3>1, <3>2
    <3>3. CASE sub[p[1]] # "deleted"
      <4>1. job[w][p].at \notin Claimed
        BY <2>3, <3>1 DEF ExclusiveClaim
      <4>2. ~Claims(w, p)
        BY <3>1, <3>3, NotClaimable DEF Claims
      <4>3. row'[p] = row[p]
        BY <2>1, <4>1, <4>2 DEF BeforeClaim, Posts, Records, Abandons, KeepsLedger, Claimed
      <4> QED  BY <1>2, <2>3, <3>1, <4>3
    <3> QED  BY <3>2, <3>3
  <2>4. CASE q = p /\ v = w
    <3>1. CASE Claims(w, p)
      BY <2>4, <3>1 DEF Claims, HeldOK, Claimed
    <3>2. CASE Posts(w, p)
      BY <1>2, <2>1, <2>4, <3>2 DEF Posts, OthersStay, Claimed
    <3>3. CASE BeforeClaim(w, p) \/ Records(w, p) \/ Abandons(w, p)
      BY <2>4, <3>3 DEF BeforeClaim, Records, Abandons, NoJob, Claimed
    <3> QED  BY <2>1, <3>1, <3>2, <3>3
  <2> QED  BY <2>2, <2>3, <2>4
<1>7. CASE Tick
  <2>1. job[v][q].at \in Claimed /\ job[v][q].held < Hold /\ job'[v][q].held = job[v][q].held + 1
    BY <1>7, TickFrame
  <2>2. row[q].status = "claimed" /\ row[q].age = job[v][q].held => row[q].age <= Stale
    <3>1. job[v][q] \in JobType
      BY Tables
    <3> QED  BY <2>1, <3>1, DispatchAssumption DEF JobType
  <2> QED  BY <1>2, <1>7, <2>1, <2>2, TickFrame
<1> QED  BY <1>3, <1>4, <1>5, <1>6, <1>7, NextCases

\* Only a claim adds a holder, and it succeeds only when there is none.
LEMMA ExclusiveStep ==
  ASSUME TypeOK, LeaseOK, ExclusiveClaim, Next
  PROVE  ExclusiveClaim'
<1> SUFFICES ASSUME Hold <= Stale, NEW q \in Pairs, NEW u \in Workers, NEW v \in Workers,
                    job'[u][q].at \in Claimed, job'[v][q].at \in Claimed
             PROVE  u = v
  BY DEF ExclusiveClaim
<1>1. job[u][q].at \in Claimed /\ job[v][q].at \in Claimed => u = v
  BY DEF ExclusiveClaim
<1>2. CASE Calm \/ (\E s \in Subs : Delete(s))
  BY <1>1, <1>2, DeleteFrame DEF Calm
<1>3. ASSUME NEW w \in Workers, Find(w) \/ Crash(w)  PROVE u = v
  BY <1>1, <1>3, CycleFrame DEF Claimed
<1>4. ASSUME NEW w \in Workers, NEW p \in Pairs, DispatchItem(w, p) \/ Trouble(w, p)  PROVE u = v
  <2>1. OthersStay(w, p) /\ (BeforeClaim(w, p) \/ Claims(w, p) \/ Posts(w, p) \/ Records(w, p) \/ Abandons(w, p))
    BY <1>4, ItemCases
  <2>2. CASE Claims(w, p)
    <3>1. \A x \in Workers : job[x][p].at \notin Claimed
      BY <2>2, NotClaimable DEF Claims
    <3> QED  BY <1>1, <2>1, <3>1 DEF OthersStay
  <2>3. CASE ~Claims(w, p)
    <3>1. job'[w][p].at \in Claimed => job[w][p].at \in Claimed
      BY <2>1, <2>3 DEF BeforeClaim, Posts, Records, Abandons, NoJob, Claimed
    <3> QED  BY <1>1, <2>1, <3>1 DEF OthersStay
  <2> QED  BY <2>2, <2>3
<1>5. CASE Tick
  BY <1>1, <1>5, TickFrame
<1> QED  BY <1>2, <1>3, <1>4, <1>5, NextCases

-----------------------------------------------------------------------------
(* The account of deliveries *)

\* Deliveries are only added, so what was accepted stays accepted.
LEMMA AnsweredStep ==
  ASSUME TypeOK, AnsweredOK, DeliveredWasAccepted, Next
  PROVE  AnsweredOK' /\ DeliveredWasAccepted'
<1>1. \A q \in Pairs : accepted[q] \in Nat
  BY Tables
<1>2. CASE Calm
  BY <1>2 DEF Calm, AnsweredOK, DeliveredWasAccepted
<1>3. ASSUME NEW s \in Subs, Delete(s)  PROVE AnsweredOK' /\ DeliveredWasAccepted'
  BY <1>3, DeleteFrame DEF AnsweredOK, DeliveredWasAccepted, NoRow
<1>4. ASSUME NEW w \in Workers, Find(w) \/ Crash(w)  PROVE AnsweredOK' /\ DeliveredWasAccepted'
  BY <1>4, CycleFrame DEF AnsweredOK, DeliveredWasAccepted
<1>5. ASSUME NEW w \in Workers, NEW p \in Pairs, DispatchItem(w, p) \/ Trouble(w, p)
      PROVE  AnsweredOK' /\ DeliveredWasAccepted'
  <2>1. OthersStay(w, p) /\ (BeforeClaim(w, p) \/ Claims(w, p) \/ Posts(w, p) \/ Records(w, p) \/ Abandons(w, p))
    BY <1>5, ItemCases
  <2>2. accepted[p] > 0 => accepted'[p] > 0
    BY <2>1 DEF BeforeClaim, Claims, Posts, Records, Abandons, KeepsLedger
  <2>3. job'[w][p].at = "ok" => accepted'[p] > 0
    BY <2>1 DEF BeforeClaim, Claims, Posts, Records, Abandons, NoJob
  <2>4. row'[p].status = "delivered" => row[p].status = "delivered" \/ job[w][p].at = "ok"
    BY <2>1 DEF BeforeClaim, Claims, Posts, Records, Abandons, KeepsLedger
  <2>5. AnsweredOK'
    BY <2>1, <2>2, <2>3 DEF AnsweredOK, OthersStay
  <2>6. DeliveredWasAccepted'
    BY <2>1, <2>2, <2>4 DEF AnsweredOK, DeliveredWasAccepted, OthersStay
  <2> QED  BY <2>5, <2>6
<1>6. CASE Tick
  BY <1>6, TickFrame DEF AnsweredOK, DeliveredWasAccepted
<1> QED  BY <1>2, <1>3, <1>4, <1>5, <1>6, NextCases

\* The account of one pair, with the number of accidents so far.
Account(p) ==
  /\ accepted[p] <= 1 + (crashes + lost)
  /\ Settled(p) \/ accepted[p] <= crashes + lost
  /\ \A w \in Workers : job[w][p].at \in {"post", "err"} => accepted[p] <= crashes + lost

\* An accepted POST makes a pair settled or comes with an accident; a pair
\* that stops being settled has met with one.
LEMMA AccountStep ==
  ASSUME TypeOK, LeaseOK, ExclusiveClaim, AccountOK, DuplicatesAreExplained, Next
  PROVE  AccountOK' /\ DuplicatesAreExplained'
<1>1. /\ crashes \in Nat /\ lost \in Nat /\ crashes' \in Nat /\ lost' \in Nat
      /\ \A q \in Pairs : accepted[q] \in Nat /\ accepted'[q] \in Nat
  <2>1. TypeOK'
    BY TypeStep
  <2> QED  BY <2>1, DispatchAssumption DEF TypeOK
<1> SUFFICES ASSUME Hold <= Stale, NEW q \in Pairs  PROVE Account(q)'
  BY <1>1 DEF AccountOK, DuplicatesAreExplained, Account
<1>2. Account(q)
  BY <1>1 DEF AccountOK, DuplicatesAreExplained, Account
<1>3. q[1] \in Subs
  BY DEF Pairs
<1>4. CASE Calm
  BY <1>2, <1>3, <1>4 DEF Calm, DeletedStays, Account, Settled
<1>5. ASSUME NEW s \in Subs, Delete(s)  PROVE Account(q)'
  BY <1>2, <1>3, <1>5, DeleteFrame DEF DeletedStays, Account, Settled
<1>6. ASSUME NEW w \in Workers, Find(w) \/ Crash(w)  PROVE Account(q)'
  <2>1. CASE crashes' = crashes + 1
    BY <1>1, <1>2, <1>6, <2>1, CycleFrame DEF Account, Settled
  <2>2. CASE crashes' = crashes /\ \A p \in Pairs : job[w][p] = NoJob
    <3>1. \A v \in Workers : job'[v][q].at = job[v][q].at \/ (v = w /\ job'[v][q].at \in {"none", "listed"})
      BY <1>6, CycleFrame
    <3>2. job[w][q].at # "ok"
      BY <2>2 DEF NoJob
    <3>3. UNCHANGED <<sub, row, accepted, lost, crashes>>
      BY <1>6, <2>2, CycleFrame
    <3>4. Settled(q) => Settled(q)'
      BY <3>1, <3>2, <3>3 DEF Settled
    <3> QED  BY <1>2, <3>1, <3>3, <3>4 DEF Account
  <2> QED  BY <1>6, <2>1, <2>2, CycleFrame
<1>7. ASSUME NEW w \in Workers, NEW p \in Pairs, DispatchItem(w, p) \/ Trouble(w, p)  PROVE Account(q)'
  <2>1. OthersStay(w, p) /\ (BeforeClaim(w, p) \/ Claims(w, p) \/ Posts(w, p) \/ Records(w, p) \/ Abandons(w, p))
    BY <1>7, ItemCases
  <2>2. crashes' + lost' >= crashes + lost
    <3>1. crashes + lost \in Nat /\ crashes' + lost' \in Nat
      BY <1>1
    <3>2. \/ crashes' + lost' >= crashes + lost
          \/ crashes' + lost' = crashes + lost
          \/ crashes' + lost' = crashes + lost + 1
      BY <2>1 DEF BeforeClaim, Claims, Posts, Records, Abandons
    <3> QED  BY <3>1, <3>2
  <2>3. CASE q # p
    <3>1. \A v \in Workers : job'[v][q] = job[v][q]
      BY <2>1, <2>3 DEF OthersStay
    <3>2. row'[q] = row[q] /\ accepted'[q] = accepted[q] /\ sub' = sub
      BY <2>1, <2>3 DEF OthersStay
    <3>3. Settled(q) => Settled(q)'
      BY <3>1, <3>2 DEF Settled
    <3> QED  BY <1>1, <1>2, <2>2, <3>1, <3>2, <3>3 DEF Account
  <2>4. CASE q = p
    <3>1. sub' = sub /\ \A v \in Workers : v # w => job'[v][p] = job[v][p]
      BY <2>1 DEF OthersStay
    <3>2. CASE BeforeClaim(w, p)
      <4>1. /\ accepted'[p] = accepted[p] /\ row'[p] = row[p]
            /\ job[w][p].at # "ok" /\ job'[w][p].at \notin {"ok", "post", "err"}
        BY <3>2 DEF BeforeClaim, KeepsLedger
      <4>2. Settled(p) => Settled(p)'
        BY <3>1, <4>1 DEF Settled
      <4> QED  BY <1>1, <1>2, <2>2, <2>4, <3>1, <4>1, <4>2 DEF Account
    <3>3. CASE Claims(w, p)
      <4>1. \A v \in Workers : job[v][p].at \notin Claimed
        BY <3>3, NotClaimable DEF Claims
      <4>2. ~Settled(p)
        BY <3>3, <4>1 DEF Claims, Claimable, Settled, Claimed
      <4>3. accepted'[p] <= crashes' + lost'
        BY <1>2, <2>4, <3>3, <4>2 DEF Account, Claims
      <4> QED  BY <1>1, <2>4, <4>3 DEF Account
    <3>4. CASE Posts(w, p)
      <4>1. accepted[p] <= crashes + lost
        BY <1>2, <2>4, <3>4 DEF Posts, Account
      <4>2. \A v \in Workers : v # w => job'[v][p].at \notin {"post", "err"}
        BY <3>1, <3>4 DEF Posts, ExclusiveClaim, Claimed
      <4>3. CASE job'[w][p].at = "ok"
        <5>1. accepted'[p] <= accepted[p] + 1 /\ crashes' + lost' = crashes + lost
          BY <3>4, <4>3 DEF Posts
        <5>2. accepted'[p] <= 1 + (crashes' + lost')
          <6>1. /\ accepted[p] \in Nat /\ accepted'[p] \in Nat
                /\ crashes + lost \in Nat /\ crashes' + lost' \in Nat
            BY <1>1
          <6> QED  BY <4>1, <5>1, <6>1
        <5>3. Settled(p)'
          BY <4>3 DEF Settled
        <5> QED  BY <2>4, <4>2, <4>3, <5>2, <5>3 DEF Account
      <4>4. CASE job'[w][p].at = "err"
        <5>1. \/ accepted'[p] = accepted[p] /\ crashes' + lost' = crashes + lost
              \/ accepted'[p] <= accepted[p] + 1 /\ crashes' + lost' = crashes + lost + 1
          BY <3>4, <4>4 DEF Posts
        <5>2. accepted'[p] <= crashes' + lost' /\ accepted'[p] <= 1 + (crashes' + lost')
          BY <1>1, <4>1, <5>1
        <5> QED  BY <2>4, <5>2 DEF Account
      <4> QED  BY <3>4, <4>3, <4>4 DEF Posts
    <3>5. CASE Records(w, p)
      <4>1. accepted'[p] = accepted[p] /\ crashes' + lost' = crashes + lost /\ job'[w][p].at = "none"
        BY <3>5 DEF Records, NoJob
      <4>2. Settled(p)' \/ accepted[p] <= crashes + lost
        BY <1>2, <2>4, <3>1, <3>5 DEF Records, Account, Settled
      <4> QED  BY <1>1, <1>2, <2>4, <3>1, <4>1, <4>2 DEF Account
    <3>6. CASE Abandons(w, p)
      <4>1. accepted'[p] = accepted[p] /\ crashes' + lost' = crashes + lost + 1
        BY <3>6 DEF Abandons, KeepsLedger
      <4> QED  BY <1>1, <1>2, <2>4, <4>1 DEF Account
    <3> QED  BY <2>1, <3>2, <3>3, <3>4, <3>5, <3>6
  <2> QED  BY <2>3, <2>4
<1>8. CASE Tick
  <2>1. \A v \in Workers : job'[v][q].at = job[v][q].at
    BY <1>8, TickFrame
  <2>2. UNCHANGED <<sub, accepted, crashes, lost>> /\ row'[q].status = row[q].status
    BY <1>8, TickFrame
  <2> QED  BY <1>2, <2>1, <2>2 DEF Account, Settled
<1> QED  BY <1>4, <1>5, <1>6, <1>7, <1>8, NextCases

-----------------------------------------------------------------------------
(* The theorems *)

\* The invariant holds initially ...
LEMMA InitInv == Init => DInv
<1> SUFFICES ASSUME Init  PROVE DInv
  OBVIOUS
<1>1. TypeOK
  BY InitType
<1>2. \A w \in Workers, p \in Pairs : job[w][p] = NoJob
  BY DEF Init
<1>3. \A p \in Pairs : row[p] = NoRow /\ accepted[p] = 0
  BY DEF Init
<1>4. HeldOK /\ LeaseOK /\ ExclusiveClaim /\ AnsweredOK
  BY <1>2 DEF HeldOK, LeaseOK, ExclusiveClaim, AnsweredOK, NoJob, Claimed
<1>5. DeliveredWasAccepted
  BY <1>3 DEF DeliveredWasAccepted, NoRow
<1>6. AccountOK /\ DuplicatesAreExplained
  BY <1>3 DEF Init, AccountOK, DuplicatesAreExplained
<1> QED  BY <1>1, <1>4, <1>5, <1>6 DEF DInv

\* ... and every step, stuttering steps included, keeps it.
LEMMA StepInv == DInv /\ [Next]_vars => DInv'
<1> SUFFICES ASSUME DInv, [Next]_vars  PROVE DInv'
  OBVIOUS
<1>1. CASE Next
  <2> USE <1>1 DEF DInv
  <2>1. TypeOK'  BY TypeStep
  <2>2. HeldOK'  BY HeldStep
  <2>3. LeaseOK'  BY LeaseStep
  <2>4. ExclusiveClaim'  BY ExclusiveStep
  <2>5. AnsweredOK' /\ DeliveredWasAccepted'  BY AnsweredStep
  <2>6. AccountOK' /\ DuplicatesAreExplained'  BY AccountStep
  <2> QED  BY <2>1, <2>2, <2>3, <2>4, <2>5, <2>6
<1>2. CASE UNCHANGED vars
  BY <1>2 DEF vars, bounds, DInv, TypeOK, HeldOK, LeaseOK, ExclusiveClaim, AnsweredOK, DeliveredWasAccepted,
              AccountOK, Settled, DuplicatesAreExplained
<1> QED  BY <1>1, <1>2

\* DInv is an invariant of the dispatchers.
THEOREM Invariance == Spec => []DInv
BY InitInv, StepInv, PTL DEF Spec

\* The tables and the tasks keep their types.
THEOREM TypeCorrect == Spec => []TypeOK
<1>1. DInv => TypeOK
  BY DEF DInv
<1> QED  BY <1>1, Invariance, PTL

\* try_claim_alert_match gives a pair to one task at a time, among any number
\* of dispatchers, when a claim is settled before CLAIM_STALE_AFTER_SECS.
THEOREM ClaimsAreExclusive == Spec => []ExclusiveClaim
<1>1. DInv => ExclusiveClaim
  BY DEF DInv
<1> QED  BY <1>1, Invariance, PTL

\* record_alert_delivery writes "delivered" only for a pair that the receiver
\* has taken; no lease is needed for this.
THEOREM DeliveredIsTrue == Spec => []DeliveredWasAccepted
<1>1. DInv => DeliveredWasAccepted
  BY DEF DInv
<1> QED  BY <1>1, Invariance, PTL

\* The receiver sees a pair once, and once more at most for every crash, failed
\* task and lost answer.
THEOREM DuplicatesBounded == Spec => []DuplicatesAreExplained
<1>1. DInv => DuplicatesAreExplained
  BY DEF DInv
<1> QED  BY <1>1, Invariance, PTL

\* Nothing touches a delivered row or posts its pair again, short of deleting
\* the subscription.
THEOREM DeliveredStays == Spec => DeliveredIsFinal
<1>1. DInv /\ [Next]_vars => [KeepsDelivered]_vars
  <2> SUFFICES ASSUME DInv, Next, NEW q \in Pairs,
                      Hold <= Stale, row[q].status = "delivered", sub'[q[1]] # "deleted"
               PROVE  row'[q].status = "delivered" /\ accepted'[q] = accepted[q]
    BY DEF KeepsDelivered
  <2> USE DEF DInv
  <2>1. q[1] \in Subs
    BY DEF Pairs
  <2>2. CASE Calm
    BY <2>2 DEF Calm
  <2>3. ASSUME NEW s \in Subs, Delete(s)  PROVE row'[q].status = "delivered" /\ accepted'[q] = accepted[q]
    BY <2>3, DeleteFrame
  <2>4. ASSUME NEW w \in Workers, Find(w) \/ Crash(w)
        PROVE  row'[q].status = "delivered" /\ accepted'[q] = accepted[q]
    BY <2>4, CycleFrame
  <2>5. ASSUME NEW w \in Workers, NEW p \in Pairs, DispatchItem(w, p) \/ Trouble(w, p)
        PROVE  row'[q].status = "delivered" /\ accepted'[q] = accepted[q]
    <3>1. OthersStay(w, p) /\ (BeforeClaim(w, p) \/ Claims(w, p) \/ Posts(w, p) \/ Records(w, p) \/ Abandons(w, p))
      BY <2>5, ItemCases
    <3>2. CASE q # p
      BY <3>1, <3>2 DEF OthersStay
    <3>3. CASE q = p
      <4>1. sub[p[1]] # "deleted"
        BY <3>1, <3>3 DEF OthersStay
      <4>2. job[w][p].at \notin Claimed
        BY <3>3, <4>1 DEF LeaseOK
      <4>3. ~Claims(w, p)
        BY <3>3 DEF Claims, Claimable
      <4>4. BeforeClaim(w, p)
        BY <3>1, <4>2, <4>3 DEF Posts, Records, Abandons, Claimed
      <4> QED  BY <3>3, <4>4 DEF BeforeClaim, KeepsLedger
    <3> QED  BY <3>2, <3>3
  <2>6. CASE Tick
    BY <2>6, TickFrame
  <2> QED  BY <2>2, <2>3, <2>4, <2>5, <2>6, NextCases
<1> QED  BY <1>1, Invariance, PTL DEF Spec, DeliveredIsFinal
=============================================================================
