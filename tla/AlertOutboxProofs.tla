-------------------------- MODULE AlertOutboxProofs --------------------------
(***************************************************************************)
(* The dispatchers implement the outbox: proof of the refinement that      *)
(* AlertOutbox maps out, for any number of dispatchers, subscriptions and  *)
(* transactions, where Hold <= Stale.                                      *)
(***************************************************************************)
EXTENDS AlertOutbox, AlertDispatchProofs

-----------------------------------------------------------------------------
(* The rest of the invariant *)

\* A deleted subscription has taken its ledger rows along, and no late result
\* brings one back: its pairs are never done.
DeletedOK == \A p \in Pairs : sub[p[1]] = "deleted" => row[p].status # "delivered"

OInv == DInv /\ DeletedOK

\* Only Delete cancels a subscription.
LEMMA CancelledBy ==
  ASSUME TypeOK, Next, \A s \in Subs : ~Delete(s)
  PROVE  \A s \in Subs : sub'[s] = "deleted" <=> sub[s] = "deleted"
<1> USE DEF TypeOK
<1>1. ASSUME NEW s \in Subs, Subscribe(s) \/ Deactivate(s) \/ Rotate(s)
      PROVE  \A r \in Subs : sub'[r] = "deleted" <=> sub[r] = "deleted"
  BY <1>1 DEF Subscribe, Deactivate, Rotate
<1>2. ASSUME NEW t \in Txs, FailedRolledBack(t) \/ FailedInserted(t)  PROVE sub' = sub
  BY <1>2 DEF FailedRolledBack, FailedInserted
<1>3. ASSUME NEW w \in Workers, Find(w) \/ Crash(w)  PROVE sub' = sub
  BY <1>3 DEF Find, Crash
<1>4. ASSUME NEW w \in Workers, NEW p \in Pairs, DispatchItem(w, p) \/ Trouble(w, p)  PROVE sub' = sub
  BY <1>4, ItemCases DEF OthersStay
<1>5. CASE Tick
  BY <1>5 DEF Tick
<1> QED  BY <1>1, <1>2, <1>3, <1>4, <1>5 DEF Next, Administer

\* A late record of a deleted subscription writes nothing.
LEMMA DeletedStep ==
  ASSUME TypeOK, DeletedOK, Next
  PROVE  DeletedOK'
<1> SUFFICES ASSUME NEW q \in Pairs, sub'[q[1]] = "deleted"  PROVE row'[q].status # "delivered"
  BY DEF DeletedOK
<1>1. q[1] \in Subs
  BY DEF Pairs
<1>2. ASSUME NEW s \in Subs, Delete(s)  PROVE row'[q].status # "delivered"
  <2>1. sub[q[1]] = "deleted" \/ q[1] = s
    BY <1>1, <1>2 DEF Delete, TypeOK
  <2> QED  BY <1>2, <2>1 DEF Delete, DeletedOK, NoRow
<1>3. ASSUME \A s \in Subs : ~Delete(s)  PROVE row'[q].status # "delivered"
  <2>1. row[q].status # "delivered" /\ sub[q[1]] = "deleted"
    BY <1>1, <1>3, CancelledBy DEF DeletedOK
  <2>2. CASE Calm
    BY <2>1, <2>2 DEF Calm
  <2>3. ASSUME NEW w \in Workers, Find(w) \/ Crash(w)  PROVE row'[q].status # "delivered"
    BY <2>1, <2>3, CycleFrame
  <2>4. ASSUME NEW w \in Workers, NEW p \in Pairs, DispatchItem(w, p) \/ Trouble(w, p)
        PROVE  row'[q].status # "delivered"
    BY <2>1, <2>4, ItemCases DEF OthersStay, BeforeClaim, Claims, Posts, Records, Abandons, KeepsLedger
  <2>5. CASE Tick
    BY <2>1, <2>5, TickFrame
  <2> QED  BY <1>3, <2>2, <2>3, <2>4, <2>5, NextCases
<1> QED  BY <1>2, <1>3

\* OInv is an invariant of the dispatchers.
LEMMA OutboxInvariance == Spec => []OInv
<1>1. Init => DeletedOK
  BY DEF Init, DeletedOK, NoRow
<1>2. DInv /\ DeletedOK /\ [Next]_vars => DeletedOK'
  <2> SUFFICES ASSUME DInv, DeletedOK, [Next]_vars  PROVE DeletedOK'
    OBVIOUS
  <2>1. CASE Next
    BY <2>1, DeletedStep DEF DInv
  <2>2. CASE UNCHANGED vars
    BY <2>2 DEF vars, DeletedOK
  <2> QED  BY <2>1, <2>2
<1> QED  BY <1>1, <1>2, Invariance, PTL DEF Spec, OInv

-----------------------------------------------------------------------------
(* Phases *)

\* The phase of a pair whose only possible holder is at this point.
PhaseBy(status, at) ==
  IF status = "delivered" THEN "done"
  ELSE IF at = "ok" THEN "sent"
  ELSE IF at = "post" THEN "held"
  ELSE "free"

\* No other task than w's is posting p or waiting to record its delivery.
SoleHolder(w, p) == \A v \in Workers : v # w => job[v][p].at \notin {"post", "ok"}

\* The phase of a pair with a sole holder, before and after a step of it.
LEMMA SolePhase ==
  ASSUME NEW w \in Workers, NEW p \in Pairs, SoleHolder(w, p),
         \A v \in Workers : v # w => job'[v][p] = job[v][p]
  PROVE  /\ PhaseOf(p) = PhaseBy(row[p].status, job[w][p].at)
         /\ PhaseOf(p)' = PhaseBy(row'[p].status, job'[w][p].at)
BY DEF SoleHolder, PhaseOf, PhaseBy, SomeTaskAt

\* A phase stays where the ledger and the points "post" and "ok" do.
LEMMA PhaseStays ==
  ASSUME NEW p \in Pairs, row'[p].status = row[p].status,
         \A w \in Workers : \/ job'[w][p].at = job[w][p].at
                            \/ {job'[w][p].at, job[w][p].at} \cap {"post", "ok"} = {}
  PROVE  PhaseOf(p)' = PhaseOf(p)
<1>1. \A w \in Workers : /\ job'[w][p].at = "post" <=> job[w][p].at = "post"
                         /\ job'[w][p].at = "ok" <=> job[w][p].at = "ok"
  OBVIOUS
<1> QED  BY <1>1 DEF PhaseOf, SomeTaskAt

\* Initial states map to initial states ...
LEMMA InitRefines == Init => Outbox!Init
<1> SUFFICES ASSUME Init  PROVE Outbox!Init
  OBVIOUS
<1>1. ASSUME NEW p \in Pairs  PROVE PhaseOf(p) = "free"
  BY DEF Init, PhaseOf, SomeTaskAt, NoRow, NoJob
<1> QED  BY <1>1 DEF Init, Outbox!Init

\* Nothing that the outbox shows has changed.
Unseen ==
  /\ \A p \in Pairs : PhaseOf(p)' = PhaseOf(p)
  /\ \A s \in Subs : sub'[s] = "deleted" <=> sub[s] = "deleted"
  /\ accepted' = accepted

\* A step that is not seen is a stutter of the outbox.
LEMMA UnseenStutters ==
  ASSUME Unseen
  PROVE  UNCHANGED Outbox!vars
BY DEF Unseen, Outbox!vars

\* One pair changes its phase.
LEMMA OnePhase ==
  ASSUME NEW w \in Workers, NEW p \in Pairs, OthersStay(w, p)
  PROVE  /\ [q \in Pairs |-> PhaseOf(q)]' = [[q \in Pairs |-> PhaseOf(q)] EXCEPT ![p] = PhaseOf(p)']
         /\ {s \in Subs : sub[s] = "deleted"}' = {s \in Subs : sub[s] = "deleted"}
<1>1. ASSUME NEW q \in Pairs, q # p  PROVE PhaseOf(q)' = PhaseOf(q)
  BY <1>1, PhaseStays DEF OthersStay
<1> QED  BY <1>1 DEF OthersStay

-----------------------------------------------------------------------------
(* Every step is a step of the outbox, or unseen *)

\* Deleting a subscription: what was done is free again, and a task at work
\* for it keeps its phase.
LEMMA DeleteRefines ==
  ASSUME OInv, Hold <= Stale, NEW s \in Subs, Delete(s)
  PROVE  Outbox!Cancel(s)
<1> USE DEF OInv, DInv
<1>1. sub' = [sub EXCEPT ![s] = "deleted"] /\ sub \in [Subs -> {"none", "active", "inactive", "deleted"}]
  BY DEF Delete, TypeOK
<1>2. sub[s] # "deleted" /\ job' = job /\ accepted' = accepted
  BY DEF Delete
<1>3. ASSUME NEW p \in Pairs
      PROVE  PhaseOf(p)' = IF p[1] = s /\ PhaseOf(p) = "done" THEN "free" ELSE PhaseOf(p)
  <2>1. row'[p] = IF p[1] = s THEN NoRow ELSE row[p]
    BY DEF Delete
  <2>2. CASE p[1] = s /\ row[p].status = "delivered"
    <3>1. \A w \in Workers : job[w][p].at \notin Claimed
      BY <1>2, <2>2 DEF LeaseOK
    <3> QED  BY <1>2, <2>1, <2>2, <3>1 DEF PhaseOf, SomeTaskAt, NoRow, Claimed
  <2>3. CASE p[1] = s /\ row[p].status # "delivered"
    BY <1>2, <2>1, <2>3 DEF PhaseOf, SomeTaskAt, NoRow
  <2>4. CASE p[1] # s
    BY <1>2, <2>1, <2>4 DEF PhaseOf, SomeTaskAt
  <2> QED  BY <2>2, <2>3, <2>4
<1>4. {r \in Subs : sub[r] = "deleted"}' = {r \in Subs : sub[r] = "deleted"} \cup {s}
  BY <1>1
<1> QED  BY <1>2, <1>3, <1>4 DEF Outbox!Cancel

\* A dispatcher that dies gives up on what it was posting or about to record.
LEMMA CrashRefines ==
  ASSUME OInv, Hold <= Stale, NEW w \in Workers, Crash(w)
  PROVE  Outbox!Next \/ UNCHANGED Outbox!vars
<1> DEFINE M == {p \in Pairs : job[w][p].at \in {"post", "ok"}}
<1>1. /\ UNCHANGED <<sub, row, accepted>>
      /\ \A v \in Workers, p \in Pairs : v # w => job'[v][p] = job[v][p]
      /\ \A p \in Pairs : job'[w][p].at \in {"none", "listed"}
  BY CycleFrame DEF OInv, DInv
<1>2. ASSUME NEW p \in Pairs, p \notin M  PROVE PhaseOf(p)' = PhaseOf(p)
  BY <1>1, <1>2, PhaseStays
<1>3. ASSUME NEW p \in Pairs, p \in M
      PROVE  PhaseOf(p) \in {"held", "sent"} /\ PhaseOf(p)' = "free"
  <2>1. SoleHolder(w, p)
    BY <1>3 DEF SoleHolder, ExclusiveClaim, Claimed, OInv, DInv
  <2>2. row[p].status # "delivered"
    BY <1>3 DEF LeaseOK, DeletedOK, Claimed, OInv, DInv
  <2> QED  BY <1>1, <1>3, <2>1, <2>2, SolePhase DEF PhaseBy
<1>4. CASE M = {}
  <2>1. Unseen
    BY <1>1, <1>2, <1>4 DEF Unseen
  <2> QED  BY <2>1, UnseenStutters
<1>5. CASE M # {}
  <2>1. M \in SUBSET Pairs
    OBVIOUS
  <2>2. \A m \in M : PhaseOf(m) \in {"held", "sent"}
    BY <1>3
  <2>3. \A p \in Pairs : PhaseOf(p)' = IF p \in M THEN "free" ELSE PhaseOf(p)
    BY <1>2, <1>3
  <2> HIDE DEF M
  <2>4. Outbox!GiveUp(M)
    BY <1>1, <1>5, <2>1, <2>2, <2>3 DEF Outbox!GiveUp
  <2> QED  BY <2>1, <2>4 DEF Outbox!Next
<1> QED  BY <1>4, <1>5

\* A task that comes to an end without a recorded delivery gives up, if its
\* pair had a phase to lose.
LEMMA GiveUpOne ==
  ASSUME NEW w \in Workers, NEW p \in Pairs, OthersStay(w, p), accepted' = accepted,
         PhaseOf(p) \in {"held", "sent"}, PhaseOf(p)' = "free"
  PROVE  Outbox!Next
<1>1. \A q \in Pairs : PhaseOf(q)' = IF q \in {p} THEN "free" ELSE PhaseOf(q)
  BY OnePhase
<1>2. Outbox!GiveUp({p})
  BY <1>1, OnePhase DEF Outbox!GiveUp
<1>3. {p} \in SUBSET Pairs
  OBVIOUS
<1> QED  BY <1>2, <1>3 DEF Outbox!Next

\* The steps of a task.
LEMMA ItemRefines ==
  ASSUME OInv, Hold <= Stale, NEW w \in Workers, NEW p \in Pairs, DispatchItem(w, p) \/ Trouble(w, p)
  PROVE  Outbox!Next \/ UNCHANGED Outbox!vars
<1> USE DEF OInv, DInv
<1>1. OthersStay(w, p) /\ (BeforeClaim(w, p) \/ Claims(w, p) \/ Posts(w, p) \/ Records(w, p) \/ Abandons(w, p))
  BY ItemCases
<1>2. \A v \in Workers : v # w => job'[v][p] = job[v][p]
  BY <1>1 DEF OthersStay
<1>3. accepted \in [Pairs -> Nat] /\ p[1] \in Subs
  BY Tables DEF Pairs
<1>4. ASSUME accepted'[p] = accepted[p]  PROVE accepted' = accepted
  <2>1. TypeOK'
    BY TypeStep DEF Next
  <2>2. accepted' \in [Pairs -> Nat]
    BY <2>1 DEF TypeOK
  <2> QED  BY <1>1, <1>3, <1>4, <2>2 DEF OthersStay
<1>5. ASSUME PhaseOf(p)' = PhaseOf(p), accepted' = accepted  PROVE UNCHANGED Outbox!vars
  BY <1>5, OnePhase, <1>1 DEF Outbox!vars
<1>6. ASSUME job[w][p].at \in Claimed
      PROVE  /\ row[p].status # "delivered"
             /\ PhaseOf(p) = PhaseBy(row[p].status, job[w][p].at)
             /\ PhaseOf(p)' = PhaseBy(row'[p].status, job'[w][p].at)
  <2>1. SoleHolder(w, p)
    BY <1>6 DEF SoleHolder, ExclusiveClaim, Claimed
  <2>2. row[p].status # "delivered"
    BY <1>6 DEF LeaseOK, DeletedOK
  <2> QED  BY <1>2, <2>1, <2>2, SolePhase
<1>7. CASE BeforeClaim(w, p)
  <2>1. PhaseOf(p)' = PhaseOf(p)
    BY <1>2, <1>7, PhaseStays DEF BeforeClaim, KeepsLedger
  <2> QED  BY <1>4, <1>5, <1>7, <2>1 DEF BeforeClaim, KeepsLedger
<1>8. CASE Claims(w, p)
  <2>1. \A v \in Workers : job[v][p].at \notin Claimed
    BY <1>8, NotClaimable DEF Claims
  <2>2. SoleHolder(w, p)
    BY <2>1 DEF SoleHolder, Claimed
  <2>3. PhaseOf(p) = "free" /\ PhaseOf(p)' = "held"
    BY <1>2, <1>8, <2>2, SolePhase DEF Claims, Claimable, PhaseBy
  <2>4. Outbox!Take(p)
    BY <1>1, <1>4, <1>8, <2>3, OnePhase DEF Outbox!Take, Outbox!Move, Claims
  <2> QED  BY <2>4 DEF Outbox!Next
<1>9. CASE PostAccepted(w, p)
  <2>1. job[w][p].at = "post" /\ job'[w][p].at = "ok" /\ row' = row
    BY <1>9, Tables DEF PostAccepted, JobAt, JobType
  <2>2. PhaseOf(p) = "held" /\ PhaseOf(p)' = "sent"
    BY <1>6, <2>1 DEF PhaseBy, Claimed
  <2>3. Outbox!Accept(p)
    BY <1>1, <1>9, <2>2, OnePhase DEF Outbox!Accept, Outbox!Move, PostAccepted
  <2> QED  BY <2>3 DEF Outbox!Next
<1>10. CASE PostLost(w, p)
  <2>1. job[w][p].at = "post" /\ job'[w][p].at = "err" /\ row' = row
    BY <1>10, Tables DEF PostLost, JobAt, JobType
  <2>2. PhaseOf(p) = "held" /\ PhaseOf(p)' = "free"
    BY <1>6, <2>1 DEF PhaseBy, Claimed
  <2>3. Outbox!Lose(p)
    BY <1>1, <1>10, <2>2, OnePhase DEF Outbox!Lose, Outbox!Move, PostLost
  <2> QED  BY <2>3 DEF Outbox!Next
<1>11. CASE UnsafeUrl(w, p) \/ PostUnanswered(w, p) \/ PostRejected(w, p)
  <2>1. job[w][p].at = "post" /\ job'[w][p].at = "err" /\ row' = row /\ accepted' = accepted
    BY <1>11, Tables DEF UnsafeUrl, PostUnanswered, PostRejected, JobAt, JobType
  <2>2. PhaseOf(p) = "held" /\ PhaseOf(p)' = "free"
    BY <1>6, <2>1 DEF PhaseBy, Claimed
  <2> QED  BY <1>1, <2>1, <2>2, GiveUpOne
<1>12. CASE Records(w, p)
  <2>1. /\ job[w][p].at \in {"ok", "err"} /\ job'[w][p].at = "none" /\ accepted' = accepted
        /\ IF sub[p[1]] = "deleted" THEN row'[p] = row[p]
           ELSE row'[p].status = IF job[w][p].at = "ok" THEN "delivered" ELSE "failed"
    BY <1>4, <1>12 DEF Records, NoJob
  <2>2. CASE job[w][p].at = "err"
    <3>1. PhaseOf(p)' = PhaseOf(p)
      BY <1>6, <2>1, <2>2 DEF PhaseBy, Claimed
    <3> QED  BY <1>5, <2>1, <3>1
  <2>3. CASE job[w][p].at = "ok" /\ sub[p[1]] = "deleted"
    <3>1. PhaseOf(p) = "sent" /\ PhaseOf(p)' = "free"
      BY <1>6, <2>1, <2>3 DEF PhaseBy, Claimed
    <3> QED  BY <1>1, <2>1, <3>1, GiveUpOne
  <2>4. CASE job[w][p].at = "ok" /\ sub[p[1]] # "deleted"
    <3>1. PhaseOf(p) = "sent" /\ PhaseOf(p)' = "done"
      BY <1>6, <2>1, <2>4 DEF PhaseBy, Claimed
    <3>2. Outbox!Finish(p)
      BY <1>1, <2>1, <2>4, <3>1, OnePhase DEF Outbox!Finish, Outbox!Move
    <3> QED  BY <3>2 DEF Outbox!Next
  <2> QED  BY <2>1, <2>2, <2>3, <2>4
<1>13. CASE Abandons(w, p)
  <2>1. job[w][p].at \in Claimed /\ job'[w][p].at = "none" /\ row'[p] = row[p] /\ accepted' = accepted
    BY <1>4, <1>13 DEF Abandons, KeepsLedger, NoJob
  <2>2. CASE job[w][p].at = "err"
    <3>1. PhaseOf(p)' = PhaseOf(p)
      BY <1>6, <2>1, <2>2 DEF PhaseBy
    <3> QED  BY <1>5, <2>1, <3>1
  <2>3. CASE job[w][p].at # "err"
    <3>1. PhaseOf(p) \in {"held", "sent"} /\ PhaseOf(p)' = "free"
      BY <1>6, <2>1, <2>3 DEF PhaseBy, Claimed
    <3> QED  BY <1>1, <2>1, <3>1, GiveUpOne
  <2> QED  BY <2>2, <2>3
<1>14. Posts(w, p) => PostAccepted(w, p) \/ PostLost(w, p) \/ UnsafeUrl(w, p)
        \/ PostUnanswered(w, p) \/ PostRejected(w, p)
  <2>1. TaskError(w, p) => job'[w][p].at = "none"
    BY JobEnds DEF TaskError, Ends, NoJob
  <2> QED  BY <2>1 DEF DispatchItem, Trouble, Posts, Spawn, Claim, ClaimSkipped, RecordDelivered, RecordFailed, JobAt
<1> QED  BY <1>1, <1>7, <1>8, <1>9, <1>10, <1>11, <1>12, <1>13, <1>14

\* ... and every step to a step of the outbox or to a stutter.
LEMMA StepRefines ==
  ASSUME OInv, Hold <= Stale, [Next]_vars
  PROVE  Outbox!Next \/ UNCHANGED Outbox!vars
<1> USE DEF OInv, DInv
<1>1. ASSUME NEW s \in Subs, Delete(s)  PROVE Outbox!Next
  BY <1>1, DeleteRefines DEF Outbox!Next
<1>2. CASE UNCHANGED vars
  BY <1>2 DEF vars, Outbox!vars, PhaseOf, SomeTaskAt
<1>3. ASSUME Next, \A s \in Subs : ~Delete(s)
      PROVE  Outbox!Next \/ UNCHANGED Outbox!vars
  <2>1. \A s \in Subs : sub'[s] = "deleted" <=> sub[s] = "deleted"
    BY <1>3, CancelledBy
  <2>2. CASE Calm
    <3>1. \A p \in Pairs : PhaseOf(p)' = PhaseOf(p)
      BY <2>2, PhaseStays DEF Calm
    <3>2. Unseen
      BY <2>1, <2>2, <3>1 DEF Unseen, Calm
    <3> QED  BY <3>2, UnseenStutters
  <2>3. ASSUME NEW w \in Workers, Find(w)  PROVE UNCHANGED Outbox!vars
    <3>1. /\ UNCHANGED <<row, accepted>>
          /\ \A v \in Workers, p \in Pairs : v # w => job'[v][p] = job[v][p]
          /\ \A p \in Pairs : job'[w][p].at \in {"none", "listed"} /\ job[w][p].at = "none"
      BY <2>3, CycleFrame DEF Find, NoJob
    <3>2. \A p \in Pairs : PhaseOf(p)' = PhaseOf(p)
      BY <3>1, PhaseStays
    <3>3. Unseen
      BY <2>1, <3>1, <3>2 DEF Unseen
    <3> QED  BY <3>3, UnseenStutters
  <2>4. ASSUME NEW w \in Workers, Crash(w)  PROVE Outbox!Next \/ UNCHANGED Outbox!vars
    BY <2>4, CrashRefines
  <2>5. ASSUME NEW w \in Workers, NEW p \in Pairs, DispatchItem(w, p) \/ Trouble(w, p)
        PROVE  Outbox!Next \/ UNCHANGED Outbox!vars
    BY <2>5, ItemRefines
  <2>6. CASE Tick
    <3>1. \A p \in Pairs : PhaseOf(p)' = PhaseOf(p)
      BY <2>6, TickFrame, PhaseStays
    <3>2. Unseen
      BY <2>1, <2>6, <3>1, TickFrame DEF Unseen
    <3> QED  BY <3>2, UnseenStutters
  <2> QED  BY <1>3, <2>2, <2>3, <2>4, <2>5, <2>6, NextCases
<1> QED  BY <1>1, <1>2, <1>3

-----------------------------------------------------------------------------

\* Any number of dispatchers that share alert_delivery, die with a claim,
\* lose answers and meet rotations, rollbacks and deletions behave like one
\* outbox, as long as a claim is settled before CLAIM_STALE_AFTER_SECS.
THEOREM OutboxRefinement ==
  ASSUME Hold <= Stale
  PROVE  Spec => ImplementsOutbox
<1>1. OInv /\ [Next]_vars => [Outbox!Next]_(Outbox!vars)
  BY StepRefines
<1> QED  BY <1>1, InitRefines, OutboxInvariance, PTL DEF Spec, Outbox!Spec, ImplementsOutbox
=============================================================================
