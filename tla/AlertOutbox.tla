----------------------------- MODULE AlertOutbox -----------------------------
(***************************************************************************)
(* The dispatcher processes, seen as one outbox.                           *)
(***************************************************************************)
EXTENDS AlertDispatch

\* Some dispatcher's task for the pair is at this point.
SomeTaskAt(p, at) == \E w \in Workers : job[w][p].at = at

\* The ledger decides what is done, the tasks the rest: a claim whose task is
\* gone, or has come back with an error, is free although its row still says
\* "claimed" for a while.
PhaseOf(p) ==
  IF row[p].status = "delivered" THEN "done"
  ELSE IF SomeTaskAt(p, "ok") THEN "sent"
  ELSE IF SomeTaskAt(p, "post") THEN "held"
  ELSE "free"

Outbox == INSTANCE Outbox WITH
  Msgs <- Pairs,
  phase <- [p \in Pairs |-> PhaseOf(p)],
  cancelled <- {s \in Subs : sub[s] = "deleted"},
  taken <- accepted

\* Any number of dispatchers that share the ledger, die and come back, behave
\* like one outbox, where Hold <= Stale: a claim is settled before it can be
\* taken over.
ImplementsOutbox == Outbox!Spec
=============================================================================
