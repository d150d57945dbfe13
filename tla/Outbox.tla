------------------------------- MODULE Outbox -------------------------------
(***************************************************************************)
(* What the per-event alerts promise, without ledger, clocks or processes: *)
(* a message of a subscription is with at most one sender at a time, is    *)
(* sent again only when its sender gave up on it or its answer was lost,   *)
(* and never again once it is done.                                        *)
(***************************************************************************)
EXTENDS Naturals

CONSTANTS
  Subs,       \* subscriptions
  Msgs,       \* messages: pairs of a subscription and what it is told
  Count(_)    \* how the receiver counts one more message

VARIABLES
  phase,      \* "free", "held" by a sender, "sent" and acknowledged, or "done"
  cancelled,  \* subscriptions that were deleted
  taken       \* how often the receiver has taken the message

vars == <<phase, cancelled, taken>>

Init ==
  /\ phase = [m \in Msgs |-> "free"]
  /\ cancelled = {}
  /\ taken = [m \in Msgs |-> 0]

Move(m, from, to) == phase[m] = from /\ phase' = [phase EXCEPT ![m] = to]

\* A sender takes the message up.
Take(m) ==
  /\ m[1] \notin cancelled
  /\ Move(m, "free", "held")
  /\ UNCHANGED <<cancelled, taken>>

\* The receiver takes it, and the sender learns of it ...
Accept(m) ==
  /\ Move(m, "held", "sent")
  /\ taken' = [taken EXCEPT ![m] = Count(@)]
  /\ UNCHANGED cancelled

\* ... or does not.
Lose(m) ==
  /\ Move(m, "held", "free")
  /\ taken' = [taken EXCEPT ![m] = Count(@)]
  /\ UNCHANGED cancelled

Finish(m) ==
  /\ m[1] \notin cancelled
  /\ Move(m, "sent", "done")
  /\ UNCHANGED <<cancelled, taken>>

\* A sender gives up on messages it has not finished.
GiveUp(M) ==
  /\ M # {}
  /\ \A m \in M : phase[m] \in {"held", "sent"}
  /\ phase' = [m \in Msgs |-> IF m \in M THEN "free" ELSE phase[m]]
  /\ UNCHANGED <<cancelled, taken>>

\* The record of a deleted subscription goes with it.
Cancel(s) ==
  /\ cancelled' = cancelled \cup {s}
  /\ phase' = [m \in Msgs |-> IF m[1] = s /\ phase[m] = "done" THEN "free" ELSE phase[m]]
  /\ UNCHANGED taken

Next ==
  \/ \E m \in Msgs : Take(m) \/ Accept(m) \/ Lose(m) \/ Finish(m)
  \/ \E M \in SUBSET Msgs : GiveUp(M)
  \/ \E s \in Subs : Cancel(s)

Spec == Init /\ [][Next]_vars
=============================================================================
