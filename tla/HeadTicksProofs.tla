--------------------------- MODULE HeadTicksProofs ---------------------------
(***************************************************************************)
(* Proofs about what wakes the follow loop, for every cycle cap and every  *)
(* buffer of the subscription.                                             *)
(***************************************************************************)
EXTENDS HeadTicks, TLAPS

-----------------------------------------------------------------------------
(* The inductive invariant *)

\* A tick, a head that will become one, or the end of the channel.
WakeUp == ticks > 0 \/ task \in {"send", "gone"} \/ stream > 0 \/ lagged

\* Already while the loop indexes: a head announced after it read the head
\* leaves something behind that will end the coming wait.  (Between a tick and
\* the next read nothing need be left: the read itself sees the head.)
HeadPending == pc \in {"index", "wait"} /\ ws_rx /\ fresh => WakeUp

HInv == TypeOK /\ HeadPending

\* HInv holds initially, in every trigger mode ...
LEMMA InitInv == Init => HInv
<1> SUFFICES ASSUME Init  PROVE HInv
  OBVIOUS
<1>1. ws_rx \in BOOLEAN
  BY Zenon DEF Init
<1>2. task \in {"connect", "gone"}
  BY DEF Init
<1>3. /\ behind \in 0 .. MaxBehind /\ read = 0 /\ watch = 0 /\ stream = 0 /\ ticks = 0 /\ pc = "cycle"
      /\ cancel = FALSE /\ lagged = FALSE /\ fresh = FALSE
  BY Zenon DEF Init
<1>4. TypeOK
  <2>1. read \in 0 .. MaxBehind /\ watch \in 0 .. MaxBehind /\ stream \in 0 .. Buffer /\ ticks \in {0, 1}
    BY <1>3, TicksAssumption
  <2> QED  BY <1>1, <1>2, <1>3, <2>1, Zenon DEF TypeOK
<1>5. HeadPending
  BY <1>3 DEF HeadPending
<1> QED  BY <1>4, <1>5 DEF HInv

\* The types are kept.
LEMMA TypeStep ==
  ASSUME TypeOK, Next
  PROVE  TypeOK'
<1> USE TicksAssumption DEF TypeOK, loopVars, taskVars, history
<1>1. CASE NewHead
  <2>1. behind' \in 0 .. MaxBehind
    BY <1>1 DEF NewHead, Fewer
  <2>2. watch' \in 0 .. MaxBehind
    BY <1>1 DEF NewHead
  <2>3. stream' \in 0 .. Buffer
    BY <1>1 DEF NewHead, Fewer
  <2>4. lagged' \in BOOLEAN /\ fresh' \in BOOLEAN
    BY <1>1, Zenon DEF NewHead
  <2> QED  BY <1>1, <2>1, <2>2, <2>3, <2>4 DEF NewHead
<1>2. CASE Connected \/ StreamEnds
  BY <1>2 DEF Connected, StreamEnds
<1>3. CASE Recv
  BY <1>3 DEF Recv, Lagged
<1>4. CASE Send
  BY <1>4 DEF Send, Capacity
<1>5. CASE ReadHead
  BY <1>5 DEF ReadHead
<1>6. CASE IndexRange
  <2>1. Indexed \in Nat
    BY DEF Indexed, Fewer
  <2>2. behind' \in 0 .. MaxBehind /\ watch' \in 0 .. MaxBehind
    BY <1>6, <2>1 DEF IndexRange, Less
  <2>3. ws_rx' \in BOOLEAN /\ pc' \in {"wait", "stopped"}
    BY <1>6, Zenon DEF IndexRange
  <2> QED  BY <1>6, <2>2, <2>3 DEF IndexRange, TicksAfterCycle
<1>7. CASE Tick
  <2>1. ticks' \in {0, 1}
    BY <1>7 DEF Tick
  <2> QED  BY <1>7, <2>1 DEF Tick
<1>8. CASE CycleFails \/ FallBack \/ Poll
  BY <1>8 DEF CycleFails, FallBack, Poll
<1>9. CASE CtrlC
  BY <1>9 DEF CtrlC
<1> QED  BY <1>1, <1>2, <1>3, <1>4, <1>5, <1>6, <1>7, <1>8, <1>9 DEF Next, LoopStep, TaskStep

\* A wake-up is used up only by a step that leads the loop back to the head.
LEMMA PendingStep ==
  ASSUME TypeOK, HeadPending, Next
  PROVE  HeadPending'
<1> USE TicksAssumption DEF HeadPending, WakeUp, loopVars, taskVars, history
<1>1. CASE NewHead
  <2>1. CASE task \in {"recv", "send"}
    <3>1. stream' > 0
      BY <1>1, <2>1 DEF NewHead, Fewer, TypeOK
    <3> QED  BY <3>1
  <2>2. CASE task \notin {"recv", "send"}
    BY <1>1, <2>2 DEF NewHead
  <2> QED  BY <2>1, <2>2
<1>2. CASE Connected \/ StreamEnds
  BY <1>2 DEF Connected, StreamEnds
<1>3. CASE Recv
  BY <1>3 DEF Recv, Lagged
<1>4. CASE Send
  BY <1>4 DEF Send, TypeOK
<1>5. CASE ReadHead
  BY <1>5 DEF ReadHead
<1>6. CASE IndexRange
  BY <1>6 DEF IndexRange, TicksAfterCycle
<1>7. CASE CycleFails \/ Tick \/ FallBack \/ Poll
  BY <1>7 DEF CycleFails, Tick, FallBack, Poll
<1>8. CASE CtrlC
  BY <1>8 DEF CtrlC
<1> QED  BY <1>1, <1>2, <1>3, <1>4, <1>5, <1>6, <1>7, <1>8 DEF Next, LoopStep, TaskStep

\* ... and is kept by every step.
LEMMA StepInv == HInv /\ [Next]_vars => HInv'
<1> SUFFICES ASSUME HInv, [Next]_vars  PROVE HInv'
  OBVIOUS
<1>1. CASE Next
  BY <1>1, TypeStep, PendingStep DEF HInv
<1>2. CASE UNCHANGED vars
  BY <1>2 DEF HInv, TypeOK, HeadPending, WakeUp, vars, loopVars, taskVars, history
<1> QED  BY <1>1, <1>2

-----------------------------------------------------------------------------
(* The theorems *)

\* HInv is an invariant of the loop and the subscription task.
THEOREM Invariance == FairSpec => []HInv
BY InitInv, StepInv, PTL DEF FairSpec

\* The loop, the channel and the task keep their types.
THEOREM TypeCorrect == FairSpec => []TypeOK
<1>1. HInv => TypeOK
  BY DEF HInv
<1> QED  BY <1>1, Invariance, PTL

\* follow never waits for a tick with a head announced and nothing left to
\* wake it, whether the subscription keeps up, lags or ends.
THEOREM NoTickIsLost == FairSpec => []NoLostTick
<1>1. HInv => NoLostTick
  BY DEF HInv, HeadPending, WakeUp, NoLostTick
<1> QED  BY <1>1, Invariance, PTL
=============================================================================
