------------------------------ MODULE HeadTicks ------------------------------
(***************************************************************************)
(* What wakes the follow loop (crates/indexer/src/worker.rs): a newHeads   *)
(* subscription whose task sends one tick per head through a channel of    *)
(* capacity 1, or a timer, and for good a timer once the channel is        *)
(* closed.                                                                 *)
(*                                                                         *)
(* A cycle is reduced to the head it reads and the blocks it indexes; what *)
(* happens inside it, reorganisations included, is the business of module  *)
(* Indexer.  Blocks are counted from the checkpoint up, so that the chain  *)
(* may grow without end.  The subscription is external: it keeps up to     *)
(* Buffer heads for a task that is slow, and then reports that it lagged.  *)
(***************************************************************************)
EXTENDS Integers

\* A definition named BugX is X with a plausible mistake, and used nowhere.

CONSTANTS
  CycleCap,   \* FOLLOW_CYCLE_BLOCK_CAP
  Buffer,     \* heads the subscription keeps for its reader
  MaxBehind   \* blocks behind the head are counted up to here

ASSUME TicksAssumption ==
  /\ CycleCap \in Nat \ {0}
  /\ Buffer \in Nat \ {0}
  /\ MaxBehind \in Nat \ {0}

VARIABLES
  behind,  \* confirmed blocks above the checkpoint
  read,    \* the same, as of the head the current cycle has read
  pc,      \* follow: "cycle", "index", "wait" or "stopped"
  cancel,  \* the AtomicBool the Ctrl-C watcher sets
  ws_rx,   \* whether the loop holds the receiving end
  ticks,   \* the channel
  task,    \* spawn_head_ticks: "connect", "recv", "send" or "gone"
  stream,  \* heads the subscription has for the task
  lagged,  \* whether it had to drop one
  fresh,   \* history: a head was announced after the loop last read the head
  watch    \* history: blocks to index up to a watched one, 0 when it is done

loopVars == <<read, pc, ws_rx>>
taskVars == <<task, stream, lagged>>
history == <<fresh, watch>>
vars == <<behind, loopVars, cancel, ticks, taskVars, history>>

-----------------------------------------------------------------------------

\* WS_URL may be absent, blank or set; --subscribe may be given or not.
resolve_trigger_mode(subscribe, ws_url) ==
  IF subscribe /\ ws_url = "set" THEN "subscribe" ELSE "polling"

\* tokio::sync::mpsc::channel(1)
Capacity == 1

Fewer(m, n) == IF m < n THEN m ELSE n
Less(m, n) == IF m < n THEN 0 ELSE m - n

-----------------------------------------------------------------------------
(* The node *)

\* A new head; the block that is confirmed by it may be the watched one.
NewHead ==
  /\ pc # "stopped"
  /\ behind' = Fewer(behind + 1, MaxBehind)
  /\ watch' \in {watch} \cup IF watch = 0 /\ behind < MaxBehind THEN {behind + 1} ELSE {}
  /\ IF task \in {"recv", "send"}
       THEN /\ stream' = Fewer(stream + 1, Buffer)
            /\ lagged' = (lagged \/ stream = Buffer)
            /\ fresh' = TRUE
       ELSE UNCHANGED <<stream, lagged, fresh>>
  /\ UNCHANGED <<loopVars, cancel, ticks, task>>

-----------------------------------------------------------------------------
(* spawn_head_ticks *)

Connected ==
  /\ task = "connect"
  /\ task' = "recv"
  /\ UNCHANGED <<behind, loopVars, cancel, ticks, stream, lagged, history>>

\* connect_ws or subscribe_blocks fails, or the node ends the stream: the
\* task returns and the sending end is dropped.
StreamEnds ==
  /\ task \in {"connect", "recv"}
  /\ task' = "gone"
  /\ UNCHANGED <<behind, loopVars, cancel, ticks, stream, lagged, history>>

\* sub.recv() reports a lag like any other error.
BugLagged == "recv"
Lagged == "gone"

Recv ==
  /\ task = "recv"
  /\ \/ lagged /\ task' = Lagged /\ UNCHANGED stream
     \/ ~lagged /\ stream > 0 /\ task' = "send" /\ stream' = stream - 1
  /\ UNCHANGED <<behind, loopVars, cancel, ticks, lagged, history>>

\* tx.send(()).await waits for room, and fails when the loop is gone.
Send ==
  /\ task = "send"
  /\ \/ ws_rx /\ ticks < Capacity /\ ticks' = ticks + 1 /\ task' = "recv"
     \/ ~ws_rx /\ task' = "gone" /\ UNCHANGED ticks
  /\ UNCHANGED <<behind, loopVars, cancel, stream, lagged, history>>

-----------------------------------------------------------------------------
(* follow *)

ReadHead ==
  /\ pc = "cycle"
  /\ pc' = "index"
  /\ read' = behind
  /\ fresh' = FALSE
  /\ UNCHANGED <<behind, cancel, ws_rx, ticks, taskVars, watch>>

\* cap_range_to: the rest is left to a later cycle.
Indexed == Fewer(read, CycleCap)

\* Ticks that came in during the cycle stay in the channel.
BugTicksAfterCycle == 0
TicksAfterCycle == ticks

\* index_range, then the look at the flag.  A cancelled range may stop short.
IndexRange ==
  /\ pc = "index"
  /\ IF cancel
       THEN pc' = "stopped" /\ ws_rx' = FALSE /\ UNCHANGED <<behind, watch>>
       ELSE /\ pc' = "wait"
            /\ behind' = Less(behind, Indexed)
            /\ watch' = Less(watch, Indexed)
            /\ UNCHANGED ws_rx
  /\ ticks' = TicksAfterCycle
  /\ UNCHANGED <<read, cancel, taskVars, fresh>>

\* A query or an RPC call fails: follow returns.
CycleFails ==
  /\ pc \in {"cycle", "index"}
  /\ pc' = "stopped"
  /\ ws_rx' = FALSE
  /\ UNCHANGED <<behind, read, cancel, ticks, taskVars, history>>

Tick ==
  /\ pc = "wait"
  /\ ws_rx
  /\ ticks > 0
  /\ ticks' = ticks - 1
  /\ pc' = "cycle"
  /\ UNCHANGED <<behind, read, cancel, ws_rx, taskVars, history>>

\* rx.recv() is None: ticks in the channel come first.
FallBack ==
  /\ pc = "wait"
  /\ ws_rx
  /\ ticks = 0 /\ task = "gone"
  /\ ws_rx' = FALSE
  /\ pc' = "cycle"
  /\ UNCHANGED <<behind, read, cancel, ticks, taskVars, history>>

Poll ==
  /\ pc = "wait"
  /\ ~ws_rx
  /\ pc' = "cycle"
  /\ UNCHANGED <<behind, read, cancel, ws_rx, ticks, taskVars, history>>

\* The watcher sets the flag.  The select of a loop that waits sees the signal
\* too, unless it came between the look at the flag and the select.
CtrlC ==
  /\ ~cancel
  /\ pc # "stopped"
  /\ cancel' = TRUE
  /\ \/ pc = "wait" /\ pc' = "stopped" /\ ws_rx' = FALSE
     \/ UNCHANGED <<pc, ws_rx>>
  /\ UNCHANGED <<behind, read, ticks, taskVars, history>>

-----------------------------------------------------------------------------

Init ==
  /\ behind \in 0 .. MaxBehind
  /\ read = 0
  /\ pc = "cycle"
  /\ cancel = FALSE
  /\ \E subscribe \in BOOLEAN, ws_url \in {"absent", "blank", "set"} :
       /\ ws_rx = (resolve_trigger_mode(subscribe, ws_url) = "subscribe")
       /\ task = IF ws_rx THEN "connect" ELSE "gone"
  /\ ticks = 0
  /\ stream = 0
  /\ lagged = FALSE
  /\ fresh = FALSE
  /\ watch = 0

LoopStep == ReadHead \/ IndexRange \/ Tick \/ FallBack \/ Poll

TaskStep == Connected \/ Recv \/ Send

Next ==
  \/ NewHead
  \/ LoopStep
  \/ TaskStep
  \/ StreamEnds
  \/ CycleFails
  \/ CtrlC

\* The chain grows, the runtime runs both tasks, and the timer fires.  The
\* stream may end at any time and need not.
FairSpec ==
  /\ Init /\ [][Next]_vars
  /\ WF_vars(NewHead)
  /\ WF_vars(LoopStep)
  /\ WF_vars(TaskStep)

-----------------------------------------------------------------------------
(* Properties *)

\* Types of the loop, the channel and the task.
TypeOK ==
  /\ behind \in 0 .. MaxBehind /\ read \in 0 .. MaxBehind /\ watch \in 0 .. MaxBehind
  /\ pc \in {"cycle", "index", "wait", "stopped"}
  /\ ticks \in {0, 1}
  /\ task \in {"connect", "recv", "send", "gone"}
  /\ stream \in 0 .. Buffer
  /\ cancel \in BOOLEAN /\ ws_rx \in BOOLEAN /\ lagged \in BOOLEAN /\ fresh \in BOOLEAN

\* No head is slept through: when the loop waits for a tick and a head was
\* announced after it last looked, a tick, a head on its way to become one, or
\* the end of the channel is about to wake it.
NoLostTick ==
  pc = "wait" /\ ws_rx /\ fresh
    => ticks > 0 \/ task \in {"send", "gone"} \/ stream > 0 \/ lagged

\* Every confirmed block is indexed in the end, whether the loop polls, is
\* woken by heads, cannot subscribe, loses the stream, or is too slow for it.
HeadsIndexed == watch > 0 ~> (watch = 0 \/ pc = "stopped")
=============================================================================
