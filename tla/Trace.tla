-------------------------------- MODULE Trace --------------------------------
(***************************************************************************)
(* crates/decoder/src/trace.rs: the answer of debug_traceTransaction, a    *)
(* tree of call frames, becomes a list of rows with depths, and the output *)
(* of its root a revert reason.                                            *)
(*                                                                         *)
(* A frame of the answer is [id, type, value, error, output, calls].  The  *)
(* id stands for addresses, input and gas, which are copied.  Output is    *)
(* [selector, len, declared, text]: its first four bytes, its length, the  *)
(* length its string declares, and the keywords of that string.            *)
(*                                                                         *)
(* The code recurs over a frame's calls; here recursion is by functions on *)
(* the constant set of all frames, which is closed under calls.            *)
(***************************************************************************)
EXTENDS Integers, Sequences, SequencesExt, FiniteSetsExt

\* A definition named BugX is X with a plausible mistake, and used nowhere.

CONSTANTS
  Absent,      \* a field the node leaves out
  Frames,      \* the frames of the node's answers, and what they call
  Nesting,     \* how deep the calls of a frame are nested
  MaxNesting,  \* the deepest JSON that serde_json takes
  U128Max,     \* the greatest value u128::from_str_radix takes
  Word         \* 2^64: usize addition wraps here

ASSUME TraceAssumption ==
  /\ \A f \in Frames :
       /\ f.id \in Nat /\ f.value \in Nat \cup {Absent} /\ f.error \in BOOLEAN
       /\ f.calls \in Seq(Frames)
  /\ Nesting \in [Frames -> 0 .. MaxNesting]
  /\ \A f \in Frames : \A i \in DOMAIN f.calls : Nesting[f.calls[i]] < Nesting[f]
  /\ MaxNesting \in Nat /\ U128Max \in Nat /\ Absent \notin Nat

\* The elements of a sequence that are in a set, in their order.
Those(s, S) == FlattenSeq([i \in DOMAIN s |-> IF s[i] \in S THEN <<s[i]>> ELSE <<>>])

\* "missing 'type' field"
HasType(json) == json.type # Absent

Typed == {f \in Frames : HasType(f)}

\* A child without a type is dropped, and what it called with it.  The other
\* children are parsed where they are visited.
parse_call_frame(json) ==
  [id |-> json.id, value |-> json.value, error |-> json.error, output |-> json.output,
   calls |-> Those(json.calls, Typed)]

\* Hex to decimal through u128; what does not fit, or is not there, is 0.
value_decimal(v) == IF v = Absent \/ v > U128Max THEN 0 ELSE v

Row(frame, depth) ==
  [id |-> frame.id, depth |-> depth, value |-> value_decimal(frame.value), error |-> frame.error]

\* A frame is pushed before those it calls.
BugPushed(row, below) == below \o <<row>>
Pushed(row, below) == <<row>> \o below

flatten_call_frame[json \in Frames] ==
  LET frame == parse_call_frame(json)
  IN  [depth \in Nat |->
         Pushed(Row(frame, depth),
                FlattenSeq([i \in DOMAIN frame.calls |-> flatten_call_frame[frame.calls[i]][depth + 1]]))]

\* parse_trace on an answer whose root has a type
parse_trace(json) == flatten_call_frame[json][0]

-----------------------------------------------------------------------------
(* Revert reasons.  A result is [is, text]: "text" with its keywords, "hex" *)
(* or "code", in which there are none, "none" for an error, or "abort" when *)
(* the slice panics and the task with it.                                  *)

Reason(is, text) == [is |-> is, text |-> text]

\* The data behind the selector: offset, length, string.
decode_abi_string(output) ==
  LET data == output.len - 4
      str_end == (64 + output.declared) % Word
  IN  IF data < 64 \/ str_end > data THEN Reason("none", {})
      ELSE IF str_end < 64 THEN Reason("abort", {})
      ELSE Reason("text", output.text)

decode_revert_reason(output) ==
  IF output = Absent THEN Reason("none", {})
  ELSE IF output.len >= 4 /\ output.selector = "Error" THEN decode_abi_string(output)
  ELSE IF output.len >= 36 /\ output.selector = "Panic" THEN Reason("code", {})
  ELSE Reason("hex", {})

-----------------------------------------------------------------------------
(* Reference: what the rows are for *)

\* Who calls whom, and where among the calls of its caller.
Edges[json \in Frames] ==
  LET frame == parse_call_frame(json)
  IN  {<<frame.id, i, frame.calls[i].id>> : i \in DOMAIN frame.calls}
        \cup UNION {Edges[frame.calls[i]] : i \in DOMAIN frame.calls}

\* The caller of a row: the nearest row above it that is one less deep.
Caller(rows, i) == Max({j \in 1 .. i - 1 : rows[j].depth = rows[i].depth - 1})

Rebuilt(rows) ==
  {<<rows[Caller(rows, i)].id,
     Cardinality({j \in 2 .. i : rows[j].depth = rows[i].depth /\ Caller(rows, j) = Caller(rows, i)}),
     rows[i].id>> : i \in 2 .. Len(rows)}
===============================================================================
