-------------------------------- MODULE Events --------------------------------
(***************************************************************************)
(* crates/decoder/src/events.rs: a log becomes a row of swap_event,        *)
(* liquidity_event or token_transfer, or nothing.                          *)
(*                                                                         *)
(* A log is [topic, abi, index, amount0, amount1, liquidity, lower,        *)
(* upper]: the event its first topic names ("none" without topics, "other" *)
(* if unknown), whether the ABI decoder takes it, its place, and the       *)
(* numbers in it (liquidity is the amount of a Mint or a Burn).            *)
(* Addresses and hashes are copied and left out.                           *)
(***************************************************************************)
EXTENDS Integers, Sequences

CONSTANT ColumnMax  \* the greatest number a NUMERIC(38,0) column holds

Abs(n) == IF n < 0 THEN -n ELSE n

\* amount_in and amount_out
decode_swap(log) ==
  [table |-> "swap", index |-> log.index, amount0 |-> log.amount0, amount1 |-> log.amount1,
   amount_in |-> IF log.amount0 >= 0 THEN log.amount0 ELSE log.amount1,
   amount_out |-> IF log.amount0 >= 0 THEN Abs(log.amount1) ELSE Abs(log.amount0),
   liquidity |-> log.liquidity]

\* decode_mint and decode_burn, then to_liquidity_model
decode_liquidity(log) ==
  [table |-> "liquidity", index |-> log.index, event_type |-> IF log.topic = "Burn" THEN "Burn" ELSE "Mint",
   token0_amount |-> log.amount0, token1_amount |-> log.amount1,
   tick_lower |-> log.lower, tick_upper |-> log.upper, liquidity |-> log.liquidity]

decode_transfer(log) == [table |-> "transfer", index |-> log.index, amount |-> log.amount0]

\* Whether decode_log answers Ok; any error is logged, and the loop goes on.
Decodes(log) == log.topic \in {"Swap", "Mint", "Burn", "Transfer"} /\ log.abi

decode_log(log) ==
  CASE log.topic = "Swap" -> decode_swap(log)
    [] log.topic \in {"Mint", "Burn"} -> decode_liquidity(log)
    [] log.topic = "Transfer" -> decode_transfer(log)

\* The columns and CHECK constraints of the tables: an INSERT with one row
\* that does not fit fails as a whole.
Fits(row) ==
  CASE row.table = "swap" -> /\ Abs(row.amount0) <= ColumnMax
                             /\ Abs(row.amount1) <= ColumnMax
                             /\ row.liquidity <= ColumnMax
    [] row.table = "liquidity" -> /\ row.token0_amount <= ColumnMax
                                  /\ row.token1_amount <= ColumnMax
                                  /\ row.liquidity <= ColumnMax
                                  /\ row.tick_lower < row.tick_upper
    [] row.table = "transfer" -> row.amount <= ColumnMax
===============================================================================
