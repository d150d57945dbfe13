------------------------------ MODULE Classifier ------------------------------
(***************************************************************************)
(* Why a transaction failed: classify_error (crates/decoder/src/           *)
(* classifier.rs), the category the indexer stores for it (crates/indexer  *)
(* /src/worker.rs), and the names of the categories (crates/db/src/        *)
(* models.rs, queries.rs).                                                 *)
(*                                                                         *)
(* A revert reason is the set of the keywords it contains, in lower case.  *)
(* A keyword that contains another of the same rule is left out.           *)
(***************************************************************************)
EXTENDS Naturals, Sequences

Rule(words, category) == [words |-> words, category |-> category]

\* classify_error's tests, in their order.
Rules == <<
  Rule({"allowance"}, "INSUFFICIENT_ALLOWANCE"),
  Rule({"return amount is not enough", "min return"}, "SLIPPAGE_AMOUNT_OUT"),
  Rule({"stf", "insufficient", "balance", "not enough"}, "INSUFFICIENT_BALANCE"),
  Rule({"too little received"}, "SLIPPAGE_AMOUNT_OUT"),
  Rule({"too much requested"}, "SLIPPAGE_AMOUNT_IN"),
  Rule({"price slipped", "amount out"}, "SLIPPAGE_PRICE_IMPACT"),
  Rule({"slippage"}, "SLIPPAGE_EXCEEDED"),
  Rule({"deadline", "too old", "expired"}, "DEADLINE_EXPIRED"),
  Rule({"unauthorized", "ownable", "not owner", "forbidden", "access denied"}, "UNAUTHORIZED"),
  Rule({"transfer failed", "transfer_failed", "transfer_from_failed", "transfer from failed",
        "safe transfer", "safetransferfrom"}, "TRANSFER_FAILED") >>

Matching(reason) == {i \in 1 .. Len(Rules) : Rules[i].words \cap reason # {}}

\* The first rule that matches.
classify_error(reason) ==
  IF Matching(reason) = {} THEN "UNKNOWN"
  ELSE Rules[CHOOSE i \in Matching(reason) : \A j \in Matching(reason) : i <= j].category

\* models.rs: ErrorCategory and as_wire
as_wire ==
  [InsufficientBalance |-> "INSUFFICIENT_BALANCE", InsufficientAllowance |-> "INSUFFICIENT_ALLOWANCE",
   SlippageExceeded |-> "SLIPPAGE_EXCEEDED", SlippageAmountOut |-> "SLIPPAGE_AMOUNT_OUT",
   SlippageAmountIn |-> "SLIPPAGE_AMOUNT_IN", SlippagePriceImpact |-> "SLIPPAGE_PRICE_IMPACT",
   DeadlineExpired |-> "DEADLINE_EXPIRED", Unauthorized |-> "UNAUTHORIZED",
   TransferFailed |-> "TRANSFER_FAILED", Unknown |-> "UNKNOWN"]

ErrorCategory == DOMAIN as_wire

\* ErrorCategory::from_str, for the category filter of the API
Parses(s) == \E c \in ErrorCategory : as_wire[c] = s
from_str(s) == CHOOSE c \in ErrorCategory : as_wire[c] = s

\* The match of process_failed_txs: it names five categories, the others and
\* a reason that could not be decoded are Unknown.
StoredCategory(class) ==
  LET known == {"InsufficientBalance", "SlippageExceeded", "DeadlineExpired", "Unauthorized", "TransferFailed"}
  IN  IF \E c \in known : as_wire[c] = class THEN from_str(class) ELSE "Unknown"
===============================================================================
