------------------------------ MODULE MCFailedTx ------------------------------
(***************************************************************************)
(* Two blocks.  The first holds t1, the second t2 and t3; a branch that    *)
(* replaces them may hold other receipts.                                  *)
(***************************************************************************)
EXTENDS FailedTxApi

CONSTANTS t1, t2, t3, NotAHash

MCBlocks == {1, 2}
MCTxs == {t1, t2, t3}
MCHashes == {t1, t3, NotAHash}

\* 10^38 - 1 < 2^128 - 1, and a 64-bit length beyond any output
MCColumnMax == 9
MCU128Max == 12
MCWord == 1024

Frame(id, value, error, calls) ==
  [id |-> id, type |-> "CALL", value |-> value, error |-> error, output |-> Absent, calls |-> calls]

\* The root of a failed transaction: the tracer gives it an error.
Root(output, value, calls) == [Frame(0, value, TRUE, calls) EXCEPT !.output = output]

Says(words) == [selector |-> "Error", len |-> 132, declared |-> 30, text |-> words]
Wraps == [Says({}) EXCEPT !.declared = MCWord - 10]
PastEnd == [Says({"stf"}) EXCEPT !.declared = 100]
PanicCode == [selector |-> "Panic", len |-> 36, declared |-> 0, text |-> {}]
Bare == [selector |-> "other", len |-> 0, declared |-> 0, text |-> {}]

Untyped(f) == [f EXCEPT !.type = Absent]

\* 0 calls 1 and 3, 1 calls 2; the failure of 2 bubbles up.
Nested(output) ==
  Root(output, Absent, << Frame(1, 3, TRUE, <<Frame(2, 20, TRUE, <<>>)>>), Frame(3, 0, FALSE, <<>>) >>)

\* More frames than are shown, and one without a type that is not stored.
Wide(output) ==
  Root(output, 0, << Frame(1, 0, FALSE, <<Frame(2, 0, FALSE, <<>>)>>), Untyped(Frame(5, 0, TRUE, <<Frame(6, 0, TRUE, <<>>)>>)),
                     Frame(3, 0, FALSE, <<>>), Frame(4, 0, TRUE, <<>>) >>)

Pair(output, value) == Root(output, 0, <<Untyped(Frame(2, 0, FALSE, <<>>)), Frame(1, value, TRUE, <<>>)>>)

Log(topic, index, a0, a1, liquidity, lower, upper) ==
  [topic |-> topic, abi |-> TRUE, index |-> index, amount0 |-> a0, amount1 |-> a1,
   liquidity |-> liquidity, lower |-> lower, upper |-> upper]

Logs == << Log("Swap", 0, -3, 4, 1, 0, 0), Log("Mint", 1, 1, 2, 1, -1, 1), [Log("Transfer", 2, 0, 0, 0, 0, 0) EXCEPT !.abi = FALSE],
           Log("Transfer", 3, 5, 0, 0, 0, 0), Log("none", 4, 0, 0, 0, 0, 0), Log("other", 5, 0, 0, 0, 0, 0) >>

Succeeds(tx, logs) == [tx |-> tx, ok |-> TRUE, logs |-> logs, trace |-> Absent]
Fails(tx, trace) == [tx |-> tx, ok |-> FALSE, logs |-> <<>>, trace |-> trace]

Short == Says({"return amount is not enough", "not enough"})

Second == << Fails(t2, Pair(Says({"stf"}), 1)), Fails(t3, Pair(PanicCode, 1)) >>

World(first, second) == <<first, second>>

MCWorlds ==
  { World(<<Fails(t1, Nested(Short))>>, Second),
    World(<<Fails(t1, Wide(PastEnd))>>, << Succeeds(t2, Logs) >>),
    World(<<>>, << Fails(t2, Pair(Says({"NUL", "expired"}), 1)) >>),
    World(<<Fails(t1, Nested(Short))>>, << Fails(t2, Pair(Wraps, 1)), Fails(t3, Untyped(Pair(Bare, 1))) >>),
    World(<<>>, << Fails(t2, Pair(Bare, 11)) >>),
    World(<<Succeeds(t1, <<Log("Transfer", 0, 10, 0, 0, 0, 0)>>)>>, <<>>),
    World(<<Succeeds(t1, <<Log("Swap", 0, 1, -1, 10, 0, 0)>>)>>, << Succeeds(t2, <<Log("Burn", 0, 1, 1, 1, 0, 0)>>), Fails(t3, Pair(Absent, 1)) >>) }

Query(category, from, to, limit) == [category |-> category, from |-> from, to |-> to, limit |-> limit]
MCQueries ==
  { Query(Absent, Absent, Absent, 0), Query("INSUFFICIENT_BALANCE", 2, 2, Absent), Query("OTHER", Absent, Absent, 1) }

\* The frames of these worlds, three levels deep.
Below(S) == UNION {ToSet(f.calls) : f \in S}
Roots == {r.trace : r \in {r \in Receipts : ~r.ok}}
MCFrames == Roots \cup Below(Roots) \cup Below(Below(Roots))
MCMaxNesting == 2
MCNesting ==
  [f \in MCFrames |->
     IF f.calls = <<>> THEN 0 ELSE IF \A c \in Below({f}) : c.calls = <<>> THEN 1 ELSE 2]
===============================================================================
