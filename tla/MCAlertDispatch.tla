--------------------------- MODULE MCAlertDispatch ---------------------------
(***************************************************************************)
(* Small instances of AlertDispatch: one or two dispatchers, two           *)
(* subscriptions, up to three failed transactions.                         *)
(***************************************************************************)
EXTENDS AlertOutbox, TLC

CONSTANTS w1, w2, s1, s2

MCAllMatch == Subs \X Txs

\* The first transaction matches s2 only, the others s1: LIMIT 2 takes two of
\* three pending pairs, and the one of s2 is always among them.
MCOtherFirst == {<<s2, 1>>, <<s1, 2>>, <<s1, 3>>}

\* One pair each, that of s2 first.
MCOneEach == {<<s2, 1>>, <<s1, 2>>}

\* Dispatchers are interchangeable.
MCSymmetry == Permutations(Workers)
=============================================================================
