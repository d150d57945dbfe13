------------------------------ MODULE MCIndexer ------------------------------
(***************************************************************************)
(* A small tree of blocks: a trunk and one branch that leaves it at height *)
(* ForkHeight, both cut at MaxHeight.                                      *)
(*                                                                         *)
(*    g -- a1 -- a2 -- a3 -- a4 -- a5                                      *)
(*           \-- b2 -- b3 -- b4 -- b5        (ForkHeight = 2)              *)
(***************************************************************************)
EXTENDS Indexer

CONSTANTS g, a1, a2, a3, a4, a5, b1, b2, b3, b4, b5, none, ForkHeight, t1, t2, t3

Trunk == <<g, a1, a2, a3, a4, a5>>
Branch == SubSeq(Trunk, 1, ForkHeight) \o SubSeq(<<g, b1, b2, b3, b4, b5>>, ForkHeight + 1, 6)

MCBlocks == {Trunk[h + 1] : h \in Heights} \cup {Branch[h + 1] : h \in Heights}

MCHeight == [b \in MCBlocks |-> CHOOSE h \in Heights : b \in {Trunk[h + 1], Branch[h + 1]}]

MCChain == [b \in MCBlocks |-> [h \in Heights |->
  IF h > MCHeight[b] THEN none
  ELSE IF Trunk[MCHeight[b] + 1] = b THEN Trunk[h + 1] ELSE Branch[h + 1]]]

\* With ForkHeight 2, t2 is at height 2 of the trunk and 3 of the branch, and
\* t3 in blocks of one height but of different lengths; with ForkHeight 1 all
\* three are in blocks of both, and t1 reverts in one of them.
MCTxs == {t1, t2, t3}
MCBody == [b \in MCBlocks |->
  CASE b = a1 -> <<t1>>
    [] b = a2 -> <<t2, t3>>
    [] b = b1 -> <<t2, t1>>
    [] b = b2 -> <<t3>>
    [] b = b3 /\ ForkHeight = 2 -> <<t2>>
    [] OTHER -> <<>>]
MCReverts == [b \in MCBlocks |-> IF b = b1 THEN {t1, t2} ELSE {t2}]

\* The node may change between any two steps of the indexer ...
MCAllPoints == PCs
\* ... or only between two cycles.
MCQuietPoints == {"down", "wait"}

MCNoBackfill == {}
MCRanges == {[from |-> 1, to |-> 2], [from |-> 1, to |-> NoRow]}
=============================================================================
