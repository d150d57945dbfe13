-------------------------------- MODULE MCTui --------------------------------
(***************************************************************************)
(* Instances of the terminal client: two transactions of one category and  *)
(* one of another, on pages of two.                                        *)
(***************************************************************************)
EXTENDS Tui

CONSTANTS h1, h2, h3

Row(h, c, w) == [hash |-> h, category |-> c, window |-> w]

MCFull == <<Row(h1, "UNAUTHORIZED", "24h"), Row(h2, "UNKNOWN", "24h"), Row(h3, "UNKNOWN", "old")>>
MCShort == <<Row(h1, "UNAUTHORIZED", "24h")>>

MCShrinks == <<MCFull, MCShort>>

MCCategories == <<"UNKNOWN">>
MCWindows == <<"All", "24h">>
=============================================================================
