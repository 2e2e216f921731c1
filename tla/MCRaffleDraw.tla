---------------------------- MODULE MCRaffleDraw ----------------------------
(***************************************************************************)
(* Small instances of RaffleDraw for TLC: three awards of three pilots,    *)
(* two prizes, one hash chain whose rolls repeat, two workers.             *)
(***************************************************************************)
EXTENDS RaffleDraw

CONSTANTS ann, bob, cid, w1, w2, nobody

MCAward == 1..3
MCPilot == {ann, bob, cid}
MCOwnerOf == <<ann, bob, cid>>
MCAmount == <<2, 1, 1>>
MCSeeds == {<<0, 1, 3, 2>>}
MCVerdicts == {"reversed"}
MCFickle == {bob}
MCProc == {w1, w2}

\* Every kind of request, forfeits by both workers.
AllServes == [r \in Request |->
    CASE r \in {"forfeit"} -> MCProc
      [] r \in {"sweep", "move", "run", "prepare"} -> {w1}
      [] OTHER -> {w2}]
\* A contest that is closed, drawn and drawn again by two directors.
RedrawServes == [r \in Request |->
    CASE r = "redraw" -> MCProc
      [] r \in {"sweep", "move"} -> {w1}
      [] OTHER -> {}]
Closing == {<<"active", "closed">>}
=============================================================================
