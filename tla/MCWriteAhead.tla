---------------------------- MODULE MCWriteAhead ----------------------------
(***************************************************************************)
(* WriteAhead with bounds for TLC.                                         *)
(***************************************************************************)
EXTENDS WriteAhead

CONSTANT MaxLog     \* records in a segment

MCKeys   == {<<1>>, <<0, 1>>}
MCValues == {<<>>, <<1, 0, 1>>}

Bounded == pc' = "sync" => Len(log) < MaxLog

MCSpec == Init /\ [][Next /\ Bounded]_vars
=============================================================================
