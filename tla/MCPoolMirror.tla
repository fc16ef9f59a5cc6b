---------------------------- MODULE MCPoolMirror ----------------------------
(* Two deposits and a change note, alone, in pairs or beside another log.  *)
EXTENDS PoolMirror

CONSTANTS d1, d2, c1

MCBodies == {<<>>, <<d1>>, <<d2>>, <<c1>>, <<d1, Other>>, <<Other, d2, c1>>}
=============================================================================
