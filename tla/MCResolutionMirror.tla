------------------------ MODULE MCResolutionMirror ------------------------
(* Two parties, one outcome besides the void: enough for every ruling.     *)
EXTENDS ResolutionMirror
=============================================================================
