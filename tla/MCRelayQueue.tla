---------------------------- MODULE MCRelayQueue ----------------------------
(* The same signed trade submitted twice, a permit, and a call of the      *)
(* platform's.                                                             *)
EXTENDS RelayQueue

CONSTANTS s1, s2, s3, s4, alice, platform, trade, approval, finalize

MCKind == s1 :> "trade" @@ s2 :> "trade" @@ s3 :> "own" @@ s4 :> "permit"
MCRequest == s1 :> trade @@ s2 :> trade @@ s3 :> finalize @@ s4 :> approval
MCAccount == s1 :> alice @@ s2 :> alice @@ s3 :> platform @@ s4 :> alice
=============================================================================
