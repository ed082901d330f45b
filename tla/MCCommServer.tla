---------------------------- MODULE MCCommServer ----------------------------
(* A bounded instance of CommServer: two clients of the server's user, who   *)
(* use up its two slots, and one of another user.                            *)
EXTENDS CommServer, TLC

CONSTANTS c1, c2, f     \* the connections

MCConn == {c1, c2, f}
MCForeign == {f}
MCMaxTold == c1 :> 2 @@ c2 :> 0 @@ f :> 0
MCMaxSent == c1 :> 3 @@ c2 :> 1 @@ f :> 0
=============================================================================
