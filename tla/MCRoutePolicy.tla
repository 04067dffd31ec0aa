--------------------------- MODULE MCRoutePolicy ---------------------------
(* RoutePolicy for TLC: the handlers are those of one replica, the other   *)
(* one only listens and polls; one of two policies may be disabled.        *)
EXTENDS RoutePolicy, TLC
CONSTANTS r1, r2, u1, u2
OneDisabled == u1 :> BOOLEAN @@ u2 :> {TRUE}
OneServes == [w \in Writers |-> r1]
=============================================================================
