------------------------------ MODULE MCStartup ------------------------------
(* Two replicas are upgraded to a version that drops one of two RPCs.      *)
(* The settings: everything on; the same without a database; without       *)
(* authorization and at most one setting more; everything off.             *)
EXTENDS Startup

CONSTANTS r1, r2, rpc1, rpc2, path1

OldAndNew == [v \in {"old", "new"} |->
                IF v = "old" THEN {rpc1, rpc2, path1} ELSE {rpc1, path1}]

On == [wellFormed |-> TRUE, database |-> TRUE, redis |-> TRUE, events |-> TRUE, logs |-> TRUE,
       limits |-> TRUE, authorization |-> TRUE, upstream |-> TRUE, grpc |-> TRUE,
       autoUp |-> TRUE]

NoAuthorization == [On EXCEPT !.authorization = FALSE, !.autoUp = FALSE]
NoDatabase      == [On EXCEPT !.database = FALSE, !.autoUp = FALSE]

SettingsLookedAt ==
  {On, NoAuthorization, NoDatabase}
    \cup {[NoAuthorization EXCEPT ![f] = FALSE] : f \in DOMAIN On}
    \cup {[f \in DOMAIN On |-> f = "wellFormed"]}
=============================================================================
