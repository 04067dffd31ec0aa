----------------------------- MODULE MCRequests -----------------------------
(* Requests on a small instance: a command over HTTP, one on a grant over  *)
(* gRPC by two callers, all three under one key, the two reads of a        *)
(* tenant's user, and callers and keys that are refused.                   *)
EXTENDS Requests

CONSTANTS t1, t2, k1

Command(api, caller, target, active, key) ==
  [api |-> api, caller |-> caller, route |-> "write", target |-> target,
   expected |-> 1, active |-> active, key |-> key]
Ask(api, caller, route, target) ==
  [api |-> api, caller |-> caller, route |-> route, target |-> target,
   expected |-> 0, active |-> FALSE, key |-> NoKey]

MCInputs ==
  {Command("http", Admin, App, TRUE, k1), Command("grpc", Admin, t1, FALSE, k1),
   Command("grpc", t1, t1, FALSE, k1),
   Command("grpc", Forged, App, TRUE, k1), Command("http", Admin, App, TRUE, BadKey),
   Ask("grpc", t1, "navigation", App), Ask("grpc", t1, "check", t1),
   Ask("grpc", t1, "check", t2), Ask("http", Anonymous, "navigation", App)}

(* The policy of commands is restricted to the service.                    *)
MCPolicies == {<<"write", {Admin}>>}
=============================================================================
