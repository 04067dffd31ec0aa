----------------------------- MODULE MCOutbound -----------------------------
(* Two callers of one upstream, through each kind of client.               *)
EXTENDS Outbound

CONSTANTS c1, c2
=============================================================================
