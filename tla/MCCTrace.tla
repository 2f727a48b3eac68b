------------------------------ MODULE MCCTrace ------------------------------
(* Two clients of two categories each, a short trace. *)
EXTENDS CTrace

CONSTANTS c1, c2, c3

MCClients2 == {c1, c2}
MCClients3 == {c1, c2, c3}

=============================================================================
