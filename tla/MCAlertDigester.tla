-------------------------- MODULE MCAlertDigester --------------------------
(* Instances of AlertDigester for TLC. *)
EXTENDS AlertDigester

CONSTANTS tick, request

TickOnly == {tick}
TickAndRequest == {tick, request}
=============================================================================
