---------------------------- MODULE MCSupervisor ----------------------------
(* A small instance of Supervisor for TLC. *)
EXTENDS Supervisor

CONSTANTS w1, w2
=============================================================================
