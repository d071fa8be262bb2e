------------------------------ MODULE MCWorker ------------------------------
(* Small instances of Worker for TLC. *)
EXTENDS Worker

CONSTANTS tunnels, egress, watcher, retention

\* MITM tunnels drain in ingress, provider calls in egress, the config watcher
\* is a CancelNoWait member of the workers phase, storage retention stops
\* before the workers drain and the capture store closes last.
PhaseMC == [i \in Items |-> CASE i = tunnels -> 1
                              [] i = egress -> 2
                              [] i \in {watcher, retention} -> 3
                              [] OTHER -> 4]
\* The watcher's registry and the retention hook come after the control server.
AttachedFirstMC == Items \ {watcher, retention}
MemberMC == [s \in Sessions |-> CASE s = "t1" -> tunnels
                                  [] s = "e1" -> egress
                                  [] OTHER -> watcher]
=============================================================================
