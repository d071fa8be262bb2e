----------------------------- MODULE MCRegistry -----------------------------
(* Small instances of Registry for TLC. *)
EXTENDS Registry

CONSTANTS s1, s2, d1, d2

\* s2 was registered as a child of s1; s1 has none.
ParentMC == [s \in Sessions |-> IF s = s2 THEN s1 ELSE NoParent]
\* d1 is the reload drain (IdleGrace 5s), d2 the shutdown drain (IdleGrace 0).
IdleGraceMC == [d \in Drainers |-> d = d1]
=============================================================================
