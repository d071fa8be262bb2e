---------------------------- MODULE SessionGate ----------------------------
(***************************************************************************)
(* What a livetrack registry promises its adopters, stripped of locks,     *)
(* closers and polling.  A gate admits sessions only while it is open.     *)
(* Closing is a two-step affair: Shut stops admission, and Finish may only *)
(* be taken once nobody that was admitted is still inside.  Sessions may   *)
(* leave (or be evicted) in groups at any time.                            *)
(***************************************************************************)

CONSTANT Sessions

VARIABLES gate, inside

gateVars == <<gate, inside>>

GateTypeOK ==
    /\ gate \in {"open", "shut", "finished"}
    /\ inside \subseteq Sessions

Init ==
    /\ gate = "open"
    /\ inside = {}

\* A caller is let in; impossible from Shut onwards.
Admit(s) ==
    /\ gate = "open"
    /\ s \notin inside
    /\ inside' = inside \cup {s}
    /\ UNCHANGED gate

\* One or several sessions leave: a release, or a batch taken for force-close.
Leave(S) ==
    /\ S # {}
    /\ S \subseteq inside
    /\ inside' = inside \ S
    /\ UNCHANGED gate

Shut ==
    /\ gate = "open"
    /\ gate' = "shut"
    /\ UNCHANGED inside

\* A drain that reports completion does so on an empty gate.
Finish ==
    /\ gate = "shut"
    /\ inside = {}
    /\ gate' = "finished"
    /\ UNCHANGED inside

Next ==
    \/ \E s \in Sessions : Admit(s)
    \/ \E S \in SUBSET Sessions : Leave(S)
    \/ Shut
    \/ Finish

Safe == Init /\ [][Next]_gateVars

\* A gate that was shut finishes: the drain is bounded.
Live == (gate = "shut") ~> (gate = "finished")

=============================================================================
