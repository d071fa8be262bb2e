--------------------------- MODULE MCSemanticSync ---------------------------
(* Instances of SemanticSync for TLC. *)
EXTENDS SemanticSync

CONSTANTS a, b

FirstMC == [c \in Convs |-> IF c = 1 THEN a ELSE Corrupt]
BytesMC == [c \in Convs |-> IF c = 1 THEN {a, b} ELSE {a, Blank}]
SizeMC == [c \in Convs |-> c]
=============================================================================
