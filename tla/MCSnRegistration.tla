---------------------------- MODULE MCSnRegistration ----------------------------
(* SnRegistration for TLC: two paths, and one more stream than may fail. The first *)
(* stream opens on a path given by name; the paths are otherwise interchangeable. *)
EXTENDS SnRegistration

CONSTANTS p1, p2

MCPaths == {p1, p2}
MCOpensOn == [s \in Streams |-> IF s = 1 THEN {p1} ELSE MCPaths]
===============================================================================
