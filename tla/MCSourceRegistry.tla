-------------------------- MODULE MCSourceRegistry --------------------------
(* Model-checking instance of SourceRegistry: clients and objects are          *)
(* interchangeable.                                                            *)
EXTENDS SourceRegistry, TLC

CONSTANTS c1, c2, o1, o2

MCClients == {c1, c2}
MCObjects == {o1, o2}
MCSymmetry == Permutations(MCClients) \cup Permutations(MCObjects)
=============================================================================
