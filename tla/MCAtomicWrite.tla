--------------------------- MODULE MCAtomicWrite ---------------------------
(* Two writers of one target, two texts, three temporary names.            *)
EXTENDS AtomicWrite, TLC

CONSTANTS p1, p2, v1, v2, n1, n2, n3

MCProcs == {p1, p2}
MCValues == {v1, v2}
MCTemps == {n1, n2, n3}
=============================================================================
