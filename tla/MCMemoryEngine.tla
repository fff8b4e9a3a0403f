--------------------------- MODULE MCMemoryEngine ---------------------------
(* Small instances of MemoryEngine: one or two running operations, one or  *)
(* two kinds of restorable record.                                         *)
EXTENDS MemoryEngine

CONSTANTS p1, p2, s1, s2, t1

MCProcs == {p1, p2}
MCRecords == Record
MCSplit == {r \in MCRecords : r.stmt \in SplitStmts}
MCStmts == {s1, s2}
DecisionsFailures == <<"decisions", "failures">>
Discoveries == <<"discoveries">>
MCTranscripts == {<<s1, s1>>, <<s2, s1>>}
ProcSymmetry == Permutations(MCProcs)
=============================================================================
