---------------------------- MODULE MCAppendLog ----------------------------
(* A small instance of AppendLog: two processes, one file, three records.   *)
EXTENDS AppendLog, TLC

CONSTANTS r1, r2, r3, p1, p2

MCRecords == {r1, r2, r3}
MCProcs == {p1, p2}

\* LogNext with batches of one or two records.
MCNext ==
    \/ \E p \in Procs :
        \/ \E w, v \in Write : Begin(p, <<w>>) \/ Begin(p, <<w, v>>)
        \/ AppendRecord(p)
        \/ \E cut \in Cuts : TearAppend(p, cut)
        \/ Abandon(p)
    \/ \E k \in Kinds, i \in 1 .. MaxLines : DeleteLine(k, i)

MCSpec == LogInit /\ [][MCNext]_logVars

ProcSymmetry == Permutations(MCProcs)
=============================================================================
