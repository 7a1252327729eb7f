---------------------------- MODULE MCSyncEngine ----------------------------
(* Small catalogues for SyncEngine.                                        *)
EXTENDS SyncEngine, TLC

CONSTANTS k1, k2, k3, a1, a2

MCKeys == {k1, k2, k3, a1, a2}

MCRows(cve, ai) == [tb \in Tables |-> IF tb = "cve" THEN cve ELSE ai]

Empty == [rows |-> MCRows({}, {a1}), clash |-> FALSE]
Small == [rows |-> MCRows({k1}, {a1}), clash |-> FALSE]
Large == [rows |-> MCRows({k1, k2}, {a2}), clash |-> FALSE]
Other == [rows |-> MCRows({k3}, {a2}), clash |-> FALSE]
Clashing == [rows |-> MCRows({k1}, {a1}), clash |-> TRUE]

\* Any two usable fetches share a mapping, as two fetches of the same strike
\* library do.
Overlapping == {Empty, Small, Large}

\* The same, with a controller that lists two strikes under one name.
OverlappingWithClash == {Empty, Small, Large, Clashing}

\* Two controllers whose libraries have nothing in common.
Disjoint == {Small, Other}

\* The jobs are interchangeable.
Symmetry == Permutations(Syncs)
=============================================================================
