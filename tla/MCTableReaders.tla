--------------------------- MODULE MCTableReaders ---------------------------
(* Small tables for TableReaders.                                          *)
EXTENDS TableReaders

CONSTANTS x, y, z

\* The ids do not have the order of the dates.
MCPublished == [c \in Cves |-> IF c = 2 THEN 5 ELSE c]

MCResults ==
    {[cve |-> {1, 3}, ai |-> {x, y}],
     [cve |-> {1, 2, 3}, ai |-> {x, y, z}],
     [cve |-> {2}, ai |-> {}]}
=============================================================================
