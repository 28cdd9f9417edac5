--------------------------- MODULE MCWorkerManager ---------------------------
(* Two partitions, so that a resume of one can miss the other.             *)
EXTENDS WorkerManager

CONSTANTS p1, p2

MCPartition == {p1, p2}
MCOnePartition == {p1}

MCNoEmpty == {}
MCEmpty == {[partition |-> p1, offset |-> 1]}

=============================================================================
