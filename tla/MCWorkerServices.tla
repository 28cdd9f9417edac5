-------------------------- MODULE MCWorkerServices ---------------------------
(* The two services the worker keeps its state in, each driven by callers  *)
(* that use it at will.                                                    *)
EXTENDS Semaphore, OffsetTracker

CONSTANTS t1, t2, t3, t4, p1, p2

\* Four callers for two boxes: two can hold and two can be parked.
MCTask == {t1, t2, t3, t4}

\* Two partitions, so that an operation on one could disturb the other.
MCPartition == {p1, p2}

ServicesInit == SemInit /\ Init

ServicesNext ==
    \/ SemNext /\ UNCHANGED vars
    \/ Next /\ UNCHANGED semVars

ServicesSpec ==
    ServicesInit /\ [][ServicesNext]_<<semVars, vars>> /\ SemFairness

=============================================================================
