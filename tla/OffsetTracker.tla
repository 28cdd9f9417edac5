---------------------------- MODULE OffsetTracker ----------------------------
(***************************************************************************)
(* src/src/worker/offset-Tracker.service.ts: which offsets of a partition  *)
(* are being judged, and how far the group's offset may be committed.      *)
(* track() and complete() are synchronous, so each is one step.            *)
(*                                                                         *)
(* "next" and "done" are not fields of the service.  They are what the     *)
(* caller knows: the offset it will deliver next and the offsets whose     *)
(* message is finished.  Another module that uses the tracker substitutes  *)
(* its own.                                                                *)
(***************************************************************************)
EXTENDS Integers, FiniteSetsExt

CONSTANTS
    Partition,   \* partitions of the topic
    MaxOffset    \* bound: the last offset of a partition

ASSUME OffsetTrackerAssumption == MaxOffset \in Nat

VARIABLES
    tracked,     \* the keys of the inFlight map
    inFlight,    \* the offsets tracked and not completed
    committed,   \* the committed map, -1 where it has no entry
    next,
    done

trackerVars == <<tracked, inFlight, committed>>
vars == <<tracked, inFlight, committed, next, done>>

Offset == 0 .. MaxOffset

(* complete() returns null: there is nothing to commit.                    *)
NoOffset == -1

TrackerInit ==
    /\ tracked = {}
    /\ inFlight = [p \in Partition |-> {}]
    /\ committed = [p \in Partition |-> NoOffset]

-----------------------------------------------------------------------------
Track(p, o) ==
    /\ tracked' = tracked \union {p}
    /\ inFlight' = [inFlight EXCEPT ![p] = @ \union {o}]
    /\ UNCHANGED committed

(* Faulty variants: the lowest pending offset itself is taken for safe; the *)
(* message's own offset is returned, whatever is pending; progress of a     *)
(* single offset is not reported.                                           *)
SafeOffsetTooHigh(p, o) ==
    LET pending == inFlight[p] \ {o} IN IF pending = {} THEN o ELSE Min(pending)

SafeOffsetOwn(p, o) == o

SafeOffsetShy(p, o) ==
    LET pending == inFlight[p] \ {o} IN
    IF pending = {} THEN o
    ELSE IF Min(pending) - 1 > committed[p] + 1 THEN Min(pending) - 1 ELSE NoOffset

(* What complete(p, o) returns: o itself when nothing else is in flight,   *)
(* otherwise the offset below the lowest pending one if that is progress.  *)
SafeOffset(p, o) ==
    LET pending == inFlight[p] \ {o} IN
    IF p \notin tracked THEN NoOffset
    ELSE IF pending = {} THEN o
    ELSE IF Min(pending) - 1 > committed[p] THEN Min(pending) - 1 ELSE NoOffset

Complete(p, o) ==
    /\ inFlight' = [inFlight EXCEPT ![p] = @ \ {o}]
    /\ committed' = IF SafeOffset(p, o) = NoOffset
                    THEN committed
                    ELSE [committed EXCEPT ![p] = SafeOffset(p, o)]
    /\ UNCHANGED tracked

-----------------------------------------------------------------------------
(* The tracker under the calls eachMessage and processMessage make while   *)
(* the consumer keeps its assignment: offsets are tracked in order, and    *)
(* completed in any order.                                                 *)
Deliver(p) ==
    /\ next[p] \in Offset
    /\ Track(p, next[p])
    /\ next' = [next EXCEPT ![p] = @ + 1]
    /\ UNCHANGED done

Finish(p, o) ==
    /\ o \in inFlight[p]
    /\ Complete(p, o)
    /\ done' = [done EXCEPT ![p] = @ \union {o}]
    /\ UNCHANGED next

Init ==
    /\ TrackerInit
    /\ next = [p \in Partition |-> 0]
    /\ done = [p \in Partition |-> {}]

Next == \E p \in Partition : Deliver(p) \/ \E o \in Offset : Finish(p, o)

Spec == Init /\ [][Next]_vars

-----------------------------------------------------------------------------
(* Types of the two maps and of the caller's view of them.                 *)
TypeOK ==
    /\ tracked \subseteq Partition
    /\ inFlight \in [Partition -> SUBSET Offset]
    /\ committed \in [Partition -> Offset \union {NoOffset}]
    /\ next \in [Partition -> 0 .. MaxOffset + 1]
    /\ done \in [Partition -> SUBSET Offset]

(* The offset complete() lets the worker commit covers finished messages   *)
(* only: a consumer that restarts after it skips none that is not.         *)
CommittedIsSafe ==
    \A p \in Partition : \A o \in Offset : o <= committed[p] => o \in done[p]

(* While the assignment lasts the committed offset never moves back, the   *)
(* branch of complete() that does not compare it with the last one         *)
(* included.                                                               *)
CommittedNeverDecreases ==
    [][\A p \in Partition : committed'[p] >= committed[p]]_vars

(* A completion that leaves others in flight commits everything below the  *)
(* lowest of them, the offsets that finished out of order earlier included.*)
CompletionCommitsAllBelow ==
    [][\A p \in Partition :
         done'[p] # done[p] /\ inFlight'[p] # {} =>
             committed'[p] = Min(inFlight'[p]) - 1]_vars

=============================================================================
