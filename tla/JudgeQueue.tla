----------------------------- MODULE JudgeQueue ------------------------------
(***************************************************************************)
(* What the worker promises to whoever queues a submission, without boxes, *)
(* handlers, pauses or commit requests: at-least-once processing in any    *)
(* order, and an acknowledged offset that is never ahead of the work.      *)
(*                                                                         *)
(* The acknowledgement may move back (the work is then done again), and a  *)
(* restart that finds none may pass over what was queued.                  *)
(***************************************************************************)
EXTENDS Integers

CONSTANTS Partition, Offset

VARIABLES
    length,     \* how many messages each partition has been given
    processed,  \* the offsets whose message has been processed
    lost,       \* the offsets that were passed over
    acked       \* everything below is acknowledged; -1 before the first

vars == <<length, processed, lost, acked>>

Nothing == -1

(* Below any of these there is at most everything.                         *)
Acks == {o + 1 : o \in Offset}

Queued(p) == {o \in Offset : o < length[p]}

Init ==
    /\ length = [p \in Partition |-> 0]
    /\ processed = [p \in Partition |-> {}]
    /\ lost = [p \in Partition |-> {}]
    /\ acked = [p \in Partition |-> Nothing]

Enqueue(p) ==
    /\ length' = [length EXCEPT ![p] = @ + 1]
    /\ UNCHANGED <<processed, lost, acked>>

(* Only what was queued is processed, perhaps not for the first time.      *)
Process(p, o) ==
    /\ o \in Queued(p)
    /\ processed' = [processed EXCEPT ![p] = @ \union {o}]
    /\ UNCHANGED <<length, lost, acked>>

(* An acknowledgement covers nothing that is still to be done.             *)
Acknowledge(p, n) ==
    /\ Queued(p) \cap (0 .. n - 1) \subseteq processed[p] \union lost[p]
    /\ acked' = [acked EXCEPT ![p] = n]
    /\ UNCHANGED <<length, processed, lost>>

(* A partition with an acknowledgement loses nothing when the consumer     *)
(* starts again; one without may lose all it holds.                        *)
Rejoin ==
    /\ lost' = [p \in Partition |->
                   IF acked[p] = Nothing
                   THEN lost[p] \union (Queued(p) \ processed[p])
                   ELSE lost[p]]
    /\ UNCHANGED <<length, processed, acked>>

Next ==
    \/ \E p \in Partition : Enqueue(p)
    \/ \E p \in Partition, o \in Offset : Process(p, o)
    \/ \E p \in Partition, n \in Acks : Acknowledge(p, n)
    \/ Rejoin

Spec == Init /\ [][Next]_vars

=============================================================================
