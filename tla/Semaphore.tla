------------------------------ MODULE Semaphore ------------------------------
(***************************************************************************)
(* The counting semaphore of src/src/worker/semaphore.service.ts.  It      *)
(* hands out isolate box numbers.  acquire() and release() run without an  *)
(* await, so each call is one step; a caller that finds no free box is     *)
(* parked in a FIFO of promise resolvers, and release() resolves the       *)
(* oldest one with the very box it was given.                              *)
(*                                                                         *)
(* A request is named by the task it is made for.  "held" is not a field   *)
(* of the service: it records which requests were answered with which box  *)
(* and have not released it, that is, the live results of acquire().       *)
(***************************************************************************)
EXTENDS Naturals, Sequences, FiniteSets, Functions

CONSTANTS
    Workers,     \* the constructor argument (MAX_WORKERS)
    Task,        \* what a box can be requested for
    MaxWaiting   \* bound: how many requests may be parked at once

ASSUME SemaphoreAssumption ==
    /\ Workers \in Nat \ {0}
    /\ MaxWaiting \in Nat

VARIABLES
    count,           \* permits left
    availableBoxes,  \* free boxes, oldest first
    queue,           \* parked requests, oldest first
    held             \* answered requests that hold a box

semVars == <<count, availableBoxes, queue, held>>

\* Array.from({ length: workers }, (_, i) => i)
Boxes == 0 .. Workers - 1

Holder == [task : Task, box : Boxes]

SemInit ==
    /\ count = Workers
    /\ availableBoxes = [i \in 1 .. Workers |-> i - 1]
    /\ queue = <<>>
    /\ held = {}

-----------------------------------------------------------------------------
(* Faulty variants: the free box is handed out but not shifted off the     *)
(* list; the box is handed over and put back; the newest request is served *)
(* first; the resolver is dropped; the box goes back although somebody is  *)
(* parked, without its permit, or only as a permit.                        *)
TakeBoxNoShift(t) ==
    /\ count > 0
    /\ count' = count - 1
    /\ held' = held \union {[task |-> t, box |-> Head(availableBoxes)]}
    /\ UNCHANGED <<availableBoxes, queue>>

HandOverAndPutBack(h) ==
    /\ queue # <<>>
    /\ held' = (held \ {h}) \union {[task |-> Head(queue), box |-> h.box]}
    /\ queue' = Tail(queue)
    /\ availableBoxes' = Append(availableBoxes, h.box)
    /\ count' = count + 1

HandOverNewest(h) ==
    /\ queue # <<>>
    /\ held' = (held \ {h}) \union {[task |-> queue[Len(queue)], box |-> h.box]}
    /\ queue' = SubSeq(queue, 1, Len(queue) - 1)
    /\ UNCHANGED <<count, availableBoxes>>

HandOverToNobody(h) ==
    /\ queue # <<>>
    /\ held' = held \ {h}
    /\ queue' = Tail(queue)
    /\ availableBoxes' = Append(availableBoxes, h.box)
    /\ count' = count + 1

PutBackAlways(h) ==
    /\ held' = held \ {h}
    /\ availableBoxes' = Append(availableBoxes, h.box)
    /\ count' = count + 1
    /\ UNCHANGED queue

PutBackNoBox(h) ==
    /\ queue = <<>>
    /\ held' = held \ {h}
    /\ count' = count + 1
    /\ UNCHANGED <<availableBoxes, queue>>

-----------------------------------------------------------------------------
(* acquire(): a free permit is taken at once ...                           *)
TakeBox(t) ==
    /\ count > 0
    /\ count' = count - 1
    /\ held' = held \union {[task |-> t, box |-> Head(availableBoxes)]}
    /\ availableBoxes' = Tail(availableBoxes)
    /\ UNCHANGED queue

(* ... and otherwise the caller is parked.                                 *)
Park(t) ==
    /\ count = 0
    /\ queue' = Append(queue, t)
    /\ UNCHANGED <<count, availableBoxes, held>>

Acquire(t) == TakeBox(t) \/ Park(t)

(* release(boxId): the oldest parked request is resolved with this box ... *)
HandOver(h) ==
    /\ queue # <<>>
    /\ held' = (held \ {h}) \union {[task |-> Head(queue), box |-> h.box]}
    /\ queue' = Tail(queue)
    /\ UNCHANGED <<count, availableBoxes>>

(* ... and with nobody parked the box and its permit go back.              *)
PutBack(h) ==
    /\ queue = <<>>
    /\ held' = held \ {h}
    /\ availableBoxes' = Append(availableBoxes, h.box)
    /\ count' = count + 1
    /\ UNCHANGED queue

Release(h) == HandOver(h) \/ PutBack(h)

(* A holder that ends without calling release(): the box and its permit    *)
(* are never seen again (processMessage does this to an empty message).    *)
Drop(h) ==
    /\ held' = held \ {h}
    /\ UNCHANGED <<count, availableBoxes, queue>>

-----------------------------------------------------------------------------
SemNext ==
    \/ \E t \in Task : Len(queue) < MaxWaiting /\ Acquire(t)
    \/ \E h \in held : Release(h)

SemSpec == SemInit /\ [][SemNext]_semVars

(* Whoever holds a box gives it back: a job ends, because the sandbox      *)
(* bounds its time, and processMessage releases in a finally block.        *)
SemFairness == \A h \in Holder : WF_semVars(h \in held /\ Release(h))

-----------------------------------------------------------------------------
FreeBoxes == Range(availableBoxes)

HeldBoxes == {h.box : h \in held}

(* Types of the service's fields and of the live results of acquire().     *)
SemTypeOK ==
    /\ count \in 0 .. Workers
    /\ availableBoxes \in Seq(Boxes)
    /\ queue \in Seq(Task)
    /\ held \subseteq Holder

(* The isolate box given to a request is given to nobody else while the    *)
(* request holds it: acquire() never shifts a box that is in use, and      *)
(* release() never both hands a box over and puts it back.                 *)
BoxExclusive ==
    /\ \A h, k \in held : h.box = k.box => h = k
    /\ FreeBoxes \cap HeldBoxes = {}
    /\ \A i, j \in DOMAIN availableBoxes :
           availableBoxes[i] = availableBoxes[j] => i = j

(* The permit counter and the list of free boxes say the same, so          *)
(* "shift()!" in acquire() always has a box to return.                     *)
PermitsMatchBoxes == count = Len(availableBoxes)

(* No lost wake-up: nobody is parked while a permit is free.               *)
NoIdlePermit == queue # <<>> => count = 0

(* release() loses no box: each one is free or held by a live request.     *)
BoxesConserved == Boxes = FreeBoxes \union HeldBoxes

(* Hand-over is fair: a parked request is answered, however many others    *)
(* come after it, because release() serves the oldest one.                 *)
ParkedIsServed ==
    \A t \in Task : (t \in Range(queue)) ~> (\E h \in held : h.task = t)

=============================================================================
