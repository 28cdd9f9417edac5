---------------------------- MODULE WorkerManager ----------------------------
(***************************************************************************)
(* src/src/worker/worker-manager.service.ts: the consumer of the           *)
(* submissions topic.  eachMessage tracks a message, takes a box for it    *)
(* (pausing the topic when there is none) and starts processMessage        *)
(* without awaiting it; processMessage judges, gives the box back, resumes *)
(* the partition and commits what the tracker says is safe.                *)
(*                                                                         *)
(* Node.js runs the code between two awaits without interruption, so a     *)
(* step here is such a stretch.  The semaphore and the tracker are the     *)
(* modules of those services.  kafkajs and the broker are modelled from    *)
(* how this file uses them: one eachMessage at a time, a pause of a topic  *)
(* and a resume of a single partition, commits that are requests, and a    *)
(* join that starts from the committed offset or, without one, from the    *)
(* end of the log (fromBeginning: false).                                  *)
(***************************************************************************)
EXTENDS Integers, Sequences, FiniteSetsExt

CONSTANTS
    Partition,       \* partitions of the topic
    MaxOffset,       \* bound: the last offset of a partition
    Workers,         \* MAX_WORKERS
    Empty,           \* the messages that carry no value
    MaxRetries,      \* maxRetries of onModuleInit
    MaxCrashes,      \* bound: process crashes and restarts
    MaxRebalances    \* bound: times the group makes the consumer rejoin

Offset == 0 .. MaxOffset

Message == [partition : Partition, offset : Offset]

ASSUME WorkerManagerAssumption ==
    /\ MaxOffset \in Nat
    /\ Workers \in Nat \ {0}
    /\ Empty \subseteq Message
    /\ MaxRetries \in Nat \ {0}
    /\ MaxCrashes \in Nat
    /\ MaxRebalances \in Nat

VARIABLES
    \* SemaphoreService
    count, availableBoxes, queue, held,
    \* OffsetTrackerService
    tracked, inFlight, committed,
    \* WorkerManagerService
    isPaused,        \* the flag of that name
    handler,         \* the message eachMessage awaits a box for, or Idle
    running,         \* the answered requests whose processMessage is judging
    attempt,         \* the startup attempt of onModuleInit, 0 when consuming
    \* the kafkajs consumer and the broker
    logEnd,          \* how many messages each partition holds
    position,        \* the next offset the consumer delivers
    paused,          \* the partitions it does not fetch from
    requests,        \* commitOffsets calls that are not answered
    groupOffset,     \* the group's committed offset, NoOffset before the first
    \* history
    finished,        \* offsets whose processMessage has ended
    skipped,         \* unfinished offsets that a join has passed over
    crashes, rebalances

semaphore == <<count, availableBoxes, queue, held>>
tracker == <<tracked, inFlight, committed>>
manager == <<isPaused, handler, running, attempt>>
history == <<finished, skipped>>
bounds == <<crashes, rebalances>>
vars == <<semaphore, tracker, manager, logEnd, position, paused, requests,
          groupOffset, history, bounds>>

Sem == INSTANCE Semaphore WITH Task <- Message, MaxWaiting <- 1
Trk == INSTANCE OffsetTracker WITH next <- position, done <- finished

NoOffset == Trk!NoOffset

Idle == [partition |-> "none", offset |-> NoOffset]

Request == [partition : Partition, offset : 1 .. MaxOffset + 1]

Consuming == attempt = 0

-----------------------------------------------------------------------------
Init ==
    /\ Sem!SemInit
    /\ Trk!TrackerInit
    /\ isPaused = FALSE
    /\ handler = Idle
    /\ running = {}
    /\ attempt = 1
    /\ logEnd = [p \in Partition |-> 0]
    /\ position = [p \in Partition |-> 0]
    /\ paused = {}
    /\ requests = {}
    /\ groupOffset = [p \in Partition |-> NoOffset]
    /\ finished = [p \in Partition |-> {}]
    /\ skipped = [p \in Partition |-> {}]
    /\ crashes = 0
    /\ rebalances = 0

(* The group hands the consumer its partitions.  It goes on from the       *)
(* committed offset; a partition without one starts at the end of the log. *)
Join ==
    /\ position' = [p \in Partition |->
                       IF groupOffset[p] = NoOffset THEN logEnd[p] ELSE groupOffset[p]]
    /\ skipped' = [p \in Partition |->
                      IF groupOffset[p] = NoOffset
                      THEN skipped[p] \union ((0 .. logEnd[p] - 1) \ finished[p])
                      ELSE skipped[p]]

(* onModuleInit: subscribe and run, tried MaxRetries times.                *)
StartConsumer ==
    /\ ~ Consuming
    /\ attempt' = 0
    /\ Join
    /\ UNCHANGED <<semaphore, tracker, isPaused, handler, running, logEnd,
                   paused, requests, groupOffset, finished, bounds>>

StartFails ==
    /\ attempt \in 1 .. MaxRetries - 1
    /\ attempt' = attempt + 1
    /\ UNCHANGED <<semaphore, tracker, isPaused, handler, running, logEnd,
                   position, paused, requests, groupOffset, history, bounds>>

(* The API of this same process queues a submission; it listens only after *)
(* onModuleInit has returned.                                              *)
Publish(p) ==
    /\ Consuming
    /\ logEnd[p] <= MaxOffset
    /\ logEnd' = [logEnd EXCEPT ![p] = @ + 1]
    /\ UNCHANGED <<semaphore, tracker, manager, position, paused, requests,
                   groupOffset, history, bounds>>

-----------------------------------------------------------------------------
(* Faulty variant: only the partition of the message is paused.            *)
AcquireOrPauseOne(m) ==
    /\ IF ~isPaused /\ count = 0
       THEN isPaused' = TRUE /\ paused' = paused \union {m.partition}
       ELSE UNCHANGED <<isPaused, paused>>
    /\ Sem!Acquire(m)

(* acquireOrPause, up to its await: with no permit left the whole topic is *)
(* paused, once, and the handler is parked.                                *)
AcquireOrPause(m) ==
    /\ IF ~isPaused /\ count = 0
       THEN isPaused' = TRUE /\ paused' = Partition
       ELSE UNCHANGED <<isPaused, paused>>
    /\ Sem!Acquire(m)

(* Faulty variant: the message is not tracked.                             *)
ReceiveUntracked(p) ==
    LET m == [partition |-> p, offset |-> position[p]] IN
    /\ Consuming
    /\ handler = Idle
    /\ p \notin paused
    /\ position[p] < logEnd[p]
    /\ AcquireOrPause(m)
    /\ handler' = m
    /\ UNCHANGED <<tracker, running, attempt, logEnd, position, requests,
                   groupOffset, history, bounds>>

(* eachMessage is called with the next message of a partition.             *)
ReceiveMessage(p) ==
    LET m == [partition |-> p, offset |-> position[p]] IN
    /\ Consuming
    /\ handler = Idle
    /\ p \notin paused
    /\ position[p] < logEnd[p]
    /\ Trk!Track(p, m.offset)
    /\ AcquireOrPause(m)
    /\ handler' = m
    /\ UNCHANGED <<running, attempt, logEnd, position, requests, groupOffset,
                   history, bounds>>

(* Faulty variants: kafkajs is left on the message, or moves past two.     *)
HandlerReturnsTwice ==
    /\ handler' = Idle
    /\ UNCHANGED <<tracker, isPaused, attempt, logEnd, position, paused, requests,
                   groupOffset, history, bounds>>

HandlerReturnsFar ==
    /\ handler' = Idle
    /\ position' = [position EXCEPT ![handler.partition] = handler.offset + 2]
    /\ UNCHANGED <<tracker, isPaused, attempt, logEnd, paused, requests,
                   groupOffset, history, bounds>>

(* The box has come: processMessage runs up to its first await, and        *)
(* eachMessage returns, so that kafkajs moves past the message.            *)
HandlerReturns ==
    /\ handler' = Idle
    /\ position' = [position EXCEPT ![handler.partition] = handler.offset + 1]
    /\ UNCHANGED <<tracker, isPaused, attempt, logEnd, paused, requests,
                   groupOffset, history, bounds>>

Granted(h) == h \in held \ running /\ h.task = handler

StartJob(h) ==
    /\ Granted(h)
    /\ handler \notin Empty
    /\ running' = running \union {h}
    /\ UNCHANGED semaphore
    /\ HandlerReturns

(* "Empty message, skipping": the early return is outside the try, so      *)
(* neither the box is released nor the offset completed.                   *)
SkipEmpty(h) ==
    /\ Granted(h)
    /\ handler \in Empty
    /\ Sem!Drop(h)
    /\ UNCHANGED running
    /\ HandlerReturns

-----------------------------------------------------------------------------
(* Faulty variant: the flag is never cleared.                              *)
ResumeKeepsFlag(p) ==
    /\ paused' = IF isPaused THEN paused \ {p} ELSE paused
    /\ UNCHANGED isPaused

(* if (isPaused) resume this job's partition, and no other.                *)
ResumePartition(p) ==
    /\ paused' = IF isPaused THEN paused \ {p} ELSE paused
    /\ isPaused' = FALSE

(* Faulty variants: the message's own offset is committed; the request     *)
(* names an offset too many.                                               *)
CompleteAndCommitOwn(p, o) ==
    /\ Trk!Complete(p, o)
    /\ requests' = requests \union {[partition |-> p, offset |-> o + 1]}

CompleteAndCommitNext(p, o) ==
    LET safe == Trk!SafeOffset(p, o) IN
    /\ Trk!Complete(p, o)
    /\ requests' = IF safe = NoOffset
                   THEN requests
                   ELSE requests \union {[partition |-> p, offset |-> safe + 2]}

(* tracker.complete, and the commit request if there is something safe.    *)
CompleteAndCommit(p, o) ==
    LET safe == Trk!SafeOffset(p, o) IN
    /\ Trk!Complete(p, o)
    /\ requests' = IF safe = NoOffset
                   THEN requests
                   ELSE requests \union {[partition |-> p, offset |-> safe + 1]}

(* judgeSubmission has returned, or thrown: the catch block only logs, and *)
(* the finally block is the same for both.                                 *)
FinishJob(h) ==
    LET p == h.task.partition
        o == h.task.offset IN
    /\ h \in running
    /\ running' = running \ {h}
    /\ Sem!Release(h)
    /\ ResumePartition(p)
    /\ CompleteAndCommit(p, o)
    /\ finished' = [finished EXCEPT ![p] = @ \union {o}]
    /\ UNCHANGED <<handler, attempt, logEnd, position, groupOffset, skipped, bounds>>

(* The broker answers a commit request.  Requests are retried, so they     *)
(* take effect in any order.                                               *)
CommitOffset(r) ==
    /\ r \in requests
    /\ requests' = requests \ {r}
    /\ groupOffset' = [groupOffset EXCEPT ![r.partition] = r.offset]
    /\ UNCHANGED <<semaphore, tracker, manager, logEnd, position, paused,
                   history, bounds>>

(* A commit that fails for good: commitErr is logged and forgotten.        *)
CommitFails(r) ==
    /\ r \in requests
    /\ requests' = requests \ {r}
    /\ UNCHANGED <<semaphore, tracker, manager, logEnd, position, paused,
                   groupOffset, history, bounds>>

-----------------------------------------------------------------------------
(* The group makes the consumer rejoin (a handler parked longer than the   *)
(* session timeout sends no heartbeat).  kafkajs notices between messages; *)
(* the jobs that run, the tracker and the pauses are left as they are.     *)
Rebalance ==
    /\ Consuming
    /\ handler = Idle
    /\ rebalances < MaxRebalances
    /\ rebalances' = rebalances + 1
    /\ Join
    /\ UNCHANGED <<semaphore, tracker, manager, logEnd, paused, requests,
                   groupOffset, finished, crashes>>

(* The process ends (a crash, the memory limit of the process manager, or  *)
(* onModuleDestroy at the end of a test) and is started again: all that is *)
(* in memory is built afresh.                                              *)
Crash ==
    /\ crashes < MaxCrashes
    /\ crashes' = crashes + 1
    /\ count' = Workers
    /\ availableBoxes' = [i \in 1 .. Workers |-> i - 1]
    /\ queue' = <<>>
    /\ held' = {}
    /\ tracked' = {}
    /\ inFlight' = [p \in Partition |-> {}]
    /\ committed' = [p \in Partition |-> NoOffset]
    /\ isPaused' = FALSE
    /\ handler' = Idle
    /\ running' = {}
    /\ attempt' = 1
    /\ paused' = {}
    /\ requests' = {}
    /\ UNCHANGED <<logEnd, position, groupOffset, history, rebalances>>

Next ==
    \/ StartConsumer
    \/ StartFails
    \/ \E p \in Partition : Publish(p) \/ ReceiveMessage(p)
    \/ \E h \in held : StartJob(h) \/ SkipEmpty(h)
    \/ \E h \in running : FinishJob(h)
    \/ \E r \in requests : CommitOffset(r) \/ CommitFails(r)
    \/ Rebalance
    \/ Crash

Spec == Init /\ [][Next]_vars

-----------------------------------------------------------------------------
(* Types of the fields of the service, of the consumer and of the broker.  *)
TypeOK ==
    /\ Sem!SemTypeOK
    /\ tracked \subseteq Partition
    /\ inFlight \in [Partition -> SUBSET Offset]
    /\ committed \in [Partition -> Offset \union {NoOffset}]
    /\ isPaused \in BOOLEAN
    /\ handler \in Message \union {Idle}
    /\ running \subseteq held
    /\ attempt \in 0 .. MaxRetries
    /\ logEnd \in [Partition -> 0 .. MaxOffset + 1]
    /\ position \in [Partition -> 0 .. MaxOffset + 1]
    /\ paused \subseteq Partition
    /\ requests \subseteq Request
    /\ groupOffset \in [Partition -> (0 .. MaxOffset + 1) \union {NoOffset}]
    /\ finished \in [Partition -> SUBSET Offset]
    /\ skipped \in [Partition -> SUBSET Offset]
    /\ crashes \in 0 .. MaxCrashes
    /\ rebalances \in 0 .. MaxRebalances

(* Two submissions are never judged in the same isolate box at once, and a *)
(* box that is in use is not offered to the next one, across hand-overs,   *)
(* empty messages, rebalances and restarts.                                *)
JobsHaveOwnBox == Sem!BoxExclusive

(* Every offset below the committed one is finished: whatever was committed*)
(* and in whichever order the commits arrived, a restart passes over no    *)
(* message that was delivered and is not finished.  Messages that a join   *)
(* without a committed offset has already passed over are the exception.   *)
CommitCoversFinished ==
    \A p \in Partition : \A o \in Offset :
        o < groupOffset[p] => o \in finished[p] \union skipped[p]

(* The same for the commit requests on their way to the broker.            *)
RequestsCoverFinished ==
    \A r \in requests : \A o \in Offset :
        o < r.offset => o \in finished[r.partition] \union skipped[r.partition]

(* A message that the handler holds or a job judges.                       *)
Handled(m) == handler = m \/ \E h \in running : h.task = m

(* The tracker forgets no message: what has been delivered is finished, in *)
(* flight, or was passed over by a join without a committed offset.        *)
DeliveredIsAccounted ==
    Consuming =>
        \A p \in Partition : \A o \in Offset :
            o < position[p] => o \in finished[p] \union inFlight[p] \union skipped[p]

(* Backpressure: while a handler is parked the whole topic is paused, so   *)
(* the consumer is handed nothing it has no box for.                       *)
ParkedMeansPaused == queue # <<>> => isPaused /\ paused = Partition

(* The flag is set only while some job still runs whose end will clear it: *)
(* otherwise nothing would ever resume the topic.                          *)
PauseHasEnd == isPaused => running # {}

(* The empty message is the only thing that costs a box: as many boxes are *)
(* missing as empty messages are in flight without a handler, until a join *)
(* delivers one of them again.  Jobs, hand-overs and crashes lose none.    *)
LostBoxes == Sem!Boxes \ (Sem!FreeBoxes \union Sem!HeldBoxes)

SkippedEmpties == {m \in Empty : m # handler /\ m.offset \in inFlight[m.partition]}

BoxesLostToEmpties ==
    rebalances = 0 => Cardinality(LostBoxes) = Cardinality(SkippedEmpties)

(* A message is judged by one job at a time, as long as the group does not *)
(* make the consumer rejoin.                                               *)
OneJobPerMessage ==
    rebalances = 0 => \A h, k \in held : h.task = k.task => h = k

(* Once nothing more is in flight the resume calls have undone the pause   *)
(* of every partition.                                                     *)
NothingLeftPaused == running = {} /\ handler = Idle => paused = {}

(* Queued submissions get the abstract queue's promise.                    *)
Queue == INSTANCE JudgeQueue
             WITH length <- logEnd, processed <- finished, lost <- skipped,
                  acked <- groupOffset

ImplementsQueue == Queue!Spec

(* README: "no submissions are lost, even if a worker crashes": while the  *)
(* consumer runs, a queued message is finished, in flight or still ahead.  *)
NoSubmissionLost ==
    Consuming =>
        \A p \in Partition : \A o \in 0 .. logEnd[p] - 1 :
            o \in finished[p] \union inFlight[p] \/ o >= position[p]

=============================================================================
