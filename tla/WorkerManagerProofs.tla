------------------------- MODULE WorkerManagerProofs -------------------------
(* What the worker commits is finished, for every number of partitions,    *)
(* offsets, workers, crashes and rebalances.                               *)
EXTENDS WorkerManager, FiniteSetTheorems, TLAPS

(* The lemma about complete() proved for the tracker.                      *)
TrkP == INSTANCE OffsetTrackerProofs WITH next <- position, done <- finished

(* The parts of the state the argument looks at have their types.          *)
CommitTypeOK ==
    /\ queue \in Seq(Message)
    /\ \A h \in held : h.task \in Message
    /\ running \subseteq held
    /\ handler \in Message \union {Idle}
    /\ tracked \subseteq Partition
    /\ inFlight \in [Partition -> SUBSET Offset]
    /\ \A p \in Partition : inFlight[p] # {} => p \in tracked
    /\ committed \in [Partition -> Offset \union {NoOffset}]
    /\ logEnd \in [Partition -> 0 .. MaxOffset + 1]
    /\ position \in [Partition -> 0 .. MaxOffset + 1]
    /\ requests \subseteq Request
    /\ groupOffset \in [Partition -> (0 .. MaxOffset + 1) \union {NoOffset}]
    /\ finished \in [Partition -> SUBSET Offset]
    /\ skipped \in [Partition -> SUBSET Offset]

(* Nothing more is to be done for a settled offset; an accounted one is at *)
(* least known to the tracker.                                             *)
Settled(p) == finished[p] \union skipped[p]
Accounted(p) == Settled(p) \union inFlight[p]

SettledBelow(p, n) == \A x \in Offset : x < n => x \in Settled(p)
AccountedBelow(p, n) == \A x \in Offset : x < n => x \in Accounted(p)

(* The messages that hold a box or wait for one.                           *)
LiveMessages == {h.task : h \in held} \union {queue[i] : i \in DOMAIN queue}

(* complete() is called with the offset of a live message and looks at the *)
(* lowest offset in flight, so nothing may be missing below either.  An    *)
(* offset enters both sets as the position of the consumer, below which    *)
(* nothing is missing while it consumes.                                   *)
CommitInv ==
    /\ Consuming => \A p \in Partition : AccountedBelow(p, position[p])
    /\ \A p \in Partition : \A o \in inFlight[p] : AccountedBelow(p, o)
    /\ \A m \in LiveMessages :
           /\ m.partition \in tracked
           /\ m.offset < logEnd[m.partition]
           /\ AccountedBelow(m.partition, m.offset)
    /\ handler # Idle => handler.offset \in Accounted(handler.partition)
    /\ \A r \in requests : SettledBelow(r.partition, r.offset)
    /\ \A p \in Partition : SettledBelow(p, groupOffset[p])

WorkerInv == CommitTypeOK /\ CommitInv

-----------------------------------------------------------------------------
LEMMA WorkerInitInv == Init => WorkerInv
<1> SUFFICES ASSUME Init
             PROVE  WorkerInv
  OBVIOUS
<1> USE WorkerManagerAssumption DEF Init, Sem!SemInit, Trk!TrackerInit
<1>1. CommitTypeOK
  BY DEF CommitTypeOK, NoOffset, Trk!NoOffset
<1>2. CommitInv
  BY DEF CommitInv, Consuming, LiveMessages, SettledBelow, NoOffset, Trk!NoOffset,
         Offset, Idle
<1> QED
  BY <1>1, <1>2 DEF WorkerInv

(* acquire() adds its message to the live ones and no other.               *)
LEMMA AcquireLive ==
  ASSUME CommitTypeOK, NEW m \in Message, Sem!Acquire(m)
  PROVE  /\ queue' \in Seq(Message)
         /\ \A h \in held' : h.task \in Message
         /\ held \subseteq held'
         /\ LiveMessages' \subseteq LiveMessages \union {m}
<1>1. CASE Sem!TakeBox(m)
  BY <1>1 DEF CommitTypeOK, Sem!TakeBox, LiveMessages
<1>2. CASE Sem!Park(m)
  <2>1. queue \in Seq(Message) /\ queue' = Append(queue, m) /\ UNCHANGED held
    BY <1>2 DEF CommitTypeOK, Sem!Park
  <2>2. \A i \in DOMAIN queue' :
            \/ i \in DOMAIN queue /\ queue'[i] = queue[i]
            \/ queue'[i] = m
    BY <2>1
  <2> QED
    BY <2>1, <2>2 DEF CommitTypeOK, LiveMessages
<1> QED
  BY <1>1, <1>2 DEF Sem!Acquire

(* release() makes nothing live that was not.                              *)
LEMMA ReleaseLive ==
  ASSUME CommitTypeOK, NEW h \in held, Sem!Release(h)
  PROVE  /\ queue' \in Seq(Message)
         /\ \A k \in held' : k.task \in Message
         /\ held \ {h} \subseteq held'
         /\ LiveMessages' \subseteq LiveMessages
<1>1. CASE Sem!HandOver(h)
  <2>1. /\ queue \in Seq(Message) /\ queue # <<>> /\ queue' = Tail(queue)
        /\ held' = (held \ {h}) \union {[task |-> Head(queue), box |-> h.box]}
    BY <1>1 DEF CommitTypeOK, Sem!HandOver
  <2>2. \A i \in DOMAIN queue' : i + 1 \in DOMAIN queue /\ queue'[i] = queue[i + 1]
    BY <2>1
  <2>3. Head(queue) = queue[1] /\ 1 \in DOMAIN queue /\ Head(queue) \in Message
    BY <2>1
  <2> QED
    BY <2>1, <2>2, <2>3 DEF CommitTypeOK, LiveMessages
<1>2. CASE Sem!PutBack(h)
  BY <1>2 DEF CommitTypeOK, Sem!PutBack, LiveMessages
<1> QED
  BY <1>1, <1>2 DEF Sem!Release

(* The tracker's lemma in the names used here.                             *)
LEMMA SafeOffsetHere ==
  ASSUME CommitTypeOK, NEW p \in tracked, NEW o \in Offset
  PROVE  LET n == Trk!SafeOffset(p, o) IN
         /\ n \in Offset \union {NoOffset}
         /\ n # NoOffset => /\ \A x \in inFlight[p] \ {o} : n < x
                            /\ n = o \/ n + 1 \in inFlight[p]
<1>1. TrkP!OffsetTrackerAssumption
  BY WorkerManagerAssumption DEF TrkP!OffsetTrackerAssumption
<1>2. TrkP!Offset = Offset /\ TrkP!NoOffset = NoOffset
  BY DEF TrkP!Offset, Offset, TrkP!NoOffset, NoOffset, Trk!NoOffset
<1>3. TrkP!SafeOffset(p, o) = Trk!SafeOffset(p, o)
  BY DEF TrkP!SafeOffset, Trk!SafeOffset, TrkP!NoOffset, Trk!NoOffset,
         TrkP!Min, Trk!Min
<1>4. inFlight[p] \in SUBSET Offset /\ committed[p] \in Offset \union {NoOffset}
  BY DEF CommitTypeOK
<1>5. LET n == TrkP!SafeOffset(p, o) IN
         /\ n \in TrkP!Offset \union {TrkP!NoOffset}
         /\ n # TrkP!NoOffset => /\ \A x \in inFlight[p] \ {o} : n < x
                                 /\ n = o \/ n + 1 \in inFlight[p]
  BY <1>1, <1>2, <1>4, TrkP!SafeOffsetLemma
<1> QED
  BY <1>2, <1>3, <1>5

-----------------------------------------------------------------------------
(* What was settled or accounted for stays so when the sets only grow.     *)
LEMMA BelowMonotone ==
  ASSUME NEW p, NEW n,
         Settled(p) \subseteq Settled(p)',
         Accounted(p) \subseteq Accounted(p)'
  PROVE  /\ SettledBelow(p, n) => \A x \in Offset : x < n => x \in Settled(p)'
         /\ AccountedBelow(p, n) => \A x \in Offset : x < n => x \in Accounted(p)'
BY DEF SettledBelow, AccountedBelow

(* A join puts the consumer where everything below is settled or passes    *)
(* over what is not.                                                       *)
LEMMA JoinInv ==
  ASSUME WorkerInv, Join,
         attempt' = 0 \/ attempt' = attempt,
         UNCHANGED <<queue, held, running, handler, tracker, logEnd, requests,
                     groupOffset, finished>>
  PROVE  WorkerInv'
<1> USE DEF WorkerInv
<1>1. \A p \in Partition : /\ Settled(p) \subseteq Settled(p)'
                           /\ Accounted(p) \subseteq Accounted(p)'
                           /\ inFlight'[p] = inFlight[p]
  BY DEF Join, Settled, Accounted, CommitTypeOK, tracker
<1>2. CommitTypeOK'
  <2>1. position' \in [Partition -> 0 .. MaxOffset + 1]
    BY DEF Join, CommitTypeOK
  <2>2. \A p \in Partition : 0 .. logEnd[p] - 1 \subseteq Offset
    BY WorkerManagerAssumption DEF CommitTypeOK, Offset
  <2>3. skipped' \in [Partition -> SUBSET Offset]
    BY <2>2 DEF Join, CommitTypeOK
  <2> QED
    BY <2>1, <2>3 DEF CommitTypeOK, tracker
<1>3. \A p \in Partition : AccountedBelow(p, position[p])'
  <2> SUFFICES ASSUME NEW p \in Partition, NEW x \in Offset, x < position'[p]
               PROVE  x \in Accounted(p)'
    BY DEF AccountedBelow
  <2>1. CASE groupOffset[p] = NoOffset
    <3>1. position'[p] = logEnd[p]
      BY <2>1 DEF Join
    <3>2. skipped'[p] = skipped[p] \union ((0 .. logEnd[p] - 1) \ finished[p])
      BY <2>1 DEF Join
    <3>3. x \in 0 .. logEnd[p] - 1
      BY <3>1, WorkerManagerAssumption DEF CommitTypeOK, Offset
    <3> QED
      BY <3>2, <3>3 DEF Accounted, Settled
  <2>2. CASE groupOffset[p] # NoOffset
    <3>1. position'[p] = groupOffset[p]
      BY <2>2 DEF Join
    <3>2. x \in Settled(p)
      BY <3>1 DEF CommitInv, SettledBelow
    <3> QED
      BY <3>2, <1>1 DEF Accounted
  <2> QED
    BY <2>1, <2>2
<1>4. LiveMessages' = LiveMessages
  BY DEF LiveMessages
<1>5. CommitInv'
  <2>1. \A p \in Partition : \A o \in inFlight'[p] : AccountedBelow(p, o)'
    BY <1>1 DEF CommitInv, AccountedBelow
  <2>2. \A m \in LiveMessages' : /\ m.partition \in tracked'
                                 /\ m.offset < logEnd'[m.partition]
                                 /\ AccountedBelow(m.partition, m.offset)'
    BY <1>1, <1>4 DEF CommitInv, CommitTypeOK, AccountedBelow, tracker
  <2>3. handler' # Idle => handler'.offset \in Accounted(handler.partition)'
    BY <1>1 DEF CommitInv, CommitTypeOK, Message
  <2>4. \A r \in requests' : SettledBelow(r.partition, r.offset)'
    BY <1>1 DEF CommitInv, CommitTypeOK, SettledBelow, Request
  <2>5. \A p \in Partition : SettledBelow(p, groupOffset[p])'
    BY <1>1 DEF CommitInv, SettledBelow
  <2> QED
    BY <1>3, <2>1, <2>2, <2>3, <2>4, <2>5 DEF CommitInv
<1> QED
  BY <1>2, <1>5

(* A delivery: the offset that enters the tracker and the live messages is *)
(* the consumer's position.                                                *)
LEMMA ReceiveInv ==
  ASSUME WorkerInv, NEW p \in Partition, ReceiveMessage(p)
  PROVE  WorkerInv'
<1> DEFINE m == [partition |-> p, offset |-> position[p]]
<1> USE DEF WorkerInv
<1>1. /\ Consuming /\ attempt' = attempt
      /\ position[p] < logEnd[p]
      /\ tracked' = tracked \union {p}
      /\ inFlight' = [inFlight EXCEPT ![p] = @ \union {position[p]}]
      /\ Sem!Acquire(m)
      /\ handler' = m
      /\ UNCHANGED <<committed, running, logEnd, position, requests, groupOffset,
                     finished, skipped>>
  BY DEF ReceiveMessage, Trk!Track, AcquireOrPause, history
<1>2. position[p] \in Offset /\ m \in Message /\ m.partition = p /\ m.offset = position[p]
  BY <1>1, WorkerManagerAssumption DEF CommitTypeOK, Offset, Message
<1>3. /\ queue' \in Seq(Message)
      /\ \A h \in held' : h.task \in Message
      /\ held \subseteq held'
      /\ LiveMessages' \subseteq LiveMessages \union {m}
  BY <1>1, <1>2, AcquireLive
<1> HIDE DEF m
<1>4. CommitTypeOK'
  BY <1>1, <1>2, <1>3 DEF CommitTypeOK
<1>5. \A q \in Partition : /\ Settled(q) = Settled(q)'
                           /\ Accounted(q) \subseteq Accounted(q)'
  BY <1>1 DEF Settled, Accounted, CommitTypeOK
<1>6. inFlight'[p] = inFlight[p] \union {position[p]}
      /\ \A q \in Partition \ {p} : inFlight'[q] = inFlight[q]
  BY <1>1 DEF CommitTypeOK
<1>7. CommitInv'
  <2>1. \A q \in Partition : AccountedBelow(q, position[q])'
    BY <1>1, <1>5 DEF CommitInv, AccountedBelow
  <2>2. \A q \in Partition : \A o \in inFlight'[q] : AccountedBelow(q, o)'
    BY <1>1, <1>5, <1>6 DEF CommitInv, AccountedBelow
  <2>3. \A k \in LiveMessages' : /\ k.partition \in tracked'
                                 /\ k.offset < logEnd'[k.partition]
                                 /\ AccountedBelow(k.partition, k.offset)'
    <3> TAKE k \in LiveMessages'
    <3>1. CASE k \in LiveMessages
      BY <3>1, <1>1, <1>5 DEF CommitInv, CommitTypeOK, AccountedBelow
    <3>2. CASE k = m
      BY <3>2, <1>1, <1>2, <1>5 DEF CommitInv, AccountedBelow
    <3> QED
      BY <3>1, <3>2, <1>3
  <2>4. handler'.offset \in Accounted(handler.partition)'
    BY <1>1, <1>2, <1>6 DEF Accounted
  <2>5. \A r \in requests' : SettledBelow(r.partition, r.offset)'
    BY <1>1, <1>5 DEF CommitInv, CommitTypeOK, SettledBelow, Request
  <2>6. \A q \in Partition : SettledBelow(q, groupOffset[q])'
    BY <1>1, <1>5 DEF CommitInv, SettledBelow
  <2> QED
    BY <2>1, <2>2, <2>3, <2>4, <2>5, <2>6 DEF CommitInv
<1> QED
  BY <1>4, <1>7

(* The handler returns: the consumer moves past a message that is          *)
(* accounted for, to a place below which everything is.                    *)
LEMMA HandlerReturnsInv ==
  ASSUME WorkerInv, NEW h \in held, Granted(h), HandlerReturns,
         held' \subseteq held, queue' = queue, running' \subseteq held'
  PROVE  WorkerInv'
<1> DEFINE p == handler.partition
<1> USE DEF WorkerInv
<1>1. /\ handler \in LiveMessages
      /\ handler \in Message
      /\ p \in Partition
      /\ handler.offset \in Offset
  BY DEF Granted, LiveMessages, CommitTypeOK, Message
<1>2. handler # Idle
  BY <1>1 DEF Idle, Offset, NoOffset, Trk!NoOffset
<1>3. /\ handler' = Idle
      /\ attempt' = attempt
      /\ position' = [position EXCEPT ![p] = handler.offset + 1]
      /\ UNCHANGED <<tracker, logEnd, requests, groupOffset, finished, skipped>>
  BY DEF HandlerReturns, history
<1>4. CommitTypeOK'
  <2>1. handler.offset + 1 \in 0 .. MaxOffset + 1
    BY <1>1, WorkerManagerAssumption DEF Offset
  <2> QED
    BY <1>3, <2>1 DEF CommitTypeOK, tracker
<1>5. \A q \in Partition : /\ Settled(q)' = Settled(q)
                           /\ Accounted(q)' = Accounted(q)
                           /\ inFlight'[q] = inFlight[q]
  BY <1>3 DEF Settled, Accounted, tracker
<1>6. LiveMessages' \subseteq LiveMessages
  BY DEF LiveMessages
<1>7. Consuming' => \A q \in Partition : AccountedBelow(q, position[q])'
  <2> SUFFICES ASSUME Consuming', NEW q \in Partition, NEW x \in Offset,
                      x < position'[q]
               PROVE  x \in Accounted(q)'
    BY DEF AccountedBelow
  <2>1. CASE q = p
    <3>1. x < handler.offset + 1
      BY <2>1, <1>3 DEF CommitTypeOK
    <3>2. x < handler.offset \/ x = handler.offset
      BY <3>1, <1>1, WorkerManagerAssumption DEF Offset
    <3>3. AccountedBelow(p, handler.offset) /\ handler.offset \in Accounted(p)
      BY <1>1, <1>2 DEF CommitInv
    <3> QED
      BY <2>1, <3>2, <3>3, <1>5 DEF AccountedBelow
  <2>2. CASE q # p
    <3>1. position'[q] = position[q] /\ Consuming
      BY <2>2, <1>3 DEF CommitTypeOK, Consuming
    <3> QED
      BY <3>1, <1>5 DEF CommitInv, AccountedBelow
  <2> QED
    BY <2>1, <2>2
<1>8. CommitInv'
  <2>1. \A q \in Partition : \A o \in inFlight'[q] : AccountedBelow(q, o)'
    BY <1>5 DEF CommitInv, AccountedBelow
  <2>2. \A k \in LiveMessages' : /\ k.partition \in tracked'
                                 /\ k.offset < logEnd'[k.partition]
                                 /\ AccountedBelow(k.partition, k.offset)'
    BY <1>3, <1>5, <1>6 DEF CommitInv, CommitTypeOK, AccountedBelow, tracker
  <2>3. \A r \in requests' : SettledBelow(r.partition, r.offset)'
    BY <1>3, <1>5 DEF CommitInv, CommitTypeOK, SettledBelow, Request
  <2>4. \A q \in Partition : SettledBelow(q, groupOffset[q])'
    BY <1>3, <1>5 DEF CommitInv, SettledBelow
  <2> QED
    BY <1>3, <1>7, <2>1, <2>2, <2>3, <2>4 DEF CommitInv
<1> QED
  BY <1>4, <1>8

(* The end of a job: what it asks the broker to commit is settled.         *)
LEMMA FinishJobInv ==
  ASSUME WorkerInv, NEW h \in running, FinishJob(h)
  PROVE  WorkerInv'
<1> DEFINE p == h.task.partition
           o == h.task.offset
           n == Trk!SafeOffset(p, o)
<1> USE DEF WorkerInv
<1>1. h \in held /\ h.task \in LiveMessages /\ h.task \in Message
  BY DEF CommitTypeOK, LiveMessages
<1>2. p \in Partition /\ o \in Offset /\ p \in tracked /\ AccountedBelow(p, o)
  BY <1>1 DEF Message, CommitInv
<1>3. /\ Sem!Release(h)
      /\ running' = running \ {h}
      /\ inFlight' = [inFlight EXCEPT ![p] = @ \ {o}]
      /\ committed' = IF n = NoOffset THEN committed ELSE [committed EXCEPT ![p] = n]
      /\ requests' = IF n = NoOffset THEN requests
                     ELSE requests \union {[partition |-> p, offset |-> n + 1]}
      /\ finished' = [finished EXCEPT ![p] = @ \union {o}]
      /\ UNCHANGED <<tracked, handler, attempt, logEnd, position, groupOffset, skipped>>
  BY DEF FinishJob, CompleteAndCommit, Trk!Complete, NoOffset
<1>4. /\ n \in Offset \union {NoOffset}
      /\ n # NoOffset => /\ \A x \in inFlight[p] \ {o} : n < x
                         /\ n = o \/ n + 1 \in inFlight[p]
  BY <1>2, SafeOffsetHere
<1>5. /\ queue' \in Seq(Message)
      /\ \A k \in held' : k.task \in Message
      /\ held \ {h} \subseteq held'
      /\ LiveMessages' \subseteq LiveMessages
  BY <1>1, <1>3, ReleaseLive
<1> HIDE DEF n
<1>6. CommitTypeOK'
  <2>1. n # NoOffset => n + 1 \in 0 .. MaxOffset + 1
    BY <1>4, WorkerManagerAssumption DEF Offset
  <2>2. requests' \subseteq Request
    BY <1>2, <1>3, <1>4, <2>1, WorkerManagerAssumption
    DEF CommitTypeOK, Request, Offset
  <2>3. committed' \in [Partition -> Offset \union {NoOffset}]
    BY <1>3, <1>4 DEF CommitTypeOK
  <2>4. /\ inFlight' \in [Partition -> SUBSET Offset]
        /\ \A q \in Partition : inFlight'[q] # {} => q \in tracked'
        /\ finished' \in [Partition -> SUBSET Offset]
    BY <1>2, <1>3 DEF CommitTypeOK
  <2> QED
    BY <1>3, <1>5, <2>2, <2>3, <2>4 DEF CommitTypeOK
<1>7. \A q \in Partition : /\ Settled(q) \subseteq Settled(q)'
                           /\ Accounted(q) \subseteq Accounted(q)'
                           /\ inFlight'[q] \subseteq inFlight[q]
  BY <1>2, <1>3 DEF Settled, Accounted, CommitTypeOK
<1>8. n # NoOffset => \A x \in Offset : x <= n => x \in Settled(p)'
  <2> SUFFICES ASSUME n # NoOffset, NEW x \in Offset, x <= n
               PROVE  x \in Settled(p)'
    OBVIOUS
  <2>0. o \in Settled(p)'
    BY <1>2, <1>3 DEF Settled, CommitTypeOK
  <2>1. n \in Offset /\ inFlight[p] \in SUBSET Offset
    BY <1>2, <1>4 DEF CommitTypeOK
  <2>2. x \notin inFlight[p] \ {o}
    BY <1>4, <2>1, WorkerManagerAssumption DEF Offset
  <2>3. x = o \/ x \in Accounted(p)
    <3>1. CASE n = o
      BY <1>2, <2>1, <3>1, WorkerManagerAssumption DEF AccountedBelow, Offset
    <3>2. CASE n + 1 \in inFlight[p]
      <4>1. AccountedBelow(p, n + 1)
        BY <1>2, <3>2 DEF CommitInv
      <4> QED
        BY <2>1, <4>1, WorkerManagerAssumption DEF AccountedBelow, Offset
    <3> QED
      BY <1>4, <3>1, <3>2
  <2>4. x = o \/ x \in Settled(p)
    BY <2>2, <2>3 DEF Accounted
  <2> QED
    BY <1>2, <1>7, <2>0, <2>4
<1>9. CommitInv'
  <2>1. Consuming' => \A q \in Partition : AccountedBelow(q, position[q])'
    BY <1>3, <1>7 DEF CommitInv, AccountedBelow, Consuming
  <2>2. \A q \in Partition : \A y \in inFlight'[q] : AccountedBelow(q, y)'
    BY <1>7 DEF CommitInv, AccountedBelow
  <2>3. \A k \in LiveMessages' : /\ k.partition \in tracked'
                                 /\ k.offset < logEnd'[k.partition]
                                 /\ AccountedBelow(k.partition, k.offset)'
    BY <1>3, <1>5, <1>7 DEF CommitInv, CommitTypeOK, AccountedBelow
  <2>4. handler' # Idle => handler'.offset \in Accounted(handler.partition)'
    BY <1>3, <1>7 DEF CommitInv, CommitTypeOK, Message
  <2>5. \A r \in requests' : SettledBelow(r.partition, r.offset)'
    <3> SUFFICES ASSUME NEW r \in requests', NEW x \in Offset, x < r.offset
                 PROVE  x \in Settled(r.partition)'
      BY DEF SettledBelow
    <3>1. CASE r \in requests
      BY <3>1, <1>7 DEF CommitInv, CommitTypeOK, SettledBelow, Request
    <3>2. CASE n # NoOffset /\ r = [partition |-> p, offset |-> n + 1]
      <4>1. x <= n
        BY <3>2, <1>4, WorkerManagerAssumption DEF Offset
      <4> QED
        BY <3>2, <4>1, <1>8
    <3> QED
      BY <3>1, <3>2, <1>3
  <2>6. \A q \in Partition : SettledBelow(q, groupOffset[q])'
    BY <1>3, <1>7 DEF CommitInv, SettledBelow
  <2> QED
    BY <2>1, <2>2, <2>3, <2>4, <2>5, <2>6 DEF CommitInv
<1> QED
  BY <1>6, <1>9

(* Nothing in memory survives a crash, and nothing is consumed before the  *)
(* next join.                                                              *)
LEMMA CrashInv ==
  ASSUME WorkerInv, Crash
  PROVE  WorkerInv'
<1> USE DEF WorkerInv
<1>1. /\ queue' = <<>> /\ held' = {} /\ running' = {} /\ handler' = Idle
      /\ tracked' = {} /\ inFlight' = [p \in Partition |-> {}]
      /\ committed' = [p \in Partition |-> NoOffset]
      /\ attempt' = 1 /\ requests' = {}
      /\ UNCHANGED <<logEnd, position, groupOffset, finished, skipped>>
  BY DEF Crash, history
<1>2. CommitTypeOK'
  BY <1>1 DEF CommitTypeOK
<1>3. CommitInv'
  <2>1. LiveMessages' = {}
    BY <1>1 DEF LiveMessages
  <2>2. \A p \in Partition : SettledBelow(p, groupOffset[p])'
    BY <1>1 DEF CommitInv, SettledBelow, Settled
  <2>3. ~ Consuming'
    BY <1>1 DEF Consuming
  <2> QED
    BY <1>1, <2>1, <2>2, <2>3 DEF CommitInv
<1> QED
  BY <1>2, <1>3

(* A commit that takes effect, or fails, and a submission that is queued.  *)
LEMMA BrokerInv ==
  ASSUME WorkerInv,
         UNCHANGED <<queue, held, running, handler, tracker, position, finished, skipped>>,
         Consuming' => Consuming,
         requests' \subseteq requests,
         logEnd' \in [Partition -> 0 .. MaxOffset + 1],
         \A p \in Partition : logEnd'[p] >= logEnd[p],
         groupOffset' \in [Partition -> (0 .. MaxOffset + 1) \union {NoOffset}],
         \A p \in Partition : SettledBelow(p, groupOffset'[p])
  PROVE  WorkerInv'
<1> USE DEF WorkerInv
<1>1. CommitTypeOK'
  BY DEF CommitTypeOK, tracker
<1>2. \A p : Settled(p)' = Settled(p) /\ Accounted(p)' = Accounted(p)
  BY DEF Settled, Accounted, tracker
<1>3. LiveMessages' = LiveMessages
  BY DEF LiveMessages
<1>4. \A m \in LiveMessages : m.partition \in Partition /\ m.offset \in Offset
  <2>1. \A i \in DOMAIN queue : queue[i] \in Message
    BY DEF CommitTypeOK
  <2>2. \A m \in LiveMessages : m \in Message
    BY <2>1 DEF LiveMessages, CommitTypeOK
  <2> QED
    BY <2>2 DEF Message
<1>5. CommitInv'
  <2>1. Consuming' => \A p \in Partition : AccountedBelow(p, position[p])'
    BY <1>2 DEF CommitInv, AccountedBelow
  <2>2. \A p \in Partition : \A o \in inFlight'[p] : AccountedBelow(p, o)'
    BY <1>2 DEF CommitInv, AccountedBelow, tracker
  <2>3. \A m \in LiveMessages' : /\ m.partition \in tracked'
                                 /\ m.offset < logEnd'[m.partition]
                                 /\ AccountedBelow(m.partition, m.offset)'
    <3> TAKE m \in LiveMessages'
    <3>1. m \in LiveMessages
      BY <1>3
    <3>2. m.offset < logEnd'[m.partition]
      BY <3>1, <1>4, WorkerManagerAssumption DEF CommitInv, CommitTypeOK, Offset
    <3> QED
      BY <3>1, <3>2, <1>2 DEF CommitInv, AccountedBelow, tracker
  <2>4. handler' # Idle => handler'.offset \in Accounted(handler.partition)'
    BY <1>2 DEF CommitInv
  <2>5. \A r \in requests' : SettledBelow(r.partition, r.offset)'
    BY <1>2 DEF CommitInv, SettledBelow
  <2>6. \A p \in Partition : SettledBelow(p, groupOffset[p])'
    BY <1>2 DEF SettledBelow
  <2> QED
    BY <2>1, <2>2, <2>3, <2>4, <2>5, <2>6 DEF CommitInv
<1> QED
  BY <1>1, <1>5

LEMMA WorkerStepInv == WorkerInv /\ [Next]_vars => WorkerInv'
<1> SUFFICES ASSUME WorkerInv, [Next]_vars
             PROVE  WorkerInv'
  OBVIOUS
<1> USE DEF WorkerInv
<1>0. \A p \in Partition : SettledBelow(p, groupOffset[p])
  BY DEF CommitInv
<1>t. /\ logEnd \in [Partition -> 0 .. MaxOffset + 1]
      /\ groupOffset \in [Partition -> (0 .. MaxOffset + 1) \union {NoOffset}]
      /\ \A p \in Partition : logEnd[p] >= logEnd[p]
  BY WorkerManagerAssumption DEF CommitTypeOK
<1>1. CASE StartConsumer
  BY <1>1, JoinInv DEF StartConsumer, semaphore
<1>2. CASE StartFails
  <2>1. /\ UNCHANGED <<queue, held, running, handler, tracker, position, finished,
                       skipped, requests, logEnd, groupOffset>>
        /\ Consuming' => Consuming
    BY <1>2, WorkerManagerAssumption DEF StartFails, semaphore, history, Consuming
  <2> QED
    BY <1>0, <1>t, <2>1, BrokerInv
<1>3. ASSUME NEW p \in Partition, Publish(p)
      PROVE  WorkerInv'
  <2>1. /\ UNCHANGED <<queue, held, running, handler, tracker, position, finished,
                       skipped, requests, groupOffset>>
        /\ Consuming' => Consuming
    BY <1>3 DEF Publish, semaphore, history, manager, Consuming
  <2>2. /\ logEnd' \in [Partition -> 0 .. MaxOffset + 1]
        /\ \A q \in Partition : logEnd'[q] >= logEnd[q]
    BY <1>3, WorkerManagerAssumption DEF Publish, CommitTypeOK
  <2> QED
    BY <1>0, <1>t, <2>1, <2>2, BrokerInv
<1>4. ASSUME NEW p \in Partition, ReceiveMessage(p)
      PROVE  WorkerInv'
  BY <1>4, ReceiveInv
<1>5. ASSUME NEW h \in held, StartJob(h)
      PROVE  WorkerInv'
  <2>1. running' \subseteq held'
    BY <1>5 DEF StartJob, CommitTypeOK, semaphore
  <2> QED
    BY <1>5, <2>1, HandlerReturnsInv DEF StartJob, semaphore
<1>6. ASSUME NEW h \in held, SkipEmpty(h)
      PROVE  WorkerInv'
  <2>1. running' \subseteq held' /\ held' \subseteq held /\ queue' = queue
    BY <1>6 DEF SkipEmpty, Granted, Sem!Drop, CommitTypeOK
  <2> QED
    BY <1>6, <2>1, HandlerReturnsInv DEF SkipEmpty
<1>7. ASSUME NEW h \in running, FinishJob(h)
      PROVE  WorkerInv'
  BY <1>7, FinishJobInv
<1>8. ASSUME NEW r \in requests, CommitOffset(r)
      PROVE  WorkerInv'
  <2>1. /\ UNCHANGED <<queue, held, running, handler, tracker, position, finished,
                       skipped, logEnd>>
        /\ requests' \subseteq requests
        /\ Consuming' => Consuming
        /\ groupOffset' = [groupOffset EXCEPT ![r.partition] = r.offset]
    BY <1>8 DEF CommitOffset, semaphore, history, manager, Consuming
  <2>2. r.partition \in Partition /\ r.offset \in 1 .. MaxOffset + 1
    BY DEF CommitTypeOK, Request
  <2>3. \A p \in Partition : SettledBelow(p, groupOffset'[p])
    BY <1>0, <2>1, <2>2 DEF CommitInv, CommitTypeOK
  <2>4. groupOffset' \in [Partition -> (0 .. MaxOffset + 1) \union {NoOffset}]
    BY <1>t, <2>1, <2>2
  <2> QED
    BY <1>t, <2>1, <2>3, <2>4, BrokerInv
<1>9. ASSUME NEW r \in requests, CommitFails(r)
      PROVE  WorkerInv'
  <2>1. /\ UNCHANGED <<queue, held, running, handler, tracker, position, finished,
                       skipped, logEnd, groupOffset>>
        /\ requests' \subseteq requests
        /\ Consuming' => Consuming
    BY <1>9 DEF CommitFails, semaphore, history, manager, Consuming
  <2> QED
    BY <1>0, <1>t, <2>1, BrokerInv
<1>10. CASE Rebalance
  BY <1>10, JoinInv DEF Rebalance, semaphore, manager
<1>11. CASE Crash
  BY <1>11, CrashInv
<1>12. CASE UNCHANGED vars
  <2>1. /\ UNCHANGED <<queue, held, running, handler, tracker, position, finished,
                       skipped, requests, logEnd, groupOffset>>
        /\ Consuming' => Consuming
    BY <1>12 DEF vars, semaphore, history, manager, Consuming
  <2> QED
    BY <1>0, <1>t, <2>1, BrokerInv
<1> QED
  BY <1>1, <1>2, <1>3, <1>4, <1>5, <1>6, <1>7, <1>8, <1>9, <1>10, <1>11, <1>12
  DEF Next

LEMMA WorkerInvariance == Spec => []WorkerInv
BY WorkerInitInv, WorkerStepInv, PTL DEF Spec

(* Whatever the worker commits, and in whichever order the commits arrive, *)
(* the committed offset covers finished messages only, apart from those a  *)
(* join without a committed offset has passed over: a restart passes over  *)
(* no delivered message that is unfinished.                                *)
THEOREM WorkerCommitsSafely == Spec => []CommitCoversFinished
<1>1. WorkerInv => CommitCoversFinished
  BY DEF WorkerInv, CommitInv, SettledBelow, Settled, CommitCoversFinished
<1> QED
  BY <1>1, WorkerInvariance, PTL

(* The same of the commit requests that have not reached the broker.       *)
THEOREM WorkerRequestsSafely == Spec => []RequestsCoverFinished
<1>1. WorkerInv => RequestsCoverFinished
  BY DEF WorkerInv, CommitInv, SettledBelow, Settled, RequestsCoverFinished
<1> QED
  BY <1>1, WorkerInvariance, PTL

(* The tracker forgets no message the consumer has moved past.             *)
THEOREM WorkerAccountsForAll == Spec => []DeliveredIsAccounted
<1>1. WorkerInv => DeliveredIsAccounted
  BY DEF WorkerInv, CommitInv, AccountedBelow, Accounted, Settled,
         DeliveredIsAccounted
<1> QED
  BY <1>1, WorkerInvariance, PTL

-----------------------------------------------------------------------------
(* The variables the abstract queue sees.                                  *)
queueView == <<logEnd, finished, skipped, groupOffset>>

LEMMA QueueInit == Init => Queue!Init
BY DEF Init, Queue!Init, NoOffset, Trk!NoOffset, Queue!Nothing

(* A join is the abstract Rejoin.                                          *)
LEMMA JoinRefines ==
  ASSUME WorkerInv, Join, UNCHANGED <<logEnd, finished, groupOffset>>
  PROVE  Queue!Rejoin
<1>1. \A p \in Partition : Queue!Queued(p) = 0 .. logEnd[p] - 1
  BY WorkerManagerAssumption
  DEF WorkerInv, CommitTypeOK, Queue!Queued, Offset
<1> QED
  BY <1>1 DEF Join, Queue!Rejoin, NoOffset, Trk!NoOffset, Queue!Nothing

LEMMA QueueStep == WorkerInv /\ [Next]_vars => [Queue!Next]_(Queue!vars)
<1> SUFFICES ASSUME WorkerInv, [Next]_vars
             PROVE  Queue!Next \/ UNCHANGED queueView
  BY DEF Queue!vars, queueView
<1> USE DEF WorkerInv, queueView
<1>1. CASE StartConsumer
  BY <1>1, JoinRefines DEF StartConsumer, Queue!Next
<1>2. CASE StartFails
  BY <1>2 DEF StartFails, history
<1>3. ASSUME NEW p \in Partition, Publish(p)
      PROVE  Queue!Next
  <2>1. Queue!Enqueue(p)
    BY <1>3 DEF Publish, history, Queue!Enqueue
  <2> QED
    BY <2>1 DEF Queue!Next
<1>4. ASSUME NEW p \in Partition, ReceiveMessage(p)
      PROVE  UNCHANGED queueView
  BY <1>4 DEF ReceiveMessage, history
<1>5. ASSUME NEW h \in held, StartJob(h) \/ SkipEmpty(h)
      PROVE  UNCHANGED queueView
  BY <1>5 DEF StartJob, SkipEmpty, HandlerReturns, history
<1>6. ASSUME NEW h \in running, FinishJob(h)
      PROVE  Queue!Next
  <2> DEFINE p == h.task.partition
             o == h.task.offset
  <2>1. h.task \in LiveMessages /\ p \in Partition /\ o \in Offset
    BY DEF CommitTypeOK, LiveMessages, Message
  <2>2. o < logEnd[p]
    BY <2>1 DEF CommitInv
  <2>3. Queue!Process(p, o)
    BY <1>6, <2>1, <2>2 DEF FinishJob, Queue!Process, Queue!Queued
  <2> QED
    BY <2>1, <2>3 DEF Queue!Next
<1>7. ASSUME NEW r \in requests, CommitOffset(r)
      PROVE  Queue!Next
  <2>1. r.partition \in Partition /\ r.offset \in 1 .. MaxOffset + 1
    BY DEF CommitTypeOK, Request
  <2>2. SettledBelow(r.partition, r.offset)
    BY DEF CommitInv
  <2>3. Queue!Queued(r.partition) \cap (0 .. r.offset - 1)
            \subseteq finished[r.partition] \union skipped[r.partition]
    BY <2>1, <2>2, WorkerManagerAssumption
    DEF SettledBelow, Settled, Queue!Queued, Offset
  <2>4. Queue!Acknowledge(r.partition, r.offset)
    BY <1>7, <2>3 DEF CommitOffset, history, Queue!Acknowledge
  <2>5. r.offset - 1 \in Offset /\ r.offset = r.offset - 1 + 1
    BY <2>1, WorkerManagerAssumption DEF Offset
  <2>6. r.offset \in Queue!Acks
    BY <2>5 DEF Queue!Acks
  <2> QED
    BY <2>1, <2>4, <2>6 DEF Queue!Next
<1>8. ASSUME NEW r \in requests, CommitFails(r)
      PROVE  UNCHANGED queueView
  BY <1>8 DEF CommitFails, history
<1>9. CASE Rebalance
  BY <1>9, JoinRefines DEF Rebalance, Queue!Next
<1>10. CASE Crash
  BY <1>10 DEF Crash, history
<1>11. CASE UNCHANGED vars
  BY <1>11 DEF vars, history
<1> QED
  BY <1>1, <1>2, <1>3, <1>4, <1>5, <1>6, <1>7, <1>8, <1>9, <1>10, <1>11 DEF Next

(* The worker, with its boxes, pauses, jobs and commit requests, keeps the *)
(* promise of the abstract at-least-once queue.                            *)
THEOREM WorkerImplementsQueue == Spec => ImplementsQueue
BY QueueInit, QueueStep, WorkerInvariance, PTL
DEF Spec, ImplementsQueue, Queue!Spec

-----------------------------------------------------------------------------
(* The semaphore's lemmas, for the messages as its tasks and the single    *)
(* handler of the consumer as the only request that can be parked.         *)
SemP == INSTANCE SemaphoreProofs WITH Task <- Message, MaxWaiting <- 1

LEMMA SemHere ==
  /\ SemP!SemaphoreAssumption
  /\ SemP!SemTypeOK <=> Sem!SemTypeOK
  /\ SemP!BoxExclusive <=> Sem!BoxExclusive
<1>1. SemP!SemaphoreAssumption
  BY WorkerManagerAssumption DEF SemP!SemaphoreAssumption
<1>2. SemP!SemTypeOK <=> Sem!SemTypeOK
  BY DEF SemP!SemTypeOK, Sem!SemTypeOK, SemP!Boxes, Sem!Boxes, SemP!Holder, Sem!Holder
<1>3. SemP!BoxExclusive <=> Sem!BoxExclusive
  BY DEF SemP!BoxExclusive, Sem!BoxExclusive, SemP!FreeBoxes, Sem!FreeBoxes,
         SemP!HeldBoxes, Sem!HeldBoxes, SemP!Range, Sem!Range
<1> QED
  BY <1>1, <1>2, <1>3

LEMMA AcquireHere ==
  ASSUME SemP!SemInv, NEW m \in Message, Sem!Acquire(m)
  PROVE  SemP!SemInv' /\ SemP!KnownBoxes' = SemP!KnownBoxes
<1>1. SemP!Acquire(m)
  BY DEF Sem!Acquire, Sem!TakeBox, Sem!Park, SemP!Acquire, SemP!TakeBox, SemP!Park
<1> QED
  BY <1>1, SemHere, SemP!AcquireInv

LEMMA ReleaseHere ==
  ASSUME SemP!SemInv, NEW h \in held, Sem!Release(h)
  PROVE  SemP!SemInv' /\ SemP!KnownBoxes' = SemP!KnownBoxes
<1>1. SemP!Release(h)
  BY DEF Sem!Release, Sem!HandOver, Sem!PutBack,
         SemP!Release, SemP!HandOver, SemP!PutBack
<1> QED
  BY <1>1, SemHere, SemP!ReleaseInv

LEMMA DropHere ==
  ASSUME SemP!SemInv, NEW h \in held, Sem!Drop(h)
  PROVE  /\ SemP!SemInv'
         /\ h.box \in SemP!Boxes
         /\ h.box \in SemP!KnownBoxes
         /\ SemP!KnownBoxes' = SemP!KnownBoxes \ {h.box}
<1>1. SemP!Drop(h)
  BY DEF Sem!Drop, SemP!Drop
<1> QED
  BY <1>1, SemHere, SemP!DropInv

(* What a step does to the boxes the semaphore knows of: an empty message  *)
(* takes one away, a restart brings all of them back, and nothing else     *)
(* changes them.                                                           *)
BoxesStay == SemP!KnownBoxes' = SemP!KnownBoxes

BoxGoes(h) ==
    /\ SkipEmpty(h)
    /\ h.box \in SemP!Boxes
    /\ h.box \in SemP!KnownBoxes
    /\ SemP!KnownBoxes' = SemP!KnownBoxes \ {h.box}

BoxesComeBack == Crash /\ SemP!KnownBoxes' = SemP!Boxes

(* Every step of the worker keeps the semaphore's invariant.               *)
LEMMA SemWorkerBoxes ==
  ASSUME WorkerInv, SemP!SemInv, [Next]_vars
  PROVE  SemP!SemInv' /\ (BoxesStay \/ (\E h \in held : BoxGoes(h)) \/ BoxesComeBack)
<1> DEFINE Goal == SemP!SemInv' /\ (BoxesStay \/ (\E h \in held : BoxGoes(h)) \/ BoxesComeBack)
<1>1. CASE UNCHANGED semaphore
  <2>1. SemP!SemInv'
    BY <1>1 DEF semaphore, SemP!SemInv, SemP!SemTypeOK, SemP!BoxExclusive,
                SemP!PermitsMatchBoxes, SemP!NoIdlePermit, SemP!FreeBoxes, SemP!HeldBoxes
  <2>2. BoxesStay
    BY <1>1 DEF semaphore, BoxesStay, SemP!KnownBoxes, SemP!FreeBoxes, SemP!HeldBoxes
  <2> QED
    BY <2>1, <2>2
<1>2. ASSUME NEW p \in Partition, ReceiveMessage(p)
      PROVE  Goal
  <2> DEFINE m == [partition |-> p, offset |-> position[p]]
  <2>1. Sem!Acquire(m)
    BY <1>2 DEF ReceiveMessage, AcquireOrPause
  <2>2. m \in Message
    BY <1>2, WorkerManagerAssumption
    DEF ReceiveMessage, WorkerInv, CommitTypeOK, Message, Offset
  <2> QED
    BY <2>1, <2>2, AcquireHere DEF BoxesStay
<1>3. ASSUME NEW h \in held, SkipEmpty(h)
      PROVE  Goal
  <2>1. Sem!Drop(h)
    BY <1>3 DEF SkipEmpty
  <2> QED
    BY <1>3, <2>1, DropHere DEF BoxGoes
<1>4. ASSUME NEW h \in running, FinishJob(h)
      PROVE  Goal
  <2>1. h \in held /\ Sem!Release(h)
    BY <1>4 DEF FinishJob, WorkerInv, CommitTypeOK
  <2> QED
    BY <2>1, ReleaseHere DEF BoxesStay
<1>5. CASE Crash
  <2>1. SemP!SemInit'
    BY <1>5 DEF Crash, SemP!SemInit
  <2>2. SemP!SemInv' /\ SemP!BoxesConserved'
    BY <2>1, SemHere, SemP!SemRestartInv
  <2>3. SemP!KnownBoxes' = SemP!Boxes
    BY <2>2 DEF SemP!BoxesConserved, SemP!KnownBoxes, SemP!Boxes
  <2> QED
    BY <1>5, <2>2, <2>3 DEF BoxesComeBack
<1>6. ASSUME NEW p \in Partition, Publish(p)
      PROVE  UNCHANGED semaphore
  BY <1>6 DEF Publish
<1>7. ASSUME NEW h \in held, StartJob(h)
      PROVE  UNCHANGED semaphore
  BY <1>7 DEF StartJob
<1>8. ASSUME NEW r \in requests, CommitOffset(r) \/ CommitFails(r)
      PROVE  UNCHANGED semaphore
  BY <1>8 DEF CommitOffset, CommitFails
<1>9. CASE StartConsumer \/ StartFails \/ Rebalance \/ UNCHANGED vars
  BY <1>1, <1>9 DEF StartConsumer, StartFails, Rebalance, vars
<1> QED
  BY <1>1, <1>2, <1>3, <1>4, <1>5, <1>6, <1>7, <1>8, <1>9 DEF Next

LEMMA SemWorkerStep ==
  WorkerInv /\ SemP!SemInv /\ [Next]_vars => SemP!SemInv'
BY SemWorkerBoxes

(* No two jobs judge in the same isolate box, and a box in use is not in   *)
(* the free list, through hand-overs, empty messages, rebalances and       *)
(* restarts.                                                               *)
THEOREM WorkerBoxesExclusive == Spec => []JobsHaveOwnBox
<1>1. Init => SemP!SemInv
  <2>1. Init => SemP!SemInit
    BY DEF Init, Sem!SemInit, SemP!SemInit
  <2> QED
    BY <2>1, SemHere, SemP!SemInitInv
<1>2. SemP!SemInv => JobsHaveOwnBox
  BY SemHere DEF SemP!SemInv, JobsHaveOwnBox
<1> QED
  BY <1>1, <1>2, SemWorkerStep, WorkerInvariance, PTL DEF Spec

-----------------------------------------------------------------------------
(* What WorkerInv and the semaphore's invariant leave out of TypeOK.       *)
RestTypeOK ==
    /\ isPaused \in BOOLEAN
    /\ attempt \in 0 .. MaxRetries
    /\ paused \subseteq Partition
    /\ crashes \in 0 .. MaxCrashes
    /\ rebalances \in 0 .. MaxRebalances

(* The consumer has one handler at a time, so at most one request is       *)
(* parked, or answered and not yet a job, and it is the handler's.         *)
HandlerInv ==
    /\ queue # <<>> => queue = <<handler>> /\ held \subseteq running
    /\ \A h, k \in held \ running : h = k
    /\ \A h \in held \ running : h.task = handler
    /\ handler = Idle => queue = <<>> /\ held \subseteq running

(* The flag is set with the whole topic and cleared by the first resume.   *)
PauseInv ==
    /\ isPaused => paused = Partition
    /\ queue # <<>> => isPaused

(* Without a rejoin the consumer never goes back: its position is above    *)
(* the messages of all jobs and on the one the handler has.                *)
OnceInv ==
    /\ ~ Consuming => held = {} /\ handler = Idle
    /\ handler # Idle => handler.offset = position[handler.partition]
    /\ rebalances = 0 =>
           /\ \A h \in running : h.task.offset < position[h.task.partition]
           /\ \A h, k \in running : h.task = k.task => h = k

ScheduleInv == RestTypeOK /\ HandlerInv /\ PauseInv /\ OnceInv

(* The messages of jobs are messages, and the handler's is not Idle.       *)
LEMMA HandlerIsMessage ==
  ASSUME WorkerInv
  PROVE  /\ \A m \in Message : m # Idle /\ m.partition \in Partition /\ m.offset \in Offset
         /\ handler # Idle => handler \in Message
         /\ \A h \in held : h.task \in Message
         /\ \A p \in Partition : position[p] \in 0 .. MaxOffset + 1
BY WorkerManagerAssumption
DEF WorkerInv, CommitTypeOK, Message, Idle, NoOffset, Trk!NoOffset, Offset

(* What is in flight is with the handler or with a job, unless the message *)
(* is empty: complete() takes out what a job ends, and only that.          *)
FlightHandled ==
    \A p \in Partition : \A o \in inFlight[p] :
        LET m == [partition |-> p, offset |-> o] IN m \in Empty \/ Handled(m)

LEMMA FlightHandledStep ==
  ASSUME WorkerInv, FlightHandled, [Next]_vars
  PROVE  FlightHandled'
<1> USE DEF WorkerInv, CommitTypeOK, FlightHandled, Handled
<1>1. CASE UNCHANGED <<inFlight, handler, running>>
  BY <1>1
<1>2. ASSUME NEW p \in Partition, ReceiveMessage(p)
      PROVE  FlightHandled'
  <2>1. /\ handler = Idle /\ handler' = [partition |-> p, offset |-> position[p]]
        /\ inFlight' = [inFlight EXCEPT ![p] = @ \union {position[p]}]
        /\ UNCHANGED running
    BY <1>2 DEF ReceiveMessage, Trk!Track
  <2>2. \A q \in Partition : \A o \in inFlight[q] : [partition |-> q, offset |-> o] # Idle
    BY HandlerIsMessage DEF Message
  <2> SUFFICES ASSUME NEW q \in Partition, NEW o \in inFlight'[q]
               PROVE  LET m == [partition |-> q, offset |-> o] IN m \in Empty \/ Handled(m)'
    OBVIOUS
  <2>3. CASE o \in inFlight[q]
    BY <2>1, <2>2, <2>3
  <2>4. CASE q = p /\ o = position[p]
    BY <2>1, <2>4
  <2> QED
    BY <2>1, <2>3, <2>4
<1>3. ASSUME NEW h \in held, StartJob(h)
      PROVE  FlightHandled'
  <2>1. /\ h.task = handler /\ running' = running \union {h} /\ UNCHANGED inFlight
    BY <1>3 DEF StartJob, Granted, HandlerReturns, tracker
  <2> QED
    BY <2>1
<1>4. ASSUME NEW h \in held, SkipEmpty(h)
      PROVE  FlightHandled'
  <2>1. handler \in Empty /\ UNCHANGED <<inFlight, running>>
    BY <1>4 DEF SkipEmpty, HandlerReturns, tracker
  <2> QED
    BY <2>1
<1>5. ASSUME NEW h \in running, FinishJob(h)
      PROVE  FlightHandled'
  <2>1. /\ h.task \in Message /\ running' = running \ {h} /\ UNCHANGED handler
        /\ inFlight' = [inFlight EXCEPT ![h.task.partition] = @ \ {h.task.offset}]
    BY <1>5 DEF FinishJob, CompleteAndCommit, Trk!Complete
  <2> SUFFICES ASSUME NEW q \in Partition, NEW o \in inFlight'[q]
               PROVE  LET m == [partition |-> q, offset |-> o] IN m \in Empty \/ Handled(m)'
    OBVIOUS
  <2>2. o \in inFlight[q] /\ [partition |-> q, offset |-> o] # h.task
    BY <2>1 DEF Message
  <2> QED
    BY <2>1, <2>2
<1>6. CASE Crash
  BY <1>6 DEF Crash
<1>7. \/ UNCHANGED <<inFlight, handler, running>>
      \/ \E p \in Partition : ReceiveMessage(p)
      \/ \E h \in held : StartJob(h) \/ SkipEmpty(h)
      \/ \E h \in running : FinishJob(h)
      \/ Crash
  BY DEF Next, vars, StartConsumer, StartFails, Publish, CommitOffset, CommitFails, Rebalance,
         tracker, manager
<1> QED
  BY <1>1, <1>2, <1>3, <1>4, <1>5, <1>6, <1>7

LEMMA FlightHandledInvariance == Spec => []FlightHandled
<1>1. Init => FlightHandled
  BY DEF Init, Trk!TrackerInit, FlightHandled
<1>2. Spec => []WorkerInv
  BY WorkerInvariance
<1> QED
  BY <1>1, <1>2, FlightHandledStep, PTL DEF Spec

(* Nothing is consumed, finished or passed over that is not in the log.    *)
WithinInv ==
    /\ \A p \in Partition : position[p] <= logEnd[p]
    /\ \A p \in Partition : \A o \in Settled(p) : o < logEnd[p]

LEMMA SettledWithin ==
  ASSUME CommitTypeOK, WithinInv, NEW p \in Partition,
         NEW n \in (0 .. MaxOffset + 1) \union {NoOffset}, SettledBelow(p, n)
  PROVE  n <= logEnd[p]
<1>1. logEnd[p] \in 0 .. MaxOffset + 1
  BY DEF CommitTypeOK
<1>2. ASSUME logEnd[p] < n
      PROVE  FALSE
  <2>1. logEnd[p] \in Offset
    BY <1>1, <1>2, WorkerManagerAssumption DEF Offset, NoOffset, Trk!NoOffset
  <2>2. logEnd[p] < logEnd[p]
    BY <1>2, <2>1 DEF SettledBelow, WithinInv
  <2> QED
    BY <1>1, <2>2, WorkerManagerAssumption
<1> QED
  BY <1>1, <1>2, WorkerManagerAssumption DEF NoOffset, Trk!NoOffset

LEMMA WithinStep ==
  ASSUME WorkerInv, WithinInv, [Next]_vars
  PROVE  WithinInv'
<1> USE DEF WorkerInv, CommitTypeOK
<1>0. \A p \in Partition : /\ logEnd[p] \in Nat /\ position[p] \in Nat
                           /\ \A o \in Settled(p) : o \in Nat
  BY WorkerManagerAssumption DEF Settled, Offset
<1>1. CASE UNCHANGED <<position, logEnd, finished, skipped>>
  BY <1>1 DEF WithinInv, Settled
<1>2. ASSUME NEW p \in Partition, Publish(p)
      PROVE  WithinInv'
  <2>1. /\ UNCHANGED <<position, finished, skipped>>
        /\ logEnd' = [logEnd EXCEPT ![p] = @ + 1]
    BY <1>2 DEF Publish, history
  <2> QED
    BY <1>0, <2>1 DEF WithinInv, Settled
<1>3. CASE Join /\ UNCHANGED <<logEnd, finished>>
  <2>1. ASSUME NEW p \in Partition
        PROVE  position'[p] <= logEnd'[p]
    <3>1. SettledBelow(p, groupOffset[p])
      BY DEF CommitInv
    <3>2. groupOffset[p] <= logEnd[p]
      BY <3>1, SettledWithin
    <3> QED
      BY <1>0, <1>3, <3>2 DEF Join
  <2>2. ASSUME NEW p \in Partition, NEW o \in Settled(p)'
        PROVE  o < logEnd'[p]
    <3>1. o \in Settled(p) \/ o \in 0 .. logEnd[p] - 1
      BY <1>3 DEF Join, Settled
    <3> QED
      BY <1>0, <1>3, <3>1 DEF WithinInv
  <2> QED
    BY <2>1, <2>2 DEF WithinInv
<1>4. ASSUME NEW h \in held, Granted(h), HandlerReturns
      PROVE  WithinInv'
  <2>1. /\ h.task \in Message /\ h.task.offset < logEnd[h.task.partition]
        /\ position' = [position EXCEPT ![h.task.partition] = h.task.offset + 1]
        /\ UNCHANGED <<logEnd, finished, skipped>>
    BY <1>4 DEF Granted, HandlerReturns, history, CommitInv, LiveMessages
  <2>2. h.task.partition \in Partition /\ h.task.offset \in Nat
    BY <2>1, WorkerManagerAssumption DEF Message, Offset
  <2> QED
    BY <1>0, <2>1, <2>2 DEF WithinInv, Settled
<1>5. ASSUME NEW h \in running, FinishJob(h)
      PROVE  WithinInv'
  <2>1. /\ h.task \in Message /\ h.task.offset < logEnd[h.task.partition]
        /\ finished' = [finished EXCEPT ![h.task.partition] = @ \union {h.task.offset}]
        /\ UNCHANGED <<position, logEnd, skipped>>
    BY <1>5 DEF FinishJob, CommitInv, LiveMessages
  <2> QED
    BY <1>0, <2>1 DEF WithinInv, Settled
<1>6. \/ UNCHANGED <<position, logEnd, finished, skipped>>
      \/ \E p \in Partition : Publish(p)
      \/ Join /\ UNCHANGED <<logEnd, finished>>
      \/ \E h \in held : Granted(h) /\ HandlerReturns
      \/ \E h \in running : FinishJob(h)
  BY DEF Next, vars, StartConsumer, StartFails, ReceiveMessage, StartJob, SkipEmpty,
         CommitOffset, CommitFails, Rebalance, Crash, history
<1> QED
  BY <1>1, <1>2, <1>3, <1>4, <1>5, <1>6

(* The group never goes past the end of its log: what the tracker calls    *)
(* safe has been delivered, so no commit, however late, and no join sends  *)
(* the consumer to an offset that will be given to a later submission.     *)
THEOREM WorkerCommitsWithinLog ==
  Spec => [](/\ \A p \in Partition : position[p] <= logEnd[p] /\ groupOffset[p] <= logEnd[p]
             /\ \A r \in requests : r.offset <= logEnd[r.partition])
<1>1. Init => WithinInv
  BY DEF Init, WithinInv, Settled
<1>2. WorkerInv /\ WithinInv =>
        /\ \A p \in Partition : position[p] <= logEnd[p] /\ groupOffset[p] <= logEnd[p]
        /\ \A r \in requests : r.offset <= logEnd[r.partition]
  <2> SUFFICES ASSUME WorkerInv, WithinInv
               PROVE  /\ \A p \in Partition : groupOffset[p] <= logEnd[p]
                      /\ \A r \in requests : r.offset <= logEnd[r.partition]
    BY DEF WithinInv
  <2>1. ASSUME NEW p \in Partition
        PROVE  groupOffset[p] <= logEnd[p]
    BY SettledWithin DEF WorkerInv, CommitTypeOK, CommitInv
  <2>2. ASSUME NEW r \in requests
        PROVE  r.offset <= logEnd[r.partition]
    <3>1. r.partition \in Partition /\ r.offset \in 0 .. MaxOffset + 1
      BY WorkerManagerAssumption DEF WorkerInv, CommitTypeOK, Request
    <3> QED
      BY <3>1, SettledWithin DEF WorkerInv, CommitInv
  <2> QED
    BY <2>1, <2>2
<1> QED
  BY <1>1, <1>2, WithinStep, WorkerInvariance, PTL DEF Spec

LEMMA ScheduleInit == Init => ScheduleInv
<1> SUFFICES ASSUME Init
             PROVE  ScheduleInv
  OBVIOUS
<1> USE DEF Init, Sem!SemInit
<1>1. RestTypeOK
  <2>1. isPaused = FALSE /\ attempt = 1 /\ paused = {} /\ crashes = 0 /\ rebalances = 0
    OBVIOUS
  <2>2. isPaused \in BOOLEAN /\ paused \subseteq Partition
    BY <2>1, Zenon
  <2>3. attempt \in 0 .. MaxRetries /\ crashes \in 0 .. MaxCrashes
        /\ rebalances \in 0 .. MaxRebalances
    BY ONLY <2>1, WorkerManagerAssumption
  <2> QED
    BY <2>2, <2>3 DEF RestTypeOK
<1>2. HandlerInv /\ PauseInv /\ OnceInv
  BY DEF HandlerInv, PauseInv, OnceInv
<1> QED
  BY <1>1, <1>2 DEF ScheduleInv

(* The bounded counters, the flag and the paused partitions.               *)
LEMMA RestTypeStep ==
  ASSUME WorkerInv, RestTypeOK, [Next]_vars
  PROVE  RestTypeOK'
<1> USE WorkerManagerAssumption DEF RestTypeOK
<1>1. CASE StartConsumer \/ StartFails
  BY <1>1 DEF StartConsumer, StartFails, bounds
<1>2. ASSUME NEW p \in Partition, Publish(p) \/ ReceiveMessage(p)
      PROVE  RestTypeOK'
  BY <1>2 DEF Publish, ReceiveMessage, AcquireOrPause, manager, bounds
<1>3. ASSUME NEW h \in held, StartJob(h) \/ SkipEmpty(h)
      PROVE  RestTypeOK'
  BY <1>3 DEF StartJob, SkipEmpty, HandlerReturns, bounds
<1>4. ASSUME NEW h \in running, FinishJob(h)
      PROVE  RestTypeOK'
  BY <1>4 DEF FinishJob, ResumePartition, bounds
<1>5. ASSUME NEW r \in requests, CommitOffset(r) \/ CommitFails(r)
      PROVE  RestTypeOK'
  BY <1>5 DEF CommitOffset, CommitFails, manager, bounds
<1>6. CASE Rebalance
  BY <1>6 DEF Rebalance, manager
<1>7. CASE Crash
  <2>1. /\ isPaused' = FALSE /\ attempt' = 1 /\ paused' = {}
        /\ crashes < MaxCrashes /\ crashes' = crashes + 1
        /\ rebalances' = rebalances
    BY <1>7 DEF Crash
  <2>2. (isPaused \in BOOLEAN)' /\ (paused \subseteq Partition)'
    BY <2>1, Zenon
  <2>3. attempt' \in 0 .. MaxRetries /\ crashes' \in 0 .. MaxCrashes
        /\ rebalances' \in 0 .. MaxRebalances
    BY ONLY <2>1, RestTypeOK, WorkerManagerAssumption
  <2> QED
    BY <2>2, <2>3
<1>8. CASE UNCHANGED vars
  BY <1>8 DEF vars, manager, bounds
<1> QED
  BY <1>1, <1>2, <1>3, <1>4, <1>5, <1>6, <1>7, <1>8 DEF Next

(* A step that leaves the jobs, the handler, the flag and the pauses: a    *)
(* join may move the position when there is no handler.                    *)
LEMMA ScheduleQuiet ==
  ASSUME HandlerInv, PauseInv, OnceInv,
         UNCHANGED <<queue, held, running, handler, isPaused, paused>>,
         Consuming => Consuming',
         \/ UNCHANGED <<position, rebalances>>
         \/ handler = Idle /\ (rebalances' = 0 => running = {})
  PROVE  HandlerInv' /\ PauseInv' /\ OnceInv'
<1>1. HandlerInv' /\ PauseInv'
  BY DEF HandlerInv, PauseInv
<1>2. OnceInv'
  BY DEF OnceInv
<1> QED
  BY <1>1, <1>2

(* A delivery: the handler takes a box, or is parked behind nobody.        *)
LEMMA ScheduleReceive ==
  ASSUME WorkerInv, HandlerInv, PauseInv, OnceInv,
         NEW p \in Partition, ReceiveMessage(p)
  PROVE  HandlerInv' /\ PauseInv' /\ OnceInv'
<1> DEFINE m == [partition |-> p, offset |-> position[p]]
<1>1. /\ Consuming /\ Consuming'
      /\ handler = Idle /\ handler' = m
      /\ p \notin paused
      /\ IF ~isPaused /\ count = 0
         THEN isPaused' = TRUE /\ paused' = Partition
         ELSE UNCHANGED <<isPaused, paused>>
      /\ Sem!Acquire(m)
      /\ UNCHANGED <<running, position, rebalances>>
  BY DEF ReceiveMessage, AcquireOrPause, Consuming, bounds
<1>2. m.partition = p /\ m.offset = position[p] /\ m \in Message /\ m # Idle
  <2>1. position[p] \in Offset
    BY WorkerManagerAssumption DEF ReceiveMessage, WorkerInv, CommitTypeOK, Offset
  <2>2. m \in Message
    BY <2>1 DEF Message
  <2> QED
    BY <2>2, HandlerIsMessage
<1> HIDE DEF m
<1>3. ~ isPaused
  BY <1>1 DEF PauseInv
<1>4. queue = <<>> /\ held \subseteq running
  BY <1>1 DEF HandlerInv
<1>5. CASE Sem!TakeBox(m)
  <2> DEFINE new == [task |-> m, box |-> Head(availableBoxes)]
  <2>1. held' = held \union {new} /\ queue' = queue /\ new.task = m
    BY <1>5 DEF Sem!TakeBox
  <2> HIDE DEF new
  <2>2. HandlerInv'
    BY <1>1, <1>2, <1>4, <2>1 DEF HandlerInv
  <2>3. PauseInv'
    BY <1>1, <1>3, <1>4, <2>1 DEF PauseInv
  <2>4. OnceInv'
    BY <1>1, <1>2 DEF OnceInv
  <2> QED
    BY <2>2, <2>3, <2>4
<1>6. CASE Sem!Park(m)
  <2>1. count = 0 /\ queue' = <<m>> /\ held' = held
    BY <1>4, <1>6 DEF Sem!Park
  <2>2. HandlerInv'
    BY <1>1, <1>2, <1>4, <2>1 DEF HandlerInv
  <2>3. PauseInv'
    BY <1>1, <1>3, <2>1 DEF PauseInv
  <2>4. OnceInv'
    BY <1>1, <1>2 DEF OnceInv
  <2> QED
    BY <2>2, <2>3, <2>4
<1> QED
  BY <1>1, <1>5, <1>6 DEF Sem!Acquire

(* The handler returns, with its request a job or forgotten.               *)
LEMMA ScheduleReturns ==
  ASSUME WorkerInv, HandlerInv, PauseInv, OnceInv,
         NEW h \in held, Granted(h), HandlerReturns, queue' = queue,
         \/ running' = running \union {h} /\ held' = held
         \/ running' = running /\ held' = held \ {h}
  PROVE  HandlerInv' /\ PauseInv' /\ OnceInv'
<1>1. /\ h \in held \ running /\ h.task = handler
      /\ handler' = Idle
      /\ position' = [position EXCEPT ![handler.partition] = handler.offset + 1]
      /\ UNCHANGED <<isPaused, paused, rebalances>>
      /\ Consuming' = Consuming
  BY DEF Granted, HandlerReturns, Consuming, bounds
<1>2. queue = <<>>
  BY <1>1 DEF HandlerInv
<1>3. held' \subseteq running'
  BY <1>1 DEF HandlerInv
<1>4. HandlerInv' /\ PauseInv'
  BY <1>1, <1>2, <1>3 DEF HandlerInv, PauseInv
<1>5. /\ handler \in Message /\ handler # Idle
      /\ handler.partition \in Partition
      /\ handler.offset \in Offset
      /\ handler.offset = position[handler.partition]
      /\ Consuming
  BY <1>1, HandlerIsMessage DEF OnceInv
<1>6. \A p \in Partition : /\ position[p] \in Int /\ position'[p] \in Int
                           /\ position'[p] >= position[p]
                           /\ p = handler.partition => position'[p] = position[p] + 1
  BY <1>1, <1>5, WorkerManagerAssumption DEF WorkerInv, CommitTypeOK, Offset
<1>7. \A k \in running : k.task \in Message /\ k.task.partition \in Partition
                         /\ k.task.offset \in Int
  BY HandlerIsMessage, WorkerManagerAssumption
  DEF WorkerInv, CommitTypeOK, Offset
<1>8. OnceInv'
  <2>1. ASSUME rebalances = 0
        PROVE  \A k \in running' : k.task.offset < position'[k.task.partition]
    <3> TAKE k \in running'
    <3>1. CASE k \in running
      BY <2>1, <3>1, <1>6, <1>7 DEF OnceInv
    <3>2. CASE k = h
      BY <3>2, <1>1, <1>5, <1>6
    <3> QED
      BY <3>1, <3>2
  <2>2. ASSUME rebalances = 0
        PROVE  \A k \in running : k.task # handler
    BY <2>2, <1>5, <1>6, <1>7 DEF OnceInv
  <2>3. rebalances = 0 => \A k, l \in running' : k.task = l.task => k = l
    BY <1>1, <2>2 DEF OnceInv
  <2> QED
    BY <1>1, <1>5, <2>1, <2>3 DEF OnceInv
<1> QED
  BY <1>4, <1>8

(* A job ends: its box goes back, or to the parked handler, and the flag   *)
(* is cleared.                                                             *)
LEMMA ScheduleFinish ==
  ASSUME WorkerInv, SemP!SemInv, HandlerInv, PauseInv, OnceInv,
         NEW h \in running, FinishJob(h)
  PROVE  HandlerInv' /\ PauseInv' /\ OnceInv'
<1>1. /\ running' = running \ {h}
      /\ Sem!Release(h)
      /\ isPaused' = FALSE
      /\ UNCHANGED <<handler, position, rebalances>>
      /\ Consuming' = Consuming
      /\ h \in held
  BY DEF FinishJob, ResumePartition, Consuming, bounds, WorkerInv, CommitTypeOK
<1>2. Consuming
  BY <1>1 DEF OnceInv
<1>3. OnceInv'
  BY <1>1, <1>2 DEF OnceInv
<1>4. CASE Sem!HandOver(h)
  <2> DEFINE new == [task |-> Head(queue), box |-> h.box]
  <2>1. /\ queue # <<>>
        /\ held' = (held \ {h}) \union {new}
        /\ queue' = Tail(queue)
    BY <1>4 DEF Sem!HandOver
  <2>2. queue = <<handler>> /\ held \subseteq running
    BY <2>1 DEF HandlerInv
  <2>3. queue' = <<>> /\ new.task = handler
    BY <2>1, <2>2
  <2> HIDE DEF new
  <2>4. handler # Idle
    BY <2>1 DEF HandlerInv
  <2>5. HandlerInv'
    BY <1>1, <2>1, <2>2, <2>3, <2>4 DEF HandlerInv
  <2> QED
    BY <1>1, <1>3, <2>3, <2>5 DEF PauseInv
<1>5. CASE Sem!PutBack(h)
  <2>1. queue = <<>> /\ queue' = queue /\ held' = held \ {h}
    BY <1>5 DEF Sem!PutBack
  <2>2. HandlerInv'
    BY <1>1, <2>1 DEF HandlerInv
  <2> QED
    BY <1>1, <1>3, <2>1, <2>2 DEF PauseInv
<1> QED
  BY <1>1, <1>4, <1>5 DEF Sem!Release

LEMMA ScheduleStep ==
  WorkerInv /\ SemP!SemInv /\ ScheduleInv /\ [Next]_vars => ScheduleInv'
<1> SUFFICES ASSUME WorkerInv, SemP!SemInv, ScheduleInv, [Next]_vars
             PROVE  ScheduleInv'
  OBVIOUS
<1> DEFINE Kept == HandlerInv' /\ PauseInv' /\ OnceInv'
<1>a. HandlerInv /\ PauseInv /\ OnceInv /\ RestTypeOK
  BY DEF ScheduleInv
<1>1. RestTypeOK'
  BY <1>a, RestTypeStep
<1>2. CASE StartConsumer
  <2>1. running = {} /\ handler = Idle /\ Consuming'
    BY <1>2, <1>a DEF StartConsumer, Consuming, OnceInv, WorkerInv, CommitTypeOK
  <2>2. UNCHANGED <<queue, held, running, handler, isPaused, paused>>
    BY <1>2 DEF StartConsumer, semaphore
  <2> QED
    BY <1>a, <2>1, <2>2, ScheduleQuiet, <1>1 DEF ScheduleInv
<1>3. CASE StartFails
  <2>1. ~ Consuming /\ UNCHANGED <<queue, held, running, handler, isPaused, paused,
                                   position, rebalances>>
    BY <1>3, WorkerManagerAssumption DEF StartFails, Consuming, semaphore, bounds
  <2> QED
    BY <1>a, <2>1, ScheduleQuiet, <1>1 DEF ScheduleInv
<1>4. ASSUME NEW p \in Partition, Publish(p)
      PROVE  ScheduleInv'
  <2>1. UNCHANGED <<queue, held, running, handler, isPaused, paused, attempt,
                    position, rebalances>>
    BY <1>4 DEF Publish, semaphore, manager, bounds
  <2> QED
    BY <1>a, <2>1, ScheduleQuiet, <1>1 DEF ScheduleInv, Consuming
<1>5. ASSUME NEW p \in Partition, ReceiveMessage(p)
      PROVE  ScheduleInv'
  BY <1>a, <1>5, <1>1, ScheduleReceive DEF ScheduleInv
<1>6. ASSUME NEW h \in held, StartJob(h)
      PROVE  ScheduleInv'
  <2>1. /\ Granted(h) /\ HandlerReturns /\ queue' = queue
        /\ running' = running \union {h} /\ held' = held
    BY <1>6 DEF StartJob, semaphore
  <2> QED
    BY <1>a, <2>1, <1>1, ScheduleReturns DEF ScheduleInv
<1>7. ASSUME NEW h \in held, SkipEmpty(h)
      PROVE  ScheduleInv'
  <2>1. /\ Granted(h) /\ HandlerReturns /\ queue' = queue
        /\ running' = running /\ held' = held \ {h}
    BY <1>7 DEF SkipEmpty, Sem!Drop
  <2> QED
    BY <1>a, <2>1, <1>1, ScheduleReturns DEF ScheduleInv
<1>8. ASSUME NEW h \in running, FinishJob(h)
      PROVE  ScheduleInv'
  BY <1>a, <1>8, <1>1, ScheduleFinish DEF ScheduleInv
<1>9. ASSUME NEW r \in requests, CommitOffset(r) \/ CommitFails(r)
      PROVE  ScheduleInv'
  <2>1. UNCHANGED <<queue, held, running, handler, isPaused, paused, attempt,
                    position, rebalances>>
    BY <1>9 DEF CommitOffset, CommitFails, semaphore, manager, bounds
  <2> QED
    BY <1>a, <2>1, ScheduleQuiet, <1>1 DEF ScheduleInv, Consuming
<1>10. CASE Rebalance
  <2>1. /\ UNCHANGED <<queue, held, running, handler, isPaused, paused, attempt>>
        /\ handler = Idle /\ rebalances' # 0
    BY <1>10, <1>a, WorkerManagerAssumption
    DEF Rebalance, semaphore, manager, RestTypeOK
  <2> QED
    BY <1>a, <2>1, ScheduleQuiet, <1>1 DEF ScheduleInv, Consuming
<1>11. CASE Crash
  <2>1. HandlerInv' /\ PauseInv' /\ OnceInv'
    BY <1>11 DEF Crash, HandlerInv, PauseInv, OnceInv
  <2> QED
    BY <1>1, <2>1 DEF ScheduleInv
<1>12. CASE UNCHANGED vars
  <2>1. UNCHANGED <<queue, held, running, handler, isPaused, paused, attempt,
                    position, rebalances>>
    BY <1>12 DEF vars, semaphore, manager, bounds
  <2> QED
    BY <1>a, <2>1, ScheduleQuiet, <1>1 DEF ScheduleInv, Consuming
<1> QED
  BY <1>2, <1>3, <1>4, <1>5, <1>6, <1>7, <1>8, <1>9, <1>10, <1>11, <1>12 DEF Next

LEMMA ScheduleInvariance == Spec => [](WorkerInv /\ SemP!SemInv /\ ScheduleInv)
<1>1. Init => SemP!SemInv
  <2>1. Init => SemP!SemInit
    BY DEF Init, Sem!SemInit, SemP!SemInit
  <2> QED
    BY <2>1, SemHere, SemP!SemInitInv
<1> QED
  BY <1>1, WorkerInvariance, SemWorkerStep, ScheduleInit, ScheduleStep, PTL DEF Spec

(* Every variable of the worker has its type: the permit count never       *)
(* leaves its range, and no offset passes the end of the log.              *)
THEOREM WorkerTypeCorrect == Spec => []TypeOK
<1>1. WorkerInv /\ SemP!SemInv /\ ScheduleInv => TypeOK
  BY SemHere
  DEF WorkerInv, CommitTypeOK, SemP!SemInv, ScheduleInv, RestTypeOK, TypeOK
<1> QED
  BY <1>1, ScheduleInvariance, PTL

(* Backpressure: while a message waits for a box, the flag is set and no   *)
(* partition is fetched, whichever job ends and however the group moves.   *)
THEOREM WorkerParksPaused == Spec => []ParkedMeansPaused
<1>1. ScheduleInv => ParkedMeansPaused
  BY DEF ScheduleInv, PauseInv, ParkedMeansPaused
<1> QED
  BY <1>1, ScheduleInvariance, PTL

(* Until the group makes the consumer rejoin, no message is judged twice   *)
(* at once, also after a crash.                                            *)
THEOREM WorkerJudgesOnce == Spec => []OneJobPerMessage
<1>1. ASSUME WorkerInv, ScheduleInv, rebalances = 0, NEW h \in held, NEW k \in held,
             h.task = k.task
      PROVE  h = k
  <2>1. HandlerInv /\ OnceInv
    BY <1>1 DEF ScheduleInv
  <2>2. CASE h \in running /\ k \in running
    BY <1>1, <2>1, <2>2 DEF OnceInv
  <2>3. CASE h \notin running /\ k \notin running
    BY <2>1, <2>3 DEF HandlerInv
  <2>4. ASSUME NEW a \in held, NEW b \in held, a \in running, b \notin running
        PROVE  a.task # b.task
    <3>1. b.task = handler /\ handler # Idle
      BY <2>1, <2>4 DEF HandlerInv
    <3>2. handler.offset = position[handler.partition] /\ handler.offset \in Int
      BY <2>1, <3>1, <1>1, HandlerIsMessage, WorkerManagerAssumption DEF OnceInv, Offset
    <3>3. a.task.offset < position[a.task.partition]
      BY <1>1, <2>1, <2>4 DEF OnceInv
    <3> QED
      BY <3>1, <3>2, <3>3
  <2> QED
    BY <1>1, <2>2, <2>3, <2>4
<1>2. WorkerInv /\ ScheduleInv => OneJobPerMessage
  BY <1>1 DEF OneJobPerMessage
<1> QED
  BY <1>2, ScheduleInvariance, PTL

-----------------------------------------------------------------------------
(* A pause begins when a handler is parked and does not outlast its wait:  *)
(* the job that hands it a box also clears the flag.                       *)
PausedMeansParked == isPaused => queue # <<>>

LEMMA PauseStep ==
  ASSUME WorkerInv, SemP!SemInv, ScheduleInv, PausedMeansParked, [Next]_vars
  PROVE  PausedMeansParked'
<1>1. CASE UNCHANGED <<isPaused, queue>>
  BY <1>1 DEF PausedMeansParked
<1>2. ASSUME NEW p \in Partition, ReceiveMessage(p)
      PROVE  PausedMeansParked'
  <2> DEFINE m == [partition |-> p, offset |-> position[p]]
  <2>1. /\ handler = Idle /\ Sem!Acquire(m)
        /\ isPaused' => isPaused \/ count = 0
    BY <1>2 DEF ReceiveMessage, AcquireOrPause
  <2>2. queue = <<>>
    BY <2>1 DEF ScheduleInv, HandlerInv
  <2>3. isPaused' => count = 0
    BY <2>1, <2>2 DEF PausedMeansParked
  <2>4. Sem!Park(m) => queue' # <<>>
    BY <2>2 DEF Sem!Park
  <2> QED
    BY <2>1, <2>3, <2>4 DEF PausedMeansParked, Sem!Acquire, Sem!TakeBox
<1>3. ASSUME NEW h \in held, StartJob(h) \/ SkipEmpty(h)
      PROVE  UNCHANGED <<isPaused, queue>>
  BY <1>3 DEF StartJob, SkipEmpty, HandlerReturns, Sem!Drop, semaphore
<1>4. ASSUME NEW h \in running, FinishJob(h)
      PROVE  PausedMeansParked'
  BY <1>4 DEF FinishJob, ResumePartition, PausedMeansParked
<1>5. CASE Crash
  BY <1>5 DEF Crash, PausedMeansParked
<1>6. ASSUME NEW p \in Partition, Publish(p)
      PROVE  UNCHANGED <<isPaused, queue>>
  BY <1>6 DEF Publish, manager, semaphore
<1>7. ASSUME NEW r \in requests, CommitOffset(r) \/ CommitFails(r)
      PROVE  UNCHANGED <<isPaused, queue>>
  BY <1>7 DEF CommitOffset, CommitFails, manager, semaphore
<1>8. CASE StartConsumer \/ StartFails \/ Rebalance \/ UNCHANGED vars
  BY <1>1, <1>8 DEF StartConsumer, StartFails, Rebalance, vars, manager, semaphore
<1> QED
  BY <1>1, <1>2, <1>3, <1>4, <1>5, <1>6, <1>7, <1>8 DEF Next

LEMMA PauseInvariance ==
  Spec => [](WorkerInv /\ SemP!SemInv /\ ScheduleInv /\ PausedMeansParked)
<1>1. Init => PausedMeansParked
  BY DEF Init, PausedMeansParked
<1> QED
  BY <1>1, PauseStep, ScheduleInvariance, PTL DEF Spec

(* Whoever waits finds the boxes that are left with the jobs that run.     *)
LEMMA ParkedBehindJob ==
  ASSUME SemP!SemInv, ScheduleInv, PausedMeansParked, isPaused
  PROVE  /\ handler # Idle
         /\ held \subseteq running
         /\ SemP!KnownBoxes # {} => running # {}
<1>1. queue # <<>>
  BY DEF PausedMeansParked
<1>2. handler # Idle /\ held \subseteq running
  BY <1>1 DEF ScheduleInv, HandlerInv
<1>3. availableBoxes \in Seq(SemP!Boxes) /\ Len(availableBoxes) = 0
  BY <1>1 DEF SemP!SemInv, SemP!SemTypeOK, SemP!PermitsMatchBoxes, SemP!NoIdlePermit
<1>4. SemP!FreeBoxes = {}
  BY <1>3 DEF SemP!FreeBoxes, SemP!Range
<1> QED
  BY <1>2, <1>4 DEF SemP!KnownBoxes, SemP!HeldBoxes

(* A pause always has a running job that will clear the flag, as long as   *)
(* empty messages have not taken every box for good.                       *)
THEOREM WorkerPauseEndsByJob == Spec => [](SemP!KnownBoxes # {} => PauseHasEnd)
<1>1. SemP!SemInv /\ ScheduleInv /\ PausedMeansParked
      => (SemP!KnownBoxes # {} => PauseHasEnd)
  BY ParkedBehindJob DEF PauseHasEnd
<1> QED
  BY <1>1, PauseInvariance, PTL

(* So without empty messages every pause has an end, through every         *)
(* interleaving of jobs, hand-overs, rebalances and restarts.              *)
THEOREM WorkerPauseHasEnd ==
  ASSUME Empty = {}
  PROVE  Spec => []PauseHasEnd
<1> DEFINE AllKnown == SemP!KnownBoxes = SemP!Boxes
<1>1. Init => AllKnown
  <2>1. Init => SemP!SemInit
    BY DEF Init, Sem!SemInit, SemP!SemInit
  <2>2. SemP!BoxesConserved => AllKnown
    BY DEF SemP!BoxesConserved, SemP!KnownBoxes
  <2> QED
    BY <2>1, <2>2, SemHere, SemP!SemInitInv
<1>2. WorkerInv /\ SemP!SemInv /\ AllKnown /\ [Next]_vars => AllKnown'
  <2>1. ASSUME NEW h \in held
        PROVE  ~ BoxGoes(h)
    BY DEF BoxGoes, SkipEmpty
  <2>2. SemP!Boxes' = SemP!Boxes
    BY DEF SemP!Boxes
  <2> QED
    BY <2>1, <2>2, SemWorkerBoxes DEF BoxesStay, BoxesComeBack
<1>3. AllKnown => SemP!KnownBoxes # {}
  <2>1. 0 \in SemP!Boxes
    BY WorkerManagerAssumption DEF SemP!Boxes
  <2> QED
    BY <2>1
<1> HIDE DEF AllKnown
<1> QED
  BY <1>1, <1>2, <1>3, ScheduleInvariance, WorkerPauseEndsByJob, PTL DEF Spec

(* And with no box left the pause has none: the handler that waits is      *)
(* never served and the topic never resumed, until the process is          *)
(* restarted.                                                              *)
THEOREM WorkerStallsWithoutBoxes ==
  Spec => [][isPaused /\ SemP!KnownBoxes = {}
             => \/ isPaused' /\ SemP!KnownBoxes' = {} /\ handler' = handler
                \/ crashes' = crashes + 1]_vars
<1> DEFINE Stalled == isPaused /\ SemP!KnownBoxes = {}
           StaysStalled == isPaused' /\ SemP!KnownBoxes' = {} /\ handler' = handler
<1>1. ASSUME SemP!SemInv, ScheduleInv, WorkerInv, PausedMeansParked, Stalled, [Next]_vars
      PROVE  StaysStalled \/ crashes' = crashes + 1
  <2>1. held = {} /\ running = {} /\ handler # Idle
    <3>1. handler # Idle
      BY <1>1, ParkedBehindJob
    <3>2. \A h \in held : h.box \in SemP!KnownBoxes
      BY DEF SemP!KnownBoxes, SemP!HeldBoxes
    <3>3. held = {}
      BY <1>1, <3>2
    <3>4. running \subseteq held
      BY <1>1 DEF WorkerInv, CommitTypeOK
    <3> QED
      BY <3>1, <3>3, <3>4
  <2>2. CASE UNCHANGED <<semaphore, isPaused, handler>>
    BY <1>1, <2>2 DEF semaphore, SemP!KnownBoxes, SemP!FreeBoxes, SemP!HeldBoxes
  <2>3. CASE Crash
    BY <2>3 DEF Crash
  <2>4. ASSUME NEW p \in Partition, ReceiveMessage(p)
        PROVE  FALSE
    BY <2>1, <2>4 DEF ReceiveMessage
  <2>5. ASSUME NEW p \in Partition, Publish(p)
        PROVE  UNCHANGED <<semaphore, isPaused, handler>>
    BY <2>5 DEF Publish, manager
  <2>6. ASSUME NEW r \in requests, CommitOffset(r) \/ CommitFails(r)
        PROVE  UNCHANGED <<semaphore, isPaused, handler>>
    BY <2>6 DEF CommitOffset, CommitFails, manager
  <2>7. CASE StartConsumer \/ StartFails \/ Rebalance \/ UNCHANGED vars
    BY <2>2, <2>7 DEF StartConsumer, StartFails, Rebalance, vars, manager
  <2> QED
    BY <1>1, <2>1, <2>2, <2>3, <2>4, <2>5, <2>6, <2>7 DEF Next
<1> QED
  BY <1>1, PauseInvariance, PTL DEF Spec

(* With a single partition the one resume undoes the whole pause: an idle  *)
(* worker is paused nowhere, empty messages or not.  With two it is not so.*)
THEOREM WorkerPauseUndone ==
  ASSUME \A p, q \in Partition : p = q
  PROVE  Spec => []NothingLeftPaused
<1> DEFINE Undone == ~ isPaused => paused = {}
<1>1. Init => Undone
  BY DEF Init
<1>2. ASSUME ScheduleInv, WorkerInv, Undone, [Next]_vars
      PROVE  Undone'
  <2>1. CASE UNCHANGED <<isPaused, paused>>
    BY <1>2, <2>1
  <2>2. ASSUME NEW p \in Partition, ReceiveMessage(p)
        PROVE  Undone'
    BY <1>2, <2>2 DEF ReceiveMessage, AcquireOrPause
  <2>3. ASSUME NEW h \in running, FinishJob(h)
        PROVE  Undone'
    <3>1. h.task.partition \in Partition /\ paused \subseteq Partition
      BY <1>2, HandlerIsMessage DEF WorkerInv, CommitTypeOK, ScheduleInv, RestTypeOK
    <3>2. paused \ {h.task.partition} = {}
      BY <3>1
    <3>3. paused' = {}
      BY <1>2, <2>3, <3>2 DEF FinishJob, ResumePartition
    <3> QED
      BY <3>3
  <2>4. CASE Crash
    BY <2>4 DEF Crash
  <2>5. ASSUME NEW p \in Partition, Publish(p)
        PROVE  Undone'
    BY <2>1, <2>5 DEF Publish, manager
  <2>6. ASSUME NEW h \in held, StartJob(h) \/ SkipEmpty(h)
        PROVE  Undone'
    BY <2>1, <2>6 DEF StartJob, SkipEmpty, HandlerReturns
  <2>7. ASSUME NEW r \in requests, CommitOffset(r) \/ CommitFails(r)
        PROVE  Undone'
    BY <2>1, <2>7 DEF CommitOffset, CommitFails, manager
  <2>8. CASE StartConsumer \/ StartFails \/ Rebalance \/ UNCHANGED vars
    BY <2>1, <2>8 DEF StartConsumer, StartFails, Rebalance, vars, manager
  <2> QED
    BY <1>2, <2>2, <2>3, <2>4, <2>5, <2>6, <2>7, <2>8 DEF Next
<1>3. Undone /\ ScheduleInv /\ PausedMeansParked => NothingLeftPaused
  BY DEF ScheduleInv, HandlerInv, PausedMeansParked, NothingLeftPaused
<1> QED
  BY <1>1, <1>2, <1>3, PauseInvariance, PTL DEF Spec

-----------------------------------------------------------------------------
(* At most MAX_WORKERS submissions are judged at once, hand-overs,         *)
(* redeliveries and restarts included.                                     *)
THEOREM WorkerLimitsJobs ==
  Spec => [](IsFiniteSet(running) /\ Cardinality(running) <= Workers)
<1>1. WorkerInv /\ SemP!SemInv => IsFiniteSet(running) /\ Cardinality(running) <= Workers
  <2>1. WorkerInv => running \subseteq held
    BY DEF WorkerInv, CommitTypeOK
  <2>2. SemP!IsFiniteSet(running) <=> IsFiniteSet(running)
    BY DEF SemP!IsFiniteSet, IsFiniteSet
  <2>3. SemP!Cardinality(running) = Cardinality(running)
    BY Zenon DEF SemP!Cardinality, Cardinality
  <2> QED
    BY <2>1, <2>2, <2>3, SemHere, SemP!HoldersBounded
<1> QED
  BY <1>1, ScheduleInvariance, PTL

(* Until a join delivers anything again, an offset in flight is behind the *)
(* consumer or the handler's, and no job has an empty message.  So an      *)
(* empty message that is skipped is not yet among the skipped ones, and no *)
(* job's end takes one of them out of flight.                              *)
FlightInv ==
    /\ ~ Consuming => \A p \in Partition : inFlight[p] = {}
    /\ \A h \in running : h.task \notin Empty
    /\ rebalances = 0 =>
           /\ \A p \in Partition : \A o \in inFlight[p] :
                  o < position[p] \/ handler = [partition |-> p, offset |-> o]
           /\ handler # Idle => handler.offset \in inFlight[handler.partition]

LostInv ==
    rebalances = 0 =>
        /\ IsFiniteSet(SkippedEmpties)
        /\ Cardinality(LostBoxes) = Cardinality(SkippedEmpties)

(* A step that leaves the handler and what is in flight.                   *)
LEMMA FlightQuiet ==
  ASSUME FlightInv,
         UNCHANGED <<inFlight, running, handler>>,
         Consuming => Consuming',
         rebalances' = 0 => rebalances = 0,
         \/ UNCHANGED position
         \/ rebalances' # 0
         \/ \A p \in Partition : inFlight[p] = {}
  PROVE  FlightInv' /\ SkippedEmpties' = SkippedEmpties
BY DEF FlightInv, SkippedEmpties

(* The handler returns with its message.                                   *)
LEMMA FlightReturns ==
  ASSUME WorkerInv, ScheduleInv, FlightInv, NEW h \in held, Granted(h), HandlerReturns,
         \/ running' = running
         \/ running' = running \union {h} /\ handler \notin Empty
  PROVE  FlightInv'
<1>1. /\ h \in held \ running /\ h.task = handler /\ handler' = Idle
      /\ position' = [position EXCEPT ![handler.partition] = handler.offset + 1]
      /\ UNCHANGED <<inFlight, rebalances>> /\ Consuming' = Consuming
  BY DEF Granted, HandlerReturns, Consuming, bounds, tracker
<1>2. /\ handler \in Message /\ handler.partition \in Partition
      /\ handler.offset \in Offset /\ handler.offset = position[handler.partition]
      /\ Consuming
  BY <1>1, HandlerIsMessage DEF ScheduleInv, OnceInv
<1>3. \A p \in Partition : /\ position[p] \in Int /\ position'[p] \in Int
                           /\ position'[p] >= position[p]
                           /\ p = handler.partition => position'[p] = position[p] + 1
                           /\ inFlight[p] \subseteq Int
  BY <1>1, <1>2, WorkerManagerAssumption DEF WorkerInv, CommitTypeOK, Offset
<1>4. ASSUME rebalances = 0, NEW p \in Partition, NEW o \in inFlight[p]
      PROVE  o < position'[p]
  <2>1. CASE o < position[p]
    BY <2>1, <1>3
  <2>2. CASE handler = [partition |-> p, offset |-> o]
    <3>1. handler.partition = p /\ handler.offset = o
      BY <2>2
    <3> QED
      BY <3>1, <1>2, <1>3
  <2> QED
    BY <1>4, <2>1, <2>2 DEF FlightInv
<1> QED
  BY <1>1, <1>2, <1>4 DEF FlightInv

(* A message joins the tracker at the consumer's position.                 *)
LEMMA FlightReceives ==
  ASSUME WorkerInv, ScheduleInv, FlightInv, NEW p \in Partition, ReceiveMessage(p)
  PROVE  FlightInv' /\ (rebalances = 0 => SkippedEmpties' = SkippedEmpties)
<1> DEFINE m == [partition |-> p, offset |-> position[p]]
<1>1. /\ handler = Idle /\ handler' = m
      /\ inFlight' = [inFlight EXCEPT ![p] = @ \union {position[p]}]
      /\ UNCHANGED <<running, position, rebalances>>
      /\ Consuming /\ Consuming' = Consuming
  BY DEF ReceiveMessage, Trk!Track, Consuming, bounds
<1>2. /\ \A q \in Partition : position[q] \in Int
      /\ inFlight \in [Partition -> SUBSET Offset]
      /\ \A q \in Message : q # Idle /\ q.partition \in Partition
  BY HandlerIsMessage, WorkerManagerAssumption DEF WorkerInv, CommitTypeOK
<1>3. /\ inFlight'[p] = inFlight[p] \union {position[p]}
      /\ \A q \in Partition \ {p} : inFlight'[q] = inFlight[q]
  BY <1>1, <1>2
<1>4. FlightInv'
  <2>1. ASSUME rebalances = 0, NEW q \in Partition, NEW o \in inFlight'[q]
        PROVE  o < position[q] \/ m = [partition |-> q, offset |-> o]
    <3>1. \A x \in inFlight[q] : x < position[q]
      <4> TAKE x \in inFlight[q]
      <4>1. [partition |-> q, offset |-> x] # Idle
        BY <1>2 DEF Message
      <4> QED
        BY <2>1, <4>1, <1>1 DEF FlightInv
    <3> QED
      BY <3>1, <1>3
  <2>2. m.offset \in inFlight'[m.partition]
    BY <1>3
  <2> QED
    BY <1>1, <2>1, <2>2 DEF FlightInv
<1>5. ASSUME rebalances = 0
      PROVE  SkippedEmpties' = SkippedEmpties
  <2>1. position[p] \notin inFlight[p]
    <3>1. ASSUME position[p] \in inFlight[p]
          PROVE  FALSE
      <4>1. m # Idle
        BY <3>1, <1>2 DEF Message
      <4>2. position[p] < position[p]
        BY <1>5, <3>1, <4>1, <1>1 DEF FlightInv
      <4> QED
        BY <4>2, <1>2
    <3> QED
      BY <3>1
  <2>2. ASSUME NEW e \in Empty
        PROVE  e \in SkippedEmpties' <=> e \in SkippedEmpties
    <3>1. e \in Message /\ e # Idle /\ e.partition \in Partition
      BY <1>2, WorkerManagerAssumption
    <3>2. e = m <=> e.partition = p /\ e.offset = position[p]
      BY <3>1 DEF Message
    <3> QED
      BY <3>1, <3>2, <1>1, <1>3, <2>1 DEF SkippedEmpties
  <2> QED
    BY <2>2 DEF SkippedEmpties
<1> QED
  BY <1>4, <1>5

(* A job's end takes its own message out of flight, which is not empty and *)
(* not the handler's.                                                      *)
LEMMA FlightFinishes ==
  ASSUME WorkerInv, ScheduleInv, FlightInv, NEW h \in running, FinishJob(h)
  PROVE  FlightInv' /\ SkippedEmpties' = SkippedEmpties
<1> DEFINE p == h.task.partition
           o == h.task.offset
<1>1. /\ running' = running \ {h}
      /\ inFlight' = [inFlight EXCEPT ![p] = @ \ {o}]
      /\ UNCHANGED <<handler, position, rebalances>>
      /\ Consuming' = Consuming
  BY DEF FinishJob, CompleteAndCommit, Trk!Complete, Consuming, bounds
<1>2. /\ h \in held /\ h.task \in Message /\ p \in Partition /\ o \in Offset
      /\ inFlight \in [Partition -> SUBSET Offset]
      /\ handler # Idle => handler \in Message
      /\ h.task \notin Empty
      /\ Consuming
  BY HandlerIsMessage DEF WorkerInv, CommitTypeOK, FlightInv, ScheduleInv, OnceInv
<1>3. /\ inFlight'[p] = inFlight[p] \ {o}
      /\ \A q \in Partition \ {p} : inFlight'[q] = inFlight[q]
  BY <1>1, <1>2
<1>4. FlightInv'
  <2>1. ASSUME rebalances = 0, handler # Idle
        PROVE  handler.offset \in inFlight'[handler.partition]
    <3>1. handler.offset \in inFlight[handler.partition]
          /\ handler.offset = position[handler.partition]
          /\ handler.partition \in Partition
      BY <2>1, <1>2 DEF FlightInv, ScheduleInv, OnceInv, Message
    <3>2. o < position[p] /\ position[p] \in Int
      BY <2>1, <1>2, WorkerManagerAssumption
      DEF ScheduleInv, OnceInv, WorkerInv, CommitTypeOK
    <3>3. handler.partition = p => handler.offset # o
      BY <3>1, <3>2
    <3> QED
      BY <3>1, <3>3, <1>3
  <2>2. \A q \in Partition : inFlight'[q] \subseteq inFlight[q]
    BY <1>3
  <2> QED
    BY <1>1, <1>2, <2>1, <2>2 DEF FlightInv
<1>5. ASSUME NEW e \in Empty
      PROVE  e \in SkippedEmpties' <=> e \in SkippedEmpties
  <2>1. e \in Message /\ e.partition \in Partition /\ e # h.task
    BY <1>2, HandlerIsMessage, WorkerManagerAssumption
  <2>2. ~ (e.partition = p /\ e.offset = o)
    BY <2>1, <1>2 DEF Message
  <2> QED
    BY <2>1, <2>2, <1>1, <1>3 DEF SkippedEmpties
<1> QED
  BY <1>4, <1>5 DEF SkippedEmpties

LEMMA FlightStep ==
  ASSUME WorkerInv, ScheduleInv, FlightInv, [Next]_vars
  PROVE  /\ FlightInv'
         /\ \/ rebalances' = 0 => rebalances = 0 /\ SkippedEmpties' = SkippedEmpties
            \/ \E h \in held : SkipEmpty(h)
            \/ Crash
<1> DEFINE Goal ==
      /\ FlightInv'
      /\ \/ rebalances' = 0 => rebalances = 0 /\ SkippedEmpties' = SkippedEmpties
         \/ \E h \in held : SkipEmpty(h)
         \/ Crash
<1>1. CASE StartConsumer
  <2>1. /\ UNCHANGED <<inFlight, running, handler, rebalances>> /\ Consuming'
        /\ \A p \in Partition : inFlight[p] = {}
    BY <1>1 DEF StartConsumer, tracker, bounds, Consuming, FlightInv
  <2> QED
    BY <2>1, FlightQuiet
<1>2. CASE StartFails
  <2>1. UNCHANGED <<inFlight, running, handler, rebalances, position>> /\ ~ Consuming
    BY <1>2, WorkerManagerAssumption DEF StartFails, tracker, bounds, Consuming
  <2> QED
    BY <2>1, FlightQuiet
<1>3. ASSUME NEW p \in Partition, Publish(p)
      PROVE  Goal
  <2>1. UNCHANGED <<inFlight, running, handler, rebalances, position, attempt>>
    BY <1>3 DEF Publish, tracker, manager, bounds
  <2> QED
    BY <2>1, FlightQuiet DEF Consuming
<1>4. ASSUME NEW p \in Partition, ReceiveMessage(p)
      PROVE  Goal
  BY <1>4, FlightReceives DEF ReceiveMessage, bounds
<1>5. ASSUME NEW h \in held, StartJob(h)
      PROVE  Goal
  <2>1. /\ Granted(h) /\ HandlerReturns /\ handler \notin Empty
        /\ running' = running \union {h}
    BY <1>5 DEF StartJob
  <2>2. /\ handler' = Idle /\ UNCHANGED <<inFlight, rebalances>>
        /\ \A e \in Empty : e # handler /\ e # Idle
    BY <2>1, HandlerIsMessage, WorkerManagerAssumption
    DEF HandlerReturns, tracker, bounds
  <2>3. SkippedEmpties' = SkippedEmpties
    BY <2>2 DEF SkippedEmpties
  <2> QED
    BY <2>1, <2>2, <2>3, FlightReturns
<1>6. ASSUME NEW h \in held, SkipEmpty(h)
      PROVE  Goal
  <2>1. Granted(h) /\ HandlerReturns /\ running' = running
    BY <1>6 DEF SkipEmpty
  <2> QED
    BY <1>6, <2>1, FlightReturns
<1>7. ASSUME NEW h \in running, FinishJob(h)
      PROVE  Goal
  BY <1>7, FlightFinishes DEF FinishJob, bounds
<1>8. ASSUME NEW r \in requests, CommitOffset(r) \/ CommitFails(r)
      PROVE  Goal
  <2>1. UNCHANGED <<inFlight, running, handler, rebalances, position, attempt>>
    BY <1>8 DEF CommitOffset, CommitFails, tracker, manager, bounds
  <2> QED
    BY <2>1, FlightQuiet DEF Consuming
<1>9. CASE Rebalance
  <2>1. /\ UNCHANGED <<inFlight, running, handler, attempt>>
        /\ rebalances' # 0
    BY <1>9, WorkerManagerAssumption
    DEF Rebalance, tracker, manager, ScheduleInv, RestTypeOK
  <2> QED
    BY <2>1, FlightQuiet DEF Consuming
<1>10. CASE Crash
  <2>1. FlightInv'
    BY <1>10 DEF Crash, FlightInv
  <2> QED
    BY <1>10, <2>1
<1>11. CASE UNCHANGED vars
  <2>1. UNCHANGED <<inFlight, running, handler, rebalances, position, attempt>>
    BY <1>11 DEF vars, tracker, manager, bounds
  <2> QED
    BY <2>1, FlightQuiet DEF Consuming
<1> QED
  BY <1>1, <1>2, <1>3, <1>4, <1>5, <1>6, <1>7, <1>8, <1>9, <1>10, <1>11 DEF Next

(* The boxes that are missing, in the names of the semaphore's lemmas.     *)
LEMMA LostHere ==
  /\ LostBoxes = SemP!Boxes \ SemP!KnownBoxes
  /\ LostBoxes' = SemP!Boxes \ SemP!KnownBoxes'
BY DEF LostBoxes, SemP!KnownBoxes, SemP!Boxes, Sem!Boxes, SemP!FreeBoxes, Sem!FreeBoxes,
       SemP!HeldBoxes, Sem!HeldBoxes, SemP!Range, Sem!Range

(* They are finitely many.                                                 *)
LEMMA LostFinite == IsFiniteSet(LostBoxes) /\ Cardinality(LostBoxes) \in Nat
<1>1. IsFiniteSet(Sem!Boxes)
  BY FS_Interval, WorkerManagerAssumption DEF Sem!Boxes
<1>2. LostBoxes \in SUBSET Sem!Boxes
  BY DEF LostBoxes
<1> QED
  BY <1>1, <1>2, FS_Subset, FS_CardinalityType

(* An empty message that is skipped is one more, and so is the box.        *)
LEMMA LostSkips ==
  ASSUME WorkerInv, ScheduleInv, FlightInv, LostInv, NEW h \in held, BoxGoes(h)
  PROVE  LostInv'
<1>1. /\ Granted(h) /\ handler \in Empty /\ h.task = handler
      /\ handler' = Idle /\ UNCHANGED <<inFlight, rebalances>>
  BY DEF BoxGoes, SkipEmpty, Granted, HandlerReturns, tracker, bounds
<1>2. SUFFICES ASSUME rebalances = 0
               PROVE  /\ IsFiniteSet(SkippedEmpties')
                      /\ Cardinality(LostBoxes') = Cardinality(SkippedEmpties')
  BY <1>1 DEF LostInv
<1>3. /\ IsFiniteSet(SkippedEmpties)
      /\ Cardinality(LostBoxes) = Cardinality(SkippedEmpties)
  BY <1>2 DEF LostInv
<1>4. handler \notin SkippedEmpties /\ SkippedEmpties' = SkippedEmpties \union {handler}
  <2>1. \A e \in Empty : e # Idle
    BY HandlerIsMessage, WorkerManagerAssumption
  <2>2. handler.offset \in inFlight[handler.partition]
    BY <1>1, <1>2, <2>1 DEF FlightInv
  <2> QED
    BY <1>1, <2>1, <2>2 DEF SkippedEmpties
<1>5. h.box \notin LostBoxes /\ LostBoxes' = LostBoxes \union {h.box}
  BY LostHere DEF BoxGoes
<1>6. Cardinality(SkippedEmpties \union {handler}) = Cardinality(SkippedEmpties) + 1
      /\ IsFiniteSet(SkippedEmpties \union {handler})
  BY <1>3, <1>4, FS_AddElement
<1>7. Cardinality(LostBoxes \union {h.box}) = Cardinality(LostBoxes) + 1
  BY <1>5, LostFinite, FS_AddElement
<1> QED
  BY <1>3, <1>4, <1>5, <1>6, <1>7

LEMMA LostStep ==
  ASSUME WorkerInv, SemP!SemInv, ScheduleInv, FlightInv, LostInv, [Next]_vars
  PROVE  LostInv'
<1>1. LostBoxes' = SemP!Boxes \ SemP!KnownBoxes'
  BY LostHere
<1>2. CASE \E h \in held : SkipEmpty(h)
  <2>1. PICK h \in held : SkipEmpty(h)
    BY <1>2
  <2>2. BoxGoes(h)
    BY <2>1, DropHere DEF SkipEmpty, BoxGoes
  <2> QED
    BY <2>2, LostSkips
<1>3. CASE Crash
  <2>1. SemP!SemInit'
    BY <1>3 DEF Crash, SemP!SemInit
  <2>2. SemP!BoxesConserved'
    BY <2>1, SemHere, SemP!SemRestartInv
  <2>3. LostBoxes' = {}
    BY <1>1, <2>2 DEF SemP!BoxesConserved, SemP!KnownBoxes, SemP!Boxes
  <2>4. SkippedEmpties' = {}
    <3>1. \A e \in Empty : e.partition \in Partition
      BY HandlerIsMessage, WorkerManagerAssumption
    <3> QED
      BY <1>3, <3>1 DEF Crash, SkippedEmpties
  <2> QED
    BY <2>3, <2>4, FS_EmptySet DEF LostInv
<1>4. ASSUME rebalances' = 0, rebalances = 0, SkippedEmpties' = SkippedEmpties, BoxesStay
      PROVE  LostInv'
  BY <1>1, <1>4, LostHere DEF LostInv, BoxesStay
<1>5. CASE rebalances' # 0
  BY <1>5 DEF LostInv
<1> QED
  BY <1>2, <1>3, <1>4, <1>5, FlightStep, SemWorkerBoxes DEF BoxGoes, BoxesComeBack

LEMMA LostInvariance ==
  Spec => [](WorkerInv /\ SemP!SemInv /\ ScheduleInv /\ FlightInv /\ LostInv)
<1>1. Init => FlightInv /\ LostInv
  <2> SUFFICES ASSUME Init
               PROVE  FlightInv /\ LostInv
    OBVIOUS
  <2>1. /\ handler = Idle /\ running = {} /\ attempt = 1
        /\ inFlight = [p \in Partition |-> {}]
    BY DEF Init, Trk!TrackerInit
  <2>2. FlightInv
    BY <2>1 DEF FlightInv
  <2>3. SemP!BoxesConserved
    <3>1. SemP!SemInit
      BY DEF Init, Sem!SemInit, SemP!SemInit
    <3> QED
      BY <3>1, SemHere, SemP!SemInitInv
  <2>4. LostBoxes = {}
    BY <2>3, LostHere DEF SemP!BoxesConserved, SemP!KnownBoxes, SemP!Boxes
  <2>5. SkippedEmpties = {}
    <3>1. \A e \in Empty : e.partition \in Partition
      BY WorkerManagerAssumption DEF Message
    <3> QED
      BY <2>1, <3>1 DEF SkippedEmpties
  <2> QED
    BY <2>2, <2>4, <2>5, FS_EmptySet DEF LostInv
<1>2. WorkerInv /\ ScheduleInv /\ FlightInv /\ [Next]_vars => FlightInv'
  BY FlightStep
<1>3. WorkerInv /\ SemP!SemInv /\ ScheduleInv /\ FlightInv /\ LostInv /\ [Next]_vars
      => LostInv'
  BY LostStep
<1> QED
  BY <1>1, <1>2, <1>3, ScheduleInvariance, PTL DEF Spec

(* A box is lost to an empty message and to nothing else: as many are      *)
(* missing as empty messages stay in flight without a handler.             *)
THEOREM WorkerLosesBoxesToEmpties == Spec => []BoxesLostToEmpties
<1>1. LostInv => BoxesLostToEmpties
  BY DEF LostInv, BoxesLostToEmpties
<1> QED
  BY <1>1, LostInvariance, PTL

(* So a worker with more boxes than the topic has empty messages never     *)
(* pauses for good, as long as it is not made to rejoin.                   *)
THEOREM WorkerOutlastsEmpties ==
  ASSUME IsFiniteSet(Empty), Cardinality(Empty) < Workers
  PROVE  Spec => [](rebalances = 0 => PauseHasEnd)
<1>1. ASSUME BoxesLostToEmpties, rebalances = 0
      PROVE  SemP!KnownBoxes # {}
  <2>1. SkippedEmpties \in SUBSET Empty
    BY DEF SkippedEmpties
  <2>2. Cardinality(SkippedEmpties) <= Cardinality(Empty)
        /\ IsFiniteSet(SkippedEmpties)
    BY <2>1, FS_Subset
  <2>3. Cardinality(SkippedEmpties) \in Nat /\ Cardinality(Empty) \in Nat
    BY <2>2, FS_CardinalityType
  <2>4. Cardinality(SemP!Boxes) = Workers
    BY FS_Interval, WorkerManagerAssumption DEF SemP!Boxes
  <2>5. Cardinality(LostBoxes) < Workers
    BY <1>1, <2>2, <2>3, WorkerManagerAssumption DEF BoxesLostToEmpties
  <2>6. LostBoxes # SemP!Boxes
    BY <2>4, <2>5, LostFinite, WorkerManagerAssumption
  <2> QED
    BY <2>6, LostHere
<1>2. BoxesLostToEmpties /\ (SemP!KnownBoxes # {} => PauseHasEnd)
      => (rebalances = 0 => PauseHasEnd)
  BY <1>1
<1> QED
  BY <1>2, WorkerLosesBoxesToEmpties, WorkerPauseEndsByJob, PTL

-----------------------------------------------------------------------------
(* Nothing is committed, or asked to be, above n: neither what the group   *)
(* has nor any request that may still arrive.                              *)
NotPast(p, n) ==
    /\ groupOffset[p] <= n
    /\ \A r \in requests : r.partition = p => r.offset <= n

(* Until a rejoin every commit stays behind what is in flight, and so      *)
(* behind every job: complete() names an offset below the lowest one       *)
(* pending, and messages are tracked at the position, which no commit      *)
(* passes.                                                                 *)
AheadInv ==
    /\ ~ Consuming => requests = {}
    /\ rebalances = 0 =>
           /\ \A h \in running : h.task.offset \in inFlight[h.task.partition]
           /\ \A p \in Partition : \A o \in inFlight[p] : NotPast(p, o)
           /\ Consuming => \A p \in Partition : NotPast(p, position[p])

(* The offsets that are compared are integers.                             *)
LEMMA AheadTypes ==
  ASSUME WorkerInv
  PROVE  /\ inFlight \in [Partition -> SUBSET Offset]
         /\ \A p \in Partition : /\ position[p] \in Int /\ groupOffset[p] \in Int
                                 /\ inFlight[p] \subseteq Int
                                 /\ logEnd[p] \in Nat
                                 /\ groupOffset[p] = NoOffset => groupOffset[p] <= logEnd[p]
         /\ \A r \in requests : r.partition \in Partition /\ r.offset \in Int
<1> USE WorkerManagerAssumption DEF WorkerInv, CommitTypeOK
<1>1. Offset \subseteq Int /\ NoOffset = -1
  BY DEF Offset, NoOffset, Trk!NoOffset
<1>2. \A p \in Partition : logEnd[p] \in Nat
  OBVIOUS
<1>3. \A r \in requests : r.partition \in Partition /\ r.offset \in Int
  BY DEF Request
<1>4. inFlight \in [Partition -> SUBSET Offset]
  OBVIOUS
<1>5. \A p \in Partition : inFlight[p] \subseteq Int
  BY <1>1, <1>4
<1>6. \A p \in Partition : position[p] \in Int
  OBVIOUS
<1>7. \A p \in Partition : groupOffset[p] \in Int
  BY <1>1
<1>8. \A p \in Partition : groupOffset[p] = NoOffset => groupOffset[p] <= logEnd[p]
  BY <1>1, <1>2
<1> QED
  BY <1>2, <1>3, <1>4, <1>5, <1>6, <1>7, <1>8

(* A step that leaves the jobs and what is in flight, and asks for no more.*)
LEMMA AheadQuiet ==
  ASSUME AheadInv, UNCHANGED <<inFlight, running, position, groupOffset>>,
         requests' \subseteq requests,
         Consuming' <=> Consuming, rebalances' = rebalances
  PROVE  AheadInv'
BY DEF AheadInv, NotPast

(* The group hands out the partitions: the consumer starts where the group *)
(* is, or at the end of a partition of which it has nothing.               *)
LEMMA AheadStarts ==
  ASSUME WorkerInv, FlightInv, AheadInv, StartConsumer
  PROVE  AheadInv'
<1>1. /\ ~ Consuming /\ Consuming' /\ Join
      /\ UNCHANGED <<inFlight, running, requests, groupOffset, logEnd, rebalances>>
  BY DEF StartConsumer, Consuming, tracker, bounds
<1>2. requests' = {} /\ \A p \in Partition : inFlight'[p] = {}
  BY <1>1 DEF AheadInv, FlightInv
<1>3. ASSUME NEW p \in Partition
      PROVE  NotPast(p, position[p])'
  <2>1. position'[p] = IF groupOffset[p] = NoOffset THEN logEnd[p] ELSE groupOffset[p]
    BY <1>1 DEF Join
  <2>2. groupOffset'[p] <= position'[p]
    BY <1>1, <2>1, AheadTypes
  <2> QED
    BY <1>2, <2>2 DEF NotPast
<1> QED
  BY <1>1, <1>2, <1>3 DEF AheadInv

LEMMA AheadReceives ==
  ASSUME WorkerInv, AheadInv, NEW p \in Partition, ReceiveMessage(p)
  PROVE  AheadInv'
<1>1. /\ inFlight' = [inFlight EXCEPT ![p] = @ \union {position[p]}]
      /\ UNCHANGED <<running, position, requests, groupOffset, rebalances>>
      /\ Consuming /\ Consuming'
  BY DEF ReceiveMessage, Trk!Track, Consuming, bounds
<1>2. \A q \in Partition :
          inFlight'[q] = IF q = p THEN inFlight[q] \union {position[p]} ELSE inFlight[q]
  BY <1>1, AheadTypes
<1>3. \A h \in running : h.task.partition \in Partition
  BY HandlerIsMessage DEF WorkerInv, CommitTypeOK
<1>4. \A q \in Partition, n \in Int : NotPast(q, n) => NotPast(q, n)'
  BY <1>1 DEF NotPast
<1>5. \A q \in Partition : position[q] \in Int /\ inFlight[q] \subseteq Int
  BY AheadTypes
<1> QED
  BY <1>1, <1>2, <1>3, <1>4, <1>5 DEF AheadInv

(* The handler returns: the position moves one up, and its message, which  *)
(* is in flight, may be a job's.                                           *)
LEMMA AheadReturns ==
  ASSUME WorkerInv, ScheduleInv, FlightInv, AheadInv, NEW h \in held,
         Granted(h), HandlerReturns,
         running' = running \/ running' = running \union {h}
  PROVE  AheadInv'
<1>1. /\ h \in held \ running /\ h.task = handler
      /\ position' = [position EXCEPT ![handler.partition] = handler.offset + 1]
      /\ UNCHANGED <<inFlight, requests, groupOffset, rebalances>>
      /\ Consuming' <=> Consuming
  BY DEF Granted, HandlerReturns, Consuming, bounds, tracker
<1>2. /\ handler # Idle /\ handler.partition \in Partition
      /\ handler.offset = position[handler.partition] /\ Consuming
  BY <1>1, HandlerIsMessage DEF ScheduleInv, OnceInv
<1>3. \A p \in Partition : position[p] \in Int /\ position'[p] \in Int
                           /\ position[p] <= position'[p]
  BY <1>1, <1>2, AheadTypes DEF WorkerInv, CommitTypeOK
<1>4. ASSUME rebalances = 0, NEW p \in Partition
      PROVE  NotPast(p, position[p])'
  <2>1. NotPast(p, position[p])
    BY <1>2, <1>4 DEF AheadInv
  <2>2. groupOffset[p] <= position'[p]
    BY <1>3, <2>1, AheadTypes DEF NotPast
  <2>3. ASSUME NEW r \in requests, r.partition = p
        PROVE  r.offset <= position'[p]
    BY <1>3, <2>1, <2>3, AheadTypes DEF NotPast
  <2> QED
    BY <1>1, <2>2, <2>3 DEF NotPast
<1>5. rebalances = 0 => handler.offset \in inFlight[handler.partition]
  BY <1>2 DEF FlightInv
<1> QED
  BY <1>1, <1>2, <1>4, <1>5 DEF AheadInv, NotPast

LEMMA AheadFinishes ==
  ASSUME WorkerInv, ScheduleInv, FlightInv, AheadInv, NEW h \in running, FinishJob(h)
  PROVE  AheadInv'
<1> DEFINE p == h.task.partition
           o == h.task.offset
           safe == Trk!SafeOffset(p, o)
<1>1. /\ running' = running \ {h}
      /\ inFlight' = [inFlight EXCEPT ![p] = @ \ {o}]
      /\ UNCHANGED <<handler, position, groupOffset, rebalances>>
      /\ Consuming' <=> Consuming
  BY DEF FinishJob, CompleteAndCommit, Trk!Complete, Consuming, bounds
<1>0. requests' = IF safe = NoOffset THEN requests
                  ELSE requests \union {[partition |-> p, offset |-> safe + 1]}
  BY DEF FinishJob, CompleteAndCommit
<1>2. /\ \A k \in running : k.task \in Message /\ k.task.partition \in Partition
      /\ p \in Partition /\ o \in Offset /\ Consuming
  BY HandlerIsMessage DEF WorkerInv, CommitTypeOK, ScheduleInv, OnceInv
<1> SUFFICES ASSUME rebalances = 0
             PROVE  /\ \A k \in running' : k.task.offset \in inFlight'[k.task.partition]
                    /\ \A q \in Partition : \A x \in inFlight'[q] : NotPast(q, x)'
                    /\ \A q \in Partition : NotPast(q, position[q])'
  BY <1>1, <1>2 DEF AheadInv
<1>3. /\ inFlight'[p] = inFlight[p] \ {o}
      /\ \A q \in Partition \ {p} : inFlight'[q] = inFlight[q]
  BY <1>1, <1>2, AheadTypes
<1>4. ASSUME NEW k \in running'
      PROVE  k.task.offset \in inFlight'[k.task.partition]
  <2>1. k \in running /\ k.task # h.task /\ k.task.offset \in inFlight[k.task.partition]
    BY <1>1 DEF AheadInv, ScheduleInv, OnceInv
  <2>2. ~ (k.task.partition = p /\ k.task.offset = o)
    BY <1>2, <2>1 DEF Message
  <2> QED
    BY <1>2, <1>3, <2>1, <2>2
<1>5. safe # NoOffset => /\ safe \in Int
                         /\ \A x \in inFlight'[p] : safe + 1 <= x
                         /\ safe + 1 <= position[p]
  <2>1. o \in inFlight[p] /\ p \in tracked
    BY <1>2 DEF AheadInv, WorkerInv, CommitTypeOK
  <2>2. /\ safe \in Offset \union {NoOffset}
        /\ safe # NoOffset => /\ \A x \in inFlight[p] \ {o} : safe < x
                              /\ safe = o \/ safe + 1 \in inFlight[p]
    BY <1>2, <2>1, SafeOffsetHere DEF WorkerInv
  <2>3. ASSUME NEW x \in inFlight[p]
        PROVE  x \in Int /\ x <= position[p]
    <3>1. x \in Int /\ position[p] \in Int
      BY <1>2, AheadTypes
    <3>2. CASE handler = [partition |-> p, offset |-> x]
      <4>1. handler # Idle
        BY <1>2, <2>3, <3>2, HandlerIsMessage, AheadTypes DEF Message
      <4>2. handler.partition = p /\ handler.offset = x
        BY <3>2
      <4> QED
        BY <3>1, <4>1, <4>2 DEF ScheduleInv, OnceInv
    <3>3. CASE x < position[p]
      BY <3>1, <3>3
    <3> QED
      BY <1>2, <3>1, <3>2, <3>3 DEF FlightInv
  <2>4. o < position[p] /\ o \in Int /\ position[p] \in Int
    BY <1>2, <2>1, AheadTypes DEF ScheduleInv, OnceInv
  <2>5. safe # NoOffset => safe \in Int
    BY <2>2, WorkerManagerAssumption DEF Offset
  <2> HIDE DEF safe, p, o
  <2> QED
    BY <1>3, <2>2, <2>3, <2>4, <2>5
<1>6. ASSUME NEW q \in Partition, NEW n \in Int, NotPast(q, n),
             q = p /\ safe # NoOffset => safe + 1 <= n
      PROVE  NotPast(q, n)'
  <2>1. ASSUME NEW r \in requests', r.partition = q
        PROVE  r.offset <= n
    <3>1. CASE r \in requests
      BY <1>6, <2>1, <3>1 DEF NotPast
    <3>2. CASE safe # NoOffset /\ r = [partition |-> p, offset |-> safe + 1]
      BY <1>6, <2>1, <3>2
    <3> HIDE DEF safe, p
    <3> QED
      BY <1>0, <2>1, <3>1, <3>2
  <2> QED
    BY <1>1, <1>6, <2>1 DEF NotPast
<1>7. \A q \in Partition : /\ position[q] \in Int /\ NotPast(q, position[q])
                           /\ inFlight'[q] \subseteq inFlight[q]
                           /\ inFlight[q] \subseteq Int
                           /\ \A x \in inFlight[q] : NotPast(q, x)
  BY <1>2, <1>3, AheadTypes DEF AheadInv
<1> HIDE DEF safe, p, o
<1> QED
  BY <1>1, <1>4, <1>5, <1>6, <1>7

LEMMA AheadStep ==
  ASSUME WorkerInv, ScheduleInv, FlightInv, AheadInv, [Next]_vars
  PROVE  AheadInv'
<1>1. CASE StartConsumer
  BY <1>1, AheadStarts
<1>2. CASE StartFails
  BY <1>2, AheadQuiet, WorkerManagerAssumption DEF StartFails, tracker, bounds, Consuming
<1>3. ASSUME NEW p \in Partition, Publish(p)
      PROVE  AheadInv'
  BY <1>3, AheadQuiet DEF Publish, tracker, manager, bounds, Consuming
<1>4. ASSUME NEW p \in Partition, ReceiveMessage(p)
      PROVE  AheadInv'
  BY <1>4, AheadReceives
<1>5. ASSUME NEW h \in held, StartJob(h) \/ SkipEmpty(h)
      PROVE  AheadInv'
  BY <1>5, AheadReturns DEF StartJob, SkipEmpty
<1>6. ASSUME NEW h \in running, FinishJob(h)
      PROVE  AheadInv'
  BY <1>6, AheadFinishes
<1>7. ASSUME NEW r \in requests, CommitFails(r)
      PROVE  AheadInv'
  <2>1. requests' \subseteq requests
    BY <1>7 DEF CommitFails
  <2> QED
    BY <1>7, <2>1, AheadQuiet DEF CommitFails, tracker, manager, bounds, Consuming
<1>8. ASSUME NEW r \in requests, CommitOffset(r)
      PROVE  AheadInv'
  <2>1. /\ requests' = requests \ {r}
        /\ UNCHANGED <<inFlight, running, position, rebalances>>
        /\ Consuming' <=> Consuming
    BY <1>8 DEF CommitOffset, tracker, manager, bounds, Consuming
  <2>2. \A q \in Partition :
            groupOffset'[q] = IF q = r.partition THEN r.offset ELSE groupOffset[q]
    BY <1>8 DEF CommitOffset, WorkerInv, CommitTypeOK
  <2>3. \A q \in Partition, n \in Int : NotPast(q, n) => NotPast(q, n)'
    BY <2>1, <2>2 DEF NotPast
  <2> QED
    BY <2>1, <2>3, AheadTypes DEF AheadInv
<1>9. CASE Rebalance
  <2>1. rebalances' # 0 /\ requests' = requests /\ Consuming /\ Consuming'
    BY <1>9, WorkerManagerAssumption
    DEF Rebalance, Consuming, manager, ScheduleInv, RestTypeOK
  <2> QED
    BY <2>1 DEF AheadInv
<1>10. CASE Crash
  <2>1. /\ requests' = {} /\ running' = {} /\ ~ Consuming'
        /\ \A p \in Partition : inFlight'[p] = {}
    BY <1>10 DEF Crash, Consuming
  <2> QED
    BY <2>1 DEF AheadInv
<1>11. CASE UNCHANGED vars
  BY <1>11, AheadQuiet DEF vars, tracker, manager, bounds, Consuming
<1> QED
  BY <1>1, <1>2, <1>3, <1>4, <1>5, <1>6, <1>7, <1>8, <1>9, <1>10, <1>11 DEF Next

LEMMA AheadInvariance == Spec => [](WorkerInv /\ ScheduleInv /\ FlightInv /\ AheadInv)
<1>1. Init => AheadInv
  <2> SUFFICES ASSUME Init
               PROVE  AheadInv
    OBVIOUS
  <2>1. attempt = 1 /\ running = {} /\ requests = {} /\ \A p \in Partition : inFlight[p] = {}
    BY DEF Init, Trk!TrackerInit
  <2> QED
    BY <2>1 DEF AheadInv, Consuming
<1>2. WorkerInv /\ ScheduleInv /\ FlightInv /\ AheadInv /\ [Next]_vars => AheadInv'
  BY AheadStep
<1> QED
  BY <1>1, <1>2, LostInvariance, PTL DEF Spec

(* Nothing is committed, or asked to be, beyond a message that the handler *)
(* holds or a job judges, in whichever order jobs end and commits arrive   *)
(* and however many restarts there are, until a rejoin delivers it again.  *)
THEOREM WorkerCommitsBehindJobs ==
  Spec => [](rebalances = 0 =>
                 \A m \in Message : Handled(m) => NotPast(m.partition, m.offset))
<1>1. ASSUME WorkerInv, FlightInv, AheadInv, rebalances = 0,
             NEW m \in Message, Handled(m)
      PROVE  NotPast(m.partition, m.offset)
  <2>1. m # Idle /\ m.partition \in Partition
    BY <1>1, HandlerIsMessage
  <2>2. m.offset \in inFlight[m.partition]
    BY <1>1, <2>1 DEF Handled, FlightInv, AheadInv
  <2> QED
    BY <1>1, <2>1, <2>2 DEF AheadInv
<1>2. WorkerInv /\ FlightInv /\ AheadInv =>
          (rebalances = 0 =>
               \A m \in Message : Handled(m) => NotPast(m.partition, m.offset))
  BY <1>1
<1> QED
  BY <1>2, AheadInvariance, PTL

-----------------------------------------------------------------------------
(* In its first life, and until a rejoin, the consumer is delivered nothing*)
(* twice: what is finished is behind it and no longer in flight, and no    *)
(* join has passed over anything, because nothing is queued before the     *)
(* first.                                                                  *)
FirstLifeInv ==
    crashes = 0 /\ rebalances = 0 =>
        /\ ~ Consuming => \A p \in Partition : logEnd[p] = 0 /\ finished[p] = {}
        /\ \A p \in Partition :
               /\ skipped[p] = {}
               /\ finished[p] \intersect inFlight[p] = {}
               /\ \A o \in finished[p] : o < position[p]

LEMMA FirstLifeStep ==
  ASSUME WorkerInv, ScheduleInv, FirstLifeInv, [Next]_vars
  PROVE  FirstLifeInv'
<1> SUFFICES ASSUME crashes' = 0, rebalances' = 0
             PROVE  /\ ~ Consuming' =>
                           \A p \in Partition : logEnd'[p] = 0 /\ finished'[p] = {}
                    /\ \A p \in Partition :
                           /\ skipped'[p] = {}
                           /\ finished'[p] \intersect inFlight'[p] = {}
                           /\ \A o \in finished'[p] : o < position'[p]
  BY DEF FirstLifeInv
<1>0. crashes \in Nat /\ rebalances \in Nat
  BY WorkerManagerAssumption DEF ScheduleInv, RestTypeOK
<1>1. CASE StartConsumer
  <2>1. /\ ~ Consuming /\ Consuming' /\ Join
        /\ UNCHANGED <<inFlight, logEnd, finished, crashes, rebalances>>
    BY <1>1 DEF StartConsumer, Consuming, tracker, bounds
  <2>2. ASSUME NEW p \in Partition
        PROVE  skipped'[p] = {} /\ finished'[p] = {}
    <3>1. logEnd[p] = 0 /\ skipped[p] = {} /\ finished[p] = {}
      BY <2>1 DEF FirstLifeInv
    <3>2. skipped'[p] = skipped[p]
                        \/ skipped'[p] = skipped[p] \union ((0 .. logEnd[p] - 1) \ finished[p])
      BY <2>1 DEF Join
    <3>3. 0 .. logEnd[p] - 1 = {}
      BY <3>1
    <3> QED
      BY <2>1, <3>1, <3>2, <3>3
  <2> QED
    BY <2>1, <2>2
<1>2. CASE UNCHANGED <<inFlight, logEnd, finished, skipped, position, bounds>>
           /\ (Consuming => Consuming')
  BY <1>2 DEF FirstLifeInv, bounds
<1>3. ASSUME NEW p \in Partition, Publish(p)
      PROVE  /\ Consuming /\ Consuming'
             /\ UNCHANGED <<inFlight, finished, skipped, position, crashes, rebalances>>
  BY <1>3 DEF Publish, Consuming, tracker, manager, history, bounds
<1>4. ASSUME NEW p \in Partition, ReceiveMessage(p)
      PROVE  \A q \in Partition : finished'[q] \intersect inFlight'[q] = {}
  <2>1. /\ inFlight' = [inFlight EXCEPT ![p] = @ \union {position[p]}]
        /\ UNCHANGED <<finished, crashes, rebalances>>
    BY <1>4 DEF ReceiveMessage, Trk!Track, history, bounds
  <2>2. \A q \in Partition : position[q] \in Int /\ finished[q] \subseteq Int
    BY WorkerManagerAssumption DEF WorkerInv, CommitTypeOK, Offset
  <2>3. position[p] \notin finished[p]
    BY <2>1, <2>2 DEF FirstLifeInv
  <2> QED
    BY <2>1, <2>3, AheadTypes DEF FirstLifeInv
<1>5. ASSUME NEW p \in Partition, ReceiveMessage(p)
      PROVE  Consuming' /\ UNCHANGED <<finished, skipped, position, crashes, rebalances>>
  BY <1>5 DEF ReceiveMessage, Consuming, history, bounds
<1>6. ASSUME NEW h \in held, StartJob(h) \/ SkipEmpty(h)
      PROVE  /\ Consuming'
             /\ UNCHANGED <<inFlight, finished, skipped, crashes, rebalances>>
             /\ \A p \in Partition : \A o \in Int : o < position[p] => o < position'[p]
  <2>1. /\ h \in held \ running /\ h.task = handler
        /\ position' = [position EXCEPT ![handler.partition] = handler.offset + 1]
        /\ UNCHANGED <<inFlight, finished, skipped, crashes, rebalances, attempt>>
    BY <1>6 DEF StartJob, SkipEmpty, Granted, HandlerReturns, tracker, history, bounds
  <2>2. /\ handler # Idle /\ handler.partition \in Partition
        /\ handler.offset = position[handler.partition] /\ Consuming
    BY <2>1, HandlerIsMessage DEF ScheduleInv, OnceInv
  <2>3. \A p \in Partition : position[p] \in Int /\ position'[p] \in Int
                             /\ position[p] <= position'[p]
    BY <2>1, <2>2, AheadTypes DEF WorkerInv, CommitTypeOK
  <2> QED
    BY <2>1, <2>2, <2>3 DEF Consuming
<1>7. ASSUME NEW h \in running, FinishJob(h)
      PROVE  /\ Consuming' /\ UNCHANGED <<skipped, position, crashes, rebalances>>
             /\ \A p \in Partition : finished'[p] \intersect inFlight'[p] = {}
             /\ \A p \in Partition : \A o \in finished'[p] : o < position'[p]
  <2> DEFINE q == h.task.partition
             x == h.task.offset
  <2>1. /\ finished' = [finished EXCEPT ![q] = @ \union {x}]
        /\ inFlight' = [inFlight EXCEPT ![q] = @ \ {x}]
        /\ UNCHANGED <<skipped, position, crashes, rebalances, attempt>>
    BY <1>7 DEF FinishJob, CompleteAndCommit, Trk!Complete, bounds
  <2>2. Consuming /\ q \in Partition /\ x < position[q]
    BY <2>1, HandlerIsMessage DEF WorkerInv, CommitTypeOK, ScheduleInv, OnceInv
  <2> HIDE DEF q, x
  <2>3. \A p \in Partition :
            /\ finished'[p] = IF p = q THEN finished[p] \union {x} ELSE finished[p]
            /\ inFlight'[p] = IF p = q THEN inFlight[p] \ {x} ELSE inFlight[p]
    BY <2>1, AheadTypes DEF WorkerInv, CommitTypeOK
  <2> QED
    BY <2>1, <2>2, <2>3 DEF FirstLifeInv, Consuming
<1>8. ~ Rebalance /\ ~ Crash
  BY <1>0 DEF Rebalance, Crash, bounds
<1>9. StartFails \/ (\E r \in requests : CommitOffset(r) \/ CommitFails(r)) \/ UNCHANGED vars
      => /\ UNCHANGED <<inFlight, logEnd, finished, skipped, position, bounds>>
         /\ (Consuming => Consuming')
  BY DEF StartFails, CommitOffset, CommitFails, vars, tracker, manager, history, bounds,
         Consuming
<1>10. \A q \in Partition : finished[q] \subseteq Int
  BY WorkerManagerAssumption DEF WorkerInv, CommitTypeOK, Offset
<1>11. ASSUME NEW p \in Partition, Publish(p)
       PROVE  FirstLifeInv'
  BY <1>3, <1>11 DEF FirstLifeInv
<1>12. ASSUME NEW p \in Partition, ReceiveMessage(p)
       PROVE  FirstLifeInv'
  BY <1>4, <1>5, <1>12 DEF FirstLifeInv
<1>13. ASSUME NEW h \in held, StartJob(h) \/ SkipEmpty(h)
       PROVE  FirstLifeInv'
  BY <1>6, <1>10, <1>13 DEF FirstLifeInv
<1>14. ASSUME NEW h \in running, FinishJob(h)
       PROVE  FirstLifeInv'
  BY <1>7, <1>14 DEF FirstLifeInv
<1> QED
  BY <1>1, <1>2, <1>8, <1>9, <1>11, <1>12, <1>13, <1>14 DEF Next, FirstLifeInv

LEMMA FirstLifeInvariance == Spec => []FirstLifeInv
<1>1. Init => FirstLifeInv
  BY DEF Init, Trk!TrackerInit, FirstLifeInv
<1>2. WorkerInv /\ ScheduleInv /\ FirstLifeInv /\ [Next]_vars => FirstLifeInv'
  BY FirstLifeStep
<1> QED
  BY <1>1, <1>2, ScheduleInvariance, PTL DEF Spec

=============================================================================
