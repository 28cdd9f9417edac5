-------------------------- MODULE JudgeSystemProofs ---------------------------
(* The composition behaves as each of its two parts says, and what it      *)
(* commits is written, for every number of submissions, partitions, boxes, *)
(* crashes and rebalances.                                                 *)
EXTENDS JudgeSystem, WorkerManagerProofs, FiniteSetTheorems

(* Steps of the worker that no submission notices.                         *)
Unnoticed == UNCHANGED <<judge, log>> /\ UNCHANGED crashes

(* What a step of the system is, for the worker and for the submissions.   *)
LEMMA SystemStep ==
  ASSUME [SystemNext]_system
  PROVE  /\ [Next]_vars
         /\ Unnoticed \/ Life!Next
<1> USE DEF Unnoticed
<1>1. CASE UNCHANGED system
  BY <1>1 DEF system, vars, bounds
<1>2. ASSUME NEW s \in Submission, Store(s)
      PROVE  UNCHANGED vars /\ Life!Next
  BY <1>2 DEF Store, Life!Next
<1>3. ASSUME NEW s \in Submission, Send(s)
      PROVE  [Next]_vars /\ Life!Next
  <2>1. CASE \E p \in Partition :
                PublishSubmission(p, s) /\ (Life!SendMessage(s) \/ Life!SendFails(s))
    BY <2>1 DEF PublishSubmission, Next, Life!Next, Life!Handle
  <2>2. CASE UNCHANGED <<vars, log>> /\ Life!SendFails(s)
    BY <2>2 DEF Life!Next, Life!Handle
  <2> QED
    BY <1>3, <2>1, <2>2 DEF Send
<1>4. ASSUME NEW h \in held, StartJudging(h)
      PROVE  Next /\ Life!Next
  <2>1. PICK n \in 1 .. MaxDeliveries : Life!Deliver(SubmissionAt(h.task), n)
    BY <1>4 DEF StartJudging
  <2>2. SubmissionAt(h.task) \in Submission
    BY <2>1 DEF Life!Deliver, Queued
  <2> QED
    BY <1>4, <2>1, <2>2 DEF StartJudging, Next, Life!Next
<1>5. ASSUME NEW d \in Life!Delivery, Judge(d)
      PROVE  UNCHANGED vars /\ Life!Next
  BY <1>5 DEF Judge, Life!Next
<1>6. ASSUME NEW j \in judging, FinishJudging(j)
      PROVE  Next /\ Unnoticed
  BY <1>6 DEF FinishJudging, FinishJob, Next, bounds
<1>7. ASSUME NEW p \in Partition, Consume(p)
      PROVE  Next /\ Unnoticed
  BY <1>7 DEF Consume, ReceiveMessage, Next, bounds
<1>8. CASE Start
  BY <1>8 DEF Start, StartConsumer, Next, bounds
<1>9. CASE WorkerStep
  BY <1>9 DEF WorkerStep, StartFails, CommitOffset, CommitFails, Rebalance, Next, bounds
<1>10. CASE CrashAll
  BY <1>10 DEF CrashAll, Next, Life!Next
<1> QED
  BY <1>1, <1>2, <1>3, <1>4, <1>5, <1>6, <1>7, <1>8, <1>9, <1>10 DEF SystemNext

LEMMA UnnoticedStutters == Unnoticed => UNCHANGED Life!vars
BY DEF Unnoticed, judge, Life!vars, Queued

(* The worker of the system is the worker that was studied alone.          *)
THEOREM SystemRunsWorker == SystemSpec => Spec
<1>1. SystemInit => Init
  BY DEF SystemInit
<1>2. [SystemNext]_system => [Next]_vars
  BY SystemStep
<1> QED
  BY <1>1, <1>2, PTL DEF SystemSpec, Spec

(* Its submissions take the steps of the life that was studied alone: the  *)
(* worker delivers nothing that the at-least-once queue would not.         *)
THEOREM SystemRunsLife == SystemSpec => Life!Spec
<1>1. SystemInit => Life!Init
  BY DEF SystemInit
<1>2. [SystemNext]_system => [Life!Next]_(Life!vars)
  BY SystemStep, UnnoticedStutters
<1> QED
  BY <1>1, <1>2, PTL DEF SystemSpec, Life!Spec

-----------------------------------------------------------------------------
JudgedAt(p, o) == \E d \in Deliveries(log[p][o + 1]) : stage[d] \in Life!Ended

(* The log holds what the worker knows of it; a job judges the submission  *)
(* of its message; and what the worker calls finished has been judged.     *)
LogInv ==
    /\ log \in [Partition -> Seq(Submission)]
    /\ \A p \in Partition : Len(log[p]) = logEnd[p]
    /\ DOMAIN stage = Life!Delivery

JudgingInv ==
    \A j \in judging :
        /\ j.job.task \in Message
        /\ j.job.task.offset < logEnd[j.job.task.partition]
        /\ j.delivery \in Deliveries(SubmissionAt(j.job.task))

FinishedInv ==
    \A p \in Partition : \A o \in finished[p] : o < logEnd[p] /\ JudgedAt(p, o)

SystemInv == WorkerInv /\ LogInv /\ JudgingInv /\ FinishedInv

(* What is in the log stays where it is.                                   *)
LEMMA LogGrows ==
  ASSUME LogInv, CommitTypeOK, NEW p \in Partition, NEW s \in Submission,
         PublishSubmission(p, s)
  PROVE  /\ log' \in [Partition -> Seq(Submission)]
         /\ \A q \in Partition : Len(log'[q]) = logEnd'[q] /\ logEnd[q] <= logEnd'[q]
         /\ \A q \in Partition : \A o \in Offset :
                o < logEnd[q] => log'[q][o + 1] = log[q][o + 1]
<1> USE WorkerManagerAssumption
    DEF LogInv, CommitTypeOK, PublishSubmission, Publish, Offset
<1>1. log' = [log EXCEPT ![p] = Append(@, s)] /\ logEnd' = [logEnd EXCEPT ![p] = @ + 1]
  OBVIOUS
<1>2. log[p] \in Seq(Submission) /\ Append(log[p], s) \in Seq(Submission)
  OBVIOUS
<1>3. Len(Append(log[p], s)) = Len(log[p]) + 1
  BY <1>2
<1>4. \A i \in 1 .. Len(log[p]) : Append(log[p], s)[i] = log[p][i]
  BY <1>2
<1>5. log' \in [Partition -> Seq(Submission)]
  BY <1>1, <1>2
<1>6. ASSUME NEW q \in Partition
      PROVE  /\ Len(log'[q]) = logEnd'[q] /\ logEnd[q] <= logEnd'[q]
             /\ \A o \in Offset : o < logEnd[q] => log'[q][o + 1] = log[q][o + 1]
  <2>1. CASE q # p
    BY <1>1, <2>1
  <2>2. CASE q = p
    <3>1. log'[p] = Append(log[p], s) /\ logEnd'[p] = logEnd[p] + 1
      BY <1>1
    <3>2. \A o \in Offset : o < logEnd[p] => o + 1 \in 1 .. Len(log[p])
      OBVIOUS
    <3> QED
      BY <1>3, <1>4, <2>2, <3>1, <3>2
  <2> QED
    BY <2>1, <2>2
<1> QED
  BY <1>5, <1>6

(* A delivery that has ended stays so.                                     *)
LEMMA EndedForGood ==
  ASSUME LogInv, Life!Next \/ Unnoticed
  PROVE  /\ DOMAIN stage' = Life!Delivery
         /\ \A d \in Life!Delivery : stage[d] \in Life!Ended => stage'[d] \in Life!Ended
<1> USE DEF LogInv, Life!Ended
<1>1. CASE Unnoticed
  BY <1>1 DEF Unnoticed, judge
<1>2. CASE Life!Crash
  BY <1>2 DEF Life!Crash, Life!Judging
<1>3. ASSUME NEW s \in Submission,
             Life!StoreSubmission(s) \/ Life!RefuseSubmission(s) \/ Life!Handle(s)
      PROVE  stage' = stage
  BY <1>3 DEF Life!StoreSubmission, Life!RefuseSubmission, Life!Handle,
              Life!SendMessage, Life!SendFails, Life!judge
<1>4. ASSUME NEW s \in Submission, NEW n \in 1 .. MaxDeliveries, Life!Deliver(s, n)
      PROVE  stage[<<s, n>>] = "none" /\ stage' = [stage EXCEPT ![<<s, n>>] = "load"]
  BY <1>4 DEF Life!Deliver, Life!Goto
<1>5. ASSUME NEW d \in Life!Delivery, Life!Judge(d)
      PROVE  /\ stage[d] \in {"load", "execute", "update", "insert"}
             /\ \E where : stage' = [stage EXCEPT ![d] = where]
  BY <1>5 DEF Life!Judge, Life!Load, Life!Execute, Life!Update, Life!UpdateRefused,
              Life!InsertResults, Life!JudgeFails, Life!Goto
<1> QED
  BY <1>1, <1>2, <1>3, <1>4, <1>5 DEF Life!Next

LEMMA SystemInitInv == SystemInit => SystemInv
<1> SUFFICES ASSUME SystemInit
             PROVE  SystemInv
  OBVIOUS
<1>1. WorkerInv
  BY WorkerInitInv DEF SystemInit
<1>2. LogInv
  BY DEF SystemInit, Init, LogInv, Life!Init
<1>3. JudgingInv /\ FinishedInv
  BY DEF SystemInit, Init, JudgingInv, FinishedInv
<1> QED
  BY <1>1, <1>2, <1>3 DEF SystemInv

(* The log as the next state has it: as before, but for what was appended. *)
LEMMA StepLog ==
  ASSUME SystemInv, [SystemNext]_system
  PROVE  /\ LogInv'
         /\ \A q \in Partition : logEnd[q] <= logEnd'[q]
         /\ \A q \in Partition : \A o \in Offset :
                o < logEnd[q] => log'[q][o + 1] = log[q][o + 1]
<1> USE DEF SystemInv, WorkerInv
<1>1. DOMAIN stage' = Life!Delivery
  BY SystemStep, EndedForGood
<1>2. ASSUME NEW p \in Partition, NEW s \in Submission, PublishSubmission(p, s)
      PROVE  /\ log' \in [Partition -> Seq(Submission)]
             /\ \A q \in Partition : Len(log'[q]) = logEnd'[q] /\ logEnd[q] <= logEnd'[q]
             /\ \A q \in Partition : \A o \in Offset :
                    o < logEnd[q] => log'[q][o + 1] = log[q][o + 1]
  BY <1>2, LogGrows
<1>3. CASE UNCHANGED <<log, logEnd>>
  <2>1. \A q \in Partition : logEnd[q] \in Nat
    BY WorkerManagerAssumption DEF CommitTypeOK
  <2> QED
    BY <1>1, <1>3, <2>1 DEF LogInv
<1>4. \/ UNCHANGED <<log, logEnd>>
      \/ \E p \in Partition : \E s \in Submission : PublishSubmission(p, s)
  <2>1. CASE UNCHANGED system
    BY <2>1 DEF system, vars
  <2>2. ASSUME NEW s \in Submission, Store(s) \/ Send(s)
        PROVE  UNCHANGED <<log, logEnd>> \/ \E p \in Partition : PublishSubmission(p, s)
    BY <2>2 DEF Store, Send, vars
  <2>3. ASSUME NEW h \in held, StartJudging(h)
        PROVE  UNCHANGED <<log, logEnd>>
    BY <2>3 DEF StartJudging, StartJob, HandlerReturns
  <2>4. ASSUME NEW d \in Life!Delivery, Judge(d)
        PROVE  UNCHANGED <<log, logEnd>>
    BY <2>4 DEF Judge, vars
  <2>5. ASSUME NEW j \in judging, FinishJudging(j)
        PROVE  UNCHANGED <<log, logEnd>>
    BY <2>5 DEF FinishJudging, FinishJob
  <2>6. ASSUME NEW p \in Partition, Consume(p)
        PROVE  UNCHANGED <<log, logEnd>>
    BY <2>6 DEF Consume, ReceiveMessage
  <2>7. CASE Start \/ WorkerStep \/ CrashAll
    BY <2>7 DEF Start, StartConsumer, WorkerStep, StartFails, CommitOffset, CommitFails,
                Rebalance, CrashAll, Crash
  <2> QED
    BY <2>1, <2>2, <2>3, <2>4, <2>5, <2>6, <2>7 DEF SystemNext
<1> QED
  BY <1>1, <1>2, <1>3, <1>4 DEF LogInv

(* What had been judged still has.                                         *)
LEMMA JudgedForGood ==
  ASSUME SystemInv, [SystemNext]_system,
         NEW p \in Partition, NEW o \in Offset, o < logEnd[p], JudgedAt(p, o)
  PROVE  JudgedAt(p, o)'
<1>1. log'[p][o + 1] = log[p][o + 1]
  BY StepLog
<1>2. \A d \in Life!Delivery : stage[d] \in Life!Ended => stage'[d] \in Life!Ended
  BY SystemStep, EndedForGood DEF SystemInv
<1> QED
  BY <1>1, <1>2 DEF JudgedAt, Deliveries

(* Only the end of its call of judgeSubmission makes an offset finished.   *)
LEMMA StepFinished ==
  ASSUME SystemInv, [SystemNext]_system
  PROVE  \/ finished' = finished
         \/ \E j \in judging :
               LET m == j.job.task IN
               /\ stage[j.delivery] \in Life!Ended
               /\ UNCHANGED <<stage, log>>
               /\ finished' = [finished EXCEPT ![m.partition] = @ \union {m.offset}]
<1>1. CASE UNCHANGED system
  BY <1>1 DEF system, vars, history
<1>2. ASSUME NEW s \in Submission, Store(s) \/ Send(s)
      PROVE  finished' = finished
  BY <1>2 DEF Store, Send, PublishSubmission, Publish, vars, history
<1>3. ASSUME NEW h \in held, StartJudging(h)
      PROVE  finished' = finished
  BY <1>3 DEF StartJudging, StartJob, HandlerReturns, history
<1>4. ASSUME NEW d \in Life!Delivery, Judge(d)
      PROVE  finished' = finished
  BY <1>4 DEF Judge, vars, history
<1>5. ASSUME NEW j \in judging, FinishJudging(j)
      PROVE  /\ stage[j.delivery] \in Life!Ended
             /\ UNCHANGED <<stage, log>>
             /\ finished' = [finished EXCEPT ![j.job.task.partition] =
                                                 @ \union {j.job.task.offset}]
  BY <1>5 DEF FinishJudging, FinishJob, judge
<1>6. ASSUME NEW p \in Partition, Consume(p)
      PROVE  finished' = finished
  BY <1>6 DEF Consume, ReceiveMessage, history
<1>7. CASE Start \/ WorkerStep \/ CrashAll
  BY <1>7 DEF Start, StartConsumer, WorkerStep, StartFails, CommitOffset, CommitFails,
              Rebalance, CrashAll, Crash, history
<1> QED
  BY <1>1, <1>2, <1>3, <1>4, <1>5, <1>6, <1>7 DEF SystemNext

LEMMA FinishedStepInv ==
  ASSUME SystemInv, [SystemNext]_system
  PROVE  FinishedInv'
<1> USE DEF SystemInv
<1>1. SUFFICES ASSUME NEW p \in Partition, NEW o \in finished'[p]
               PROVE  o < logEnd'[p] /\ JudgedAt(p, o)'
  BY DEF FinishedInv
<1>2. logEnd[p] \in Nat /\ logEnd'[p] \in Nat /\ logEnd[p] <= logEnd'[p]
  <2>1. CommitTypeOK' /\ CommitTypeOK
    BY SystemStep, WorkerStepInv DEF WorkerInv
  <2> QED
    BY <2>1, StepLog, WorkerManagerAssumption DEF CommitTypeOK
<1>3. ASSUME o \in finished[p]
      PROVE  o < logEnd'[p] /\ JudgedAt(p, o)'
  <2>1. o \in Offset /\ o \in Nat
    BY <1>3, WorkerManagerAssumption DEF WorkerInv, CommitTypeOK, Offset
  <2>2. o < logEnd[p] /\ JudgedAt(p, o)
    BY <1>3 DEF FinishedInv
  <2> QED
    BY <1>2, <2>1, <2>2, JudgedForGood
<1>4. ASSUME NEW j \in judging,
             stage[j.delivery] \in Life!Ended, UNCHANGED <<stage, log>>,
             p = j.job.task.partition, o = j.job.task.offset
      PROVE  o < logEnd'[p] /\ JudgedAt(p, o)'
  <2>1. /\ j.job.task \in Message /\ o < logEnd[p]
        /\ j.delivery \in Deliveries(log[p][o + 1])
    BY <1>4 DEF JudgingInv, SubmissionAt
  <2>2. o \in Nat
    BY <1>4, <2>1, WorkerManagerAssumption DEF Message, Offset
  <2>3. o < logEnd'[p]
    BY <1>2, <2>1, <2>2
  <2>4. JudgedAt(p, o)'
    BY <1>4, <2>1 DEF JudgedAt, Deliveries
  <2> QED
    BY <2>3, <2>4
<1> QED
  <2>1. \A q \in Partition : finished[q] \in SUBSET Offset
    BY DEF WorkerInv, CommitTypeOK
  <2>2. finished \in [Partition -> SUBSET Offset]
    BY DEF WorkerInv, CommitTypeOK
  <2> QED
    BY <1>1, <1>3, <1>4, <2>2, StepFinished

(* A job judges the submission its message carries, whatever is appended.  *)
LEMMA StepJudging ==
  ASSUME SystemInv, [SystemNext]_system
  PROVE  \/ judging' \subseteq judging
         \/ \E h \in held : \E n \in 1 .. MaxDeliveries :
               /\ SubmissionAt(h.task) \in Submission
               /\ judging' = judging \union
                     {[job |-> h, delivery |-> <<SubmissionAt(h.task), n>>]}
<1>1. CASE UNCHANGED system
  BY <1>1 DEF system
<1>2. ASSUME NEW s \in Submission, Store(s) \/ Send(s)
      PROVE  judging' \subseteq judging
  BY <1>2 DEF Store, Send
<1>3. ASSUME NEW h \in held, StartJudging(h)
      PROVE  \E n \in 1 .. MaxDeliveries :
               /\ SubmissionAt(h.task) \in Submission
               /\ judging' = judging \union
                     {[job |-> h, delivery |-> <<SubmissionAt(h.task), n>>]}
  BY <1>3 DEF StartJudging, Life!Deliver, Queued
<1>4. ASSUME NEW d \in Life!Delivery, Judge(d)
      PROVE  judging' \subseteq judging
  BY <1>4 DEF Judge
<1>5. ASSUME NEW j \in judging, FinishJudging(j)
      PROVE  judging' \subseteq judging
  BY <1>5 DEF FinishJudging
<1>6. ASSUME NEW p \in Partition, Consume(p)
      PROVE  judging' \subseteq judging
  BY <1>6 DEF Consume
<1>7. CASE Start \/ WorkerStep \/ CrashAll
  BY <1>7 DEF Start, WorkerStep, CrashAll
<1> QED
  BY <1>1, <1>2, <1>3, <1>4, <1>5, <1>6, <1>7 DEF SystemNext

LEMMA JudgingStepInv ==
  ASSUME SystemInv, [SystemNext]_system
  PROVE  JudgingInv'
<1> USE DEF SystemInv
<1>1. ASSUME NEW j, j.job.task \in Message,
             j.job.task.offset < logEnd[j.job.task.partition],
             j.delivery \in Deliveries(SubmissionAt(j.job.task))
      PROVE  /\ j.job.task.offset < logEnd'[j.job.task.partition]
             /\ j.delivery \in Deliveries(SubmissionAt(j.job.task))'
  <2> DEFINE m == j.job.task
  <2>1. m.partition \in Partition /\ m.offset \in Offset /\ m.offset \in Nat
    BY <1>1, WorkerManagerAssumption DEF Message, Offset
  <2>2. logEnd[m.partition] \in Nat /\ logEnd'[m.partition] \in Nat
    <3>1. CommitTypeOK' /\ CommitTypeOK
      BY SystemStep, WorkerStepInv DEF WorkerInv
    <3> QED
      BY <2>1, <3>1, WorkerManagerAssumption DEF CommitTypeOK
  <2>3. /\ logEnd[m.partition] <= logEnd'[m.partition]
        /\ log'[m.partition][m.offset + 1] = log[m.partition][m.offset + 1]
    BY <1>1, <2>1, StepLog
  <2>4. m.offset < logEnd'[m.partition]
    BY <1>1, <2>1, <2>2, <2>3
  <2>5. j.delivery \in Deliveries(SubmissionAt(m))'
    BY <1>1, <2>3 DEF SubmissionAt, Deliveries
  <2> QED
    BY <2>4, <2>5
<1>2. ASSUME NEW h \in held, NEW n \in 1 .. MaxDeliveries,
             SubmissionAt(h.task) \in Submission
      PROVE  /\ h.task \in Message
             /\ h.task.offset < logEnd[h.task.partition]
             /\ <<SubmissionAt(h.task), n>> \in Deliveries(SubmissionAt(h.task))
  BY <1>2 DEF WorkerInv, CommitTypeOK, CommitInv, LiveMessages, Deliveries, Life!Delivery
<1> QED
  BY <1>1, <1>2, StepJudging DEF JudgingInv

LEMMA SystemStepInv == SystemInv /\ [SystemNext]_system => SystemInv'
<1> SUFFICES ASSUME SystemInv, [SystemNext]_system
             PROVE  SystemInv'
  OBVIOUS
<1>1. WorkerInv'
  BY SystemStep, WorkerStepInv DEF SystemInv
<1> QED
  BY <1>1, StepLog, JudgingStepInv, FinishedStepInv DEF SystemInv

LEMMA SystemInvariance == SystemSpec => []SystemInv
<1> QED
  BY SystemInitInv, SystemStepInv, PTL DEF SystemSpec

-----------------------------------------------------------------------------
(* A delivery inserts its rows as it ends, and none ends twice.            *)
EndedOf(s) == {n \in 1 .. MaxDeliveries : stage[<<s, n>>] = "ended"}

CountInv ==
    /\ DOMAIN resultRows = Submission
    /\ \A s \in Submission :
           /\ \E T : resultRows[s] \in Seq(T)
           /\ Len(resultRows[s]) = Cardinality(EndedOf(s))

(* A submission is sent once, and delivered only when it has been.         *)
SentInv ==
    /\ \A p, q \in Partition : \A i \in DOMAIN log[p], j \in DOMAIN log[q] :
           log[p][i] = log[q][j] => p = q /\ i = j
    /\ DOMAIN request = Submission
    /\ \A s \in Queued : request[s] \notin {"new", "stored"}
    /\ \A s \in Submission : \A n \in 1 .. MaxDeliveries :
           stage[<<s, n>>] # "none" => s \in Queued

(* Each crash and each rebalance lets the consumer go back over a message  *)
(* once; besides that a message is delivered when the position passes it.  *)
Passed(s) ==
    /\ Consuming
    /\ \A p \in Partition : \A i \in DOMAIN log[p] : log[p][i] = s => i <= position[p]

TurnInv ==
    \A s \in Submission : \A n \in 1 .. MaxDeliveries : stage[<<s, n>>] # "none" =>
        \/ n <= crashes + rebalances
        \/ n = crashes + rebalances + 1 /\ Passed(s)

DeliveryInv == CountInv /\ SentInv /\ TurnInv

LEMMA DeliveryInit == SystemInit => DeliveryInv
<1> SUFFICES ASSUME SystemInit
             PROVE  DeliveryInv
  OBVIOUS
<1> USE DEF SystemInit, Init, Life!Init
<1>1. \A s \in Submission : \A n \in 1 .. MaxDeliveries : stage[<<s, n>>] = "none"
  BY DEF Life!Delivery
<1>2. \A s \in Submission : EndedOf(s) = {}
  BY <1>1 DEF EndedOf
<1>3. CountInv
  <2>1. <<>> \in Seq({}) /\ Len(<<>>) = 0
    OBVIOUS
  <2>2. DOMAIN resultRows = Submission /\ \A s \in Submission : resultRows[s] = <<>>
    OBVIOUS
  <2> QED
    BY ONLY <1>2, <2>1, <2>2, FS_EmptySet DEF CountInv
<1>4. SentInv
  BY <1>1 DEF SentInv, Queued
<1>5. TurnInv
  BY <1>1 DEF TurnInv
<1> QED
  BY <1>3, <1>4, <1>5 DEF DeliveryInv

(* A step of a delivery inserts rows and ends it, or does neither.         *)
LEMMA StepCount ==
  ASSUME LogInv, CountInv, Life!Next \/ Unnoticed
  PROVE  CountInv'
<1> USE DEF CountInv
<1>1. ASSUME UNCHANGED resultRows, \A s \in Submission : EndedOf(s)' = EndedOf(s)
      PROVE  CountInv'
  BY <1>1
<1>2. CASE Unnoticed
  BY <1>1, <1>2 DEF Unnoticed, judge, EndedOf
<1>3. CASE Life!Crash
  BY <1>1, <1>3 DEF Life!Crash, Life!Judging, Life!Delivery, EndedOf
<1>4. ASSUME NEW s \in Submission,
             Life!StoreSubmission(s) \/ Life!RefuseSubmission(s) \/ Life!Handle(s)
      PROVE  CountInv'
  BY <1>1, <1>4 DEF Life!StoreSubmission, Life!RefuseSubmission, Life!Handle,
              Life!SendMessage, Life!SendFails, Life!judge, EndedOf
<1>5. ASSUME NEW d \in Life!Delivery, NEW where \in {"load", "execute", "update",
                                                     "insert", "failed", "torn"},
             stage[d] # "ended", stage' = [stage EXCEPT ![d] = where],
             UNCHANGED resultRows
      PROVE  CountInv'
  BY <1>1, <1>5 DEF LogInv, Life!Delivery, EndedOf
<1>6. ASSUME NEW s \in Submission, NEW n \in 1 .. MaxDeliveries, Life!Deliver(s, n)
      PROVE  CountInv'
  BY <1>5, <1>6 DEF Life!Deliver, Life!Goto, Life!Delivery
<1>7. ASSUME NEW d \in Life!Delivery, Life!Judge(d), ~ Life!InsertResults(d)
      PROVE  CountInv'
  <2>1. Life!Load(d) => CountInv'
    BY <1>5 DEF Life!Load, Life!Goto
  <2>2. Life!Execute(d) => CountInv'
    BY <1>5 DEF Life!Execute, Life!Goto
  <2>3. Life!Update(d) \/ Life!UpdateRefused(d) => CountInv'
    BY <1>5 DEF Life!Update, Life!UpdateRefused, Life!Goto
  <2>4. Life!JudgeFails(d) => CountInv'
    BY <1>5 DEF Life!JudgeFails, Life!Goto
  <2> QED
    BY <1>7, <2>1, <2>2, <2>3, <2>4 DEF Life!Judge
<1>8. ASSUME NEW d \in Life!Delivery, Life!InsertResults(d)
      PROVE  CountInv'
  <2>1. PICK s \in Submission, n \in 1 .. MaxDeliveries : d = <<s, n>>
    BY DEF Life!Delivery
  <2> DEFINE rows == Life!Verdicts(d)
  <2>2. /\ stage[d] = "insert"
        /\ stage' = [stage EXCEPT ![d] = "ended"]
        /\ resultRows' = [resultRows EXCEPT ![s] = Append(@, rows)]
    BY <1>8, <2>1 DEF Life!InsertResults, Life!Goto
  <2> HIDE DEF rows
  <2>3. \A t \in Submission \ {s} : EndedOf(t)' = EndedOf(t)
                                    /\ resultRows'[t] = resultRows[t]
    BY <2>1, <2>2 DEF LogInv, EndedOf, Life!Delivery
  <2>4. EndedOf(s)' = EndedOf(s) \union {n} /\ n \notin EndedOf(s)
    BY <2>1, <2>2 DEF LogInv, EndedOf, Life!Delivery
  <2>5. Cardinality(EndedOf(s)') = Cardinality(EndedOf(s)) + 1
    <3>1. IsFiniteSet(1 .. MaxDeliveries)
      BY FS_Interval, WorkerManagerAssumption DEF MaxDeliveries
    <3>2. IsFiniteSet(EndedOf(s))
      BY <3>1, FS_Subset DEF EndedOf
    <3> QED
      BY <2>4, <3>2, FS_AddElement
  <2>6. PICK T : resultRows[s] \in Seq(T)
    OBVIOUS
  <2> DEFINE U == T \union {rows}
  <2>7. resultRows[s] \in Seq(U) /\ rows \in U
    BY <2>6
  <2>8. Append(resultRows[s], rows) \in Seq(U)
        /\ Len(Append(resultRows[s], rows)) = Len(resultRows[s]) + 1
    BY <2>7
  <2> HIDE DEF U
  <2>9. resultRows'[s] = Append(resultRows[s], rows)
        /\ DOMAIN resultRows' = Submission
    BY <2>2
  <2> QED
    BY <2>3, <2>5, <2>8, <2>9
<1> QED
  BY <1>2, <1>3, <1>4, <1>6, <1>7, <1>8 DEF Life!Next

(* What a step does to the log, the requests and the deliveries begun.     *)
LEMMA StepBegun ==
  ASSUME LogInv, [SystemNext]_system
  PROVE  \/ \E h \in held : StartJudging(h)
         \/ \A d \in Life!Delivery : stage[d] = "none" <=> stage'[d] = "none"
<1> USE DEF LogInv
<1>1. ASSUME stage' = stage
      PROVE  \A d \in Life!Delivery : stage[d] = "none" <=> stage'[d] = "none"
  BY <1>1
<1>2. ASSUME NEW d \in Life!Delivery, Judge(d)
      PROVE  \A e \in Life!Delivery : stage[e] = "none" <=> stage'[e] = "none"
  <2>1. /\ stage[d] \in {"load", "execute", "update", "insert"}
        /\ \E where \in {"load", "execute", "update", "insert", "failed", "torn", "ended"} :
              stage' = [stage EXCEPT ![d] = where]
    BY <1>2 DEF Judge, Life!Judge, Life!Load, Life!Execute, Life!Update,
                Life!UpdateRefused, Life!InsertResults, Life!JudgeFails, Life!Goto
  <2> QED
    BY <2>1
<1>3. ASSUME NEW s \in Submission, Store(s) \/ Send(s)
      PROVE  stage' = stage
  BY <1>3 DEF Store, Send, Life!StoreSubmission, Life!RefuseSubmission,
              Life!SendMessage, Life!SendFails, Life!judge
<1>4. CASE CrashAll
  BY <1>4 DEF CrashAll, Life!Crash, Life!Judging
<1>5. ASSUME NEW j \in judging, FinishJudging(j)
      PROVE  stage' = stage
  BY <1>5 DEF FinishJudging, judge
<1>6. ASSUME NEW p \in Partition, Consume(p)
      PROVE  stage' = stage
  BY <1>6 DEF Consume, judge
<1>7. CASE Start \/ WorkerStep \/ UNCHANGED system
  BY <1>1, <1>7 DEF Start, WorkerStep, system, judge
<1> QED
  BY <1>1, <1>2, <1>3, <1>4, <1>5, <1>6, <1>7 DEF SystemNext

(* A submission that is sent was not in the log, and is not sent again.    *)
LEMMA StepSent ==
  ASSUME LogInv, CommitTypeOK, SentInv, [SystemNext]_system
  PROVE  SentInv'
<1> USE DEF LogInv
<1>1. ASSUME NEW p \in Partition, NEW s \in Submission, PublishSubmission(p, s),
             request[s] = "stored", request'[s] \notin {"new", "stored"},
             DOMAIN request' = Submission,
             \A t \in Submission \ {s} : request'[t] = request[t],
             UNCHANGED stage
      PROVE  SentInv'
  <2> DEFINE end == Len(log[p]) + 1
  <2>1. /\ s \notin Queued
        /\ log' = [log EXCEPT ![p] = Append(@, s)]
        /\ log[p] \in Seq(Submission)
    BY <1>1 DEF SentInv, PublishSubmission
  <2>2. /\ log'[p] = Append(log[p], s)
        /\ \A q \in Partition \ {p} : log'[q] = log[q]
    BY <2>1
  <2>3. /\ DOMAIN log'[p] = DOMAIN log[p] \union {end}
        /\ log'[p][end] = s
        /\ end \notin DOMAIN log[p]
        /\ \A i \in DOMAIN log[p] : log'[p][i] = log[p][i]
    <3>1. \A i \in 1 .. Len(log[p]) : Append(log[p], s)[i] = log[p][i]
      BY <2>1
    <3>2. /\ DOMAIN log[p] = 1 .. Len(log[p]) /\ Len(log[p]) \in Nat
          /\ DOMAIN Append(log[p], s) = 1 .. end
          /\ Append(log[p], s)[end] = s
      BY <2>1
    <3>3. log'[p] = Append(log[p], s)
      BY <2>2
    <3>4. 1 .. end = (1 .. Len(log[p])) \union {end} /\ end \notin 1 .. Len(log[p])
      BY <3>2
    <3> QED
      BY <3>1, <3>2, <3>3, <3>4
  <2> HIDE DEF end
  <2>4. \A q \in Partition : \A i \in DOMAIN log'[q] :
            \/ i \in DOMAIN log[q] /\ log'[q][i] = log[q][i] /\ log[q][i] # s
            \/ q = p /\ i = end /\ log'[q][i] = s
    BY <2>1, <2>2, <2>3 DEF Queued
  <2>5. Queued' = Queued \union {s}
    <3>1. s \in Submission /\ s \in Queued'
      BY <2>3 DEF Queued
    <3>2. ASSUME NEW q \in Partition, NEW i \in DOMAIN log[q]
          PROVE  i \in DOMAIN log'[q] /\ log'[q][i] = log[q][i]
      BY <2>2, <2>3
    <3>3. Queued' \subseteq Queued \union {s}
      BY <2>4 DEF Queued
    <3>4. Queued \subseteq Queued'
      BY ONLY <3>2 DEF Queued
    <3> QED
      BY ONLY <3>1, <3>3, <3>4
  <2>6. \A q, r \in Partition : \A i \in DOMAIN log'[q], j \in DOMAIN log'[r] :
            log'[q][i] = log'[r][j] => q = r /\ i = j
    <3>1. \A q, r \in Partition : \A i \in DOMAIN log[q], j \in DOMAIN log[r] :
              log[q][i] = log[r][j] => q = r /\ i = j
      BY DEF SentInv
    <3> QED
      BY ONLY <2>4, <3>1
  <2>7. \A t \in Queued' : request'[t] \notin {"new", "stored"}
    BY <1>1, <2>5 DEF SentInv, Queued
  <2> QED
    BY <1>1, <2>5, <2>6, <2>7 DEF SentInv
<1>2. ASSUME UNCHANGED log,
             DOMAIN request' = Submission,
             \A t \in Submission : \/ request'[t] = request[t]
                                   \/ request[t] \in {"new", "stored"}
                                   \/ request'[t] \notin {"new", "stored"},
             \A t \in Submission : \A n \in 1 .. MaxDeliveries :
                stage'[<<t, n>>] # "none" => stage[<<t, n>>] # "none" \/ t \in Queued
      PROVE  SentInv'
  BY <1>2 DEF SentInv, Queued
<1>3. ASSUME NEW h \in held, StartJudging(h)
      PROVE  SentInv'
  <2>1. PICK n \in 1 .. MaxDeliveries : Life!Deliver(SubmissionAt(h.task), n)
    BY <1>3 DEF StartJudging
  <2>2. /\ SubmissionAt(h.task) \in Queued
        /\ stage' = [stage EXCEPT ![<<SubmissionAt(h.task), n>>] = "load"]
        /\ UNCHANGED request
    BY <2>1 DEF Life!Deliver, Life!Goto, Life!handlers
  <2>3. UNCHANGED log
    BY <1>3 DEF StartJudging
  <2> QED
    BY <1>2, <2>2, <2>3 DEF SentInv, Life!Delivery
<1>4. ASSUME NEW s \in Submission, Send(s)
      PROVE  SentInv'
  <2>1. /\ request[s] = "stored"
        /\ \E w \in {"acknowledged", "failed"} : request' = [request EXCEPT ![s] = w]
        /\ UNCHANGED stage
    BY <1>4 DEF Send, Life!SendMessage, Life!SendFails, Life!judge
  <2>2. /\ DOMAIN request' = Submission
        /\ request'[s] \notin {"new", "stored"}
        /\ \A t \in Submission \ {s} : request'[t] = request[t]
    BY <2>1 DEF SentInv
  <2> QED
    BY <1>1, <1>2, <1>4, <2>1, <2>2 DEF Send
<1>5. \/ \E h \in held : StartJudging(h)
      \/ \A d \in Life!Delivery : stage[d] = "none" <=> stage'[d] = "none"
  BY StepBegun
<1>6. ASSUME UNCHANGED <<log, request>>,
             \A d \in Life!Delivery : stage[d] = "none" <=> stage'[d] = "none"
      PROVE  SentInv'
  BY <1>6, <1>2 DEF SentInv, Life!Delivery
<1>7. ASSUME NEW s \in Submission, Store(s)
      PROVE  SentInv'
  <2>1. /\ request[s] = "new"
        /\ \E w : request' = [request EXCEPT ![s] = w]
        /\ UNCHANGED <<stage, log>>
    BY <1>7 DEF Store, Life!StoreSubmission, Life!RefuseSubmission, Life!judge
  <2>2. /\ DOMAIN request' = Submission
        /\ \A t \in Submission \ {s} : request'[t] = request[t]
    BY <2>1 DEF SentInv
  <2> QED
    BY <1>2, <2>1, <2>2
<1>8. CASE CrashAll
  <2>1. /\ UNCHANGED log
        /\ request' = [s \in Submission |->
                          IF request[s] = "stored" THEN "failed" ELSE request[s]]
        /\ stage' = [d \in Life!Delivery |->
                        IF stage[d] \in Life!Judging THEN "lost" ELSE stage[d]]
    BY <1>8 DEF CrashAll, Life!Crash
  <2>2. \A t \in Submission : \A n \in 1 .. MaxDeliveries :
            stage'[<<t, n>>] # "none" => stage[<<t, n>>] # "none"
    BY <2>1 DEF Life!Delivery, Life!Judging
  <2> QED
    BY <1>2, <2>1, <2>2
<1>9. ASSUME NEW d \in Life!Delivery, Judge(d)
      PROVE  UNCHANGED <<log, request>>
  BY <1>9 DEF Judge, Life!Judge, Life!Load, Life!Execute, Life!Update,
              Life!UpdateRefused, Life!InsertResults, Life!JudgeFails, Life!handlers
<1>10. ASSUME NEW j \in judging, FinishJudging(j)
      PROVE  UNCHANGED <<log, request>>
  BY <1>10 DEF FinishJudging, judge
<1>11. ASSUME NEW p \in Partition, Consume(p)
      PROVE  UNCHANGED <<log, request>>
  BY <1>11 DEF Consume, judge
<1>12. CASE Start \/ WorkerStep \/ UNCHANGED system
  BY <1>5, <1>6, <1>12, <1>3 DEF Start, WorkerStep, system, judge
<1> QED
  BY <1>3, <1>4, <1>5, <1>6, <1>7, <1>8, <1>9, <1>10, <1>11, <1>12 DEF SystemNext

(* What a step that delivers nothing does to the turns.                    *)
LEMMA StepTurns ==
  ASSUME [SystemNext]_system
  PROVE  \/ UNCHANGED <<log, position, attempt, crashes, rebalances>>
         \/ \E h \in held : StartJudging(h)
         \/ \E p \in Partition, s \in Submission :
               /\ PublishSubmission(p, s) /\ request[s] = "stored"
               /\ UNCHANGED <<position, attempt, crashes, rebalances>>
         \/ ~ Consuming /\ UNCHANGED <<log, crashes, rebalances>>
         \/ crashes' = crashes + 1 /\ rebalances' = rebalances
         \/ crashes' = crashes /\ rebalances' = rebalances + 1
<1>1. CASE UNCHANGED system
  BY <1>1 DEF system, vars, bounds, manager
<1>2. ASSUME NEW s \in Submission, Store(s)
      PROVE  UNCHANGED <<log, position, attempt, crashes, rebalances>>
  BY <1>2 DEF Store, vars, bounds, manager
<1>3. ASSUME NEW s \in Submission, Send(s)
      PROVE  \/ UNCHANGED <<log, position, attempt, crashes, rebalances>>
             \/ \E p \in Partition :
                   /\ PublishSubmission(p, s) /\ request[s] = "stored"
                   /\ UNCHANGED <<position, attempt, crashes, rebalances>>
  BY <1>3 DEF Send, PublishSubmission, Publish, Life!SendMessage, Life!SendFails,
              vars, bounds, manager
<1>4. ASSUME NEW d \in Life!Delivery, Judge(d)
      PROVE  UNCHANGED <<log, position, attempt, crashes, rebalances>>
  BY <1>4 DEF Judge, vars, bounds, manager
<1>5. ASSUME NEW j \in judging, FinishJudging(j)
      PROVE  UNCHANGED <<log, position, attempt, crashes, rebalances>>
  BY <1>5 DEF FinishJudging, FinishJob, bounds
<1>6. ASSUME NEW p \in Partition, Consume(p)
      PROVE  UNCHANGED <<log, position, attempt, crashes, rebalances>>
  BY <1>6 DEF Consume, ReceiveMessage, bounds
<1>7. CASE Start
  BY <1>7 DEF Start, StartConsumer, bounds
<1>8. CASE WorkerStep
  BY <1>8 DEF WorkerStep, StartFails, CommitOffset, CommitFails, Rebalance,
              bounds, manager, Consuming
<1>9. CASE CrashAll
  BY <1>9 DEF CrashAll, Crash
<1> QED
  BY <1>1, <1>2, <1>3, <1>4, <1>5, <1>6, <1>7, <1>8, <1>9 DEF SystemNext

(* A delivery that begins is the first of its turn, and the position moves *)
(* past its message.                                                       *)
LEMMA StartTurn ==
  ASSUME SystemInv, ScheduleInv, SentInv, TurnInv, NEW h \in held, StartJudging(h)
  PROVE  TurnInv'
<1> DEFINE p == h.task.partition
           o == h.task.offset
<1> USE DEF SystemInv
<1>1. SubmissionAt(h.task) \in Submission
  BY DEF StartJudging, Life!Deliver, Queued
<1>2. PICK s \in Submission : s = SubmissionAt(h.task)
  BY <1>1
<1>3. PICK n \in 1 .. MaxDeliveries : Life!Deliver(s, n)
  BY <1>2 DEF StartJudging
<1>4. /\ n > 1 => stage[<<s, n - 1>>] # "none"
      /\ stage' = [stage EXCEPT ![<<s, n>>] = "load"]
  BY <1>3 DEF Life!Deliver, Life!Goto
<1>5. /\ StartJob(h) /\ HandlerReturns /\ UNCHANGED log
      /\ h \in held \ running /\ h.task = handler /\ handler \in Message
  BY DEF StartJudging, StartJob, Granted, WorkerInv, CommitTypeOK
<1>6. p \in Partition /\ o \in Offset /\ handler # Idle
  BY <1>5, HandlerIsMessage
<1>7. Consuming /\ Consuming' /\ position[p] = o
  BY <1>5, <1>6 DEF ScheduleInv, OnceInv, HandlerReturns, Consuming
<1>8. o + 1 \in DOMAIN log[p] /\ s = log[p][o + 1]
  <2>0. h.task \in LiveMessages
    BY DEF LiveMessages
  <2>1. o < logEnd[p] /\ o \in Nat /\ logEnd[p] \in Nat
    BY <1>6, <2>0, WorkerManagerAssumption DEF WorkerInv, CommitInv, CommitTypeOK, Offset
  <2>2. log[p] \in Seq(Submission) /\ Len(log[p]) = logEnd[p]
    BY <1>6 DEF LogInv
  <2> QED
    BY <1>2, <2>1, <2>2 DEF SubmissionAt
<1>9. /\ position' = [position EXCEPT ![p] = o + 1]
      /\ UNCHANGED <<crashes, rebalances>>
  BY <1>5 DEF HandlerReturns, bounds
<1>10. \A q \in Partition : position[q] \in Nat
  BY WorkerManagerAssumption DEF WorkerInv, CommitTypeOK
<1>11. crashes \in Nat /\ rebalances \in Nat /\ o \in Nat
  BY <1>6, WorkerManagerAssumption DEF ScheduleInv, RestTypeOK, Offset
<1>12. position \in [Partition -> 0 .. MaxOffset + 1]
  BY DEF WorkerInv, CommitTypeOK
<1>13. position'[p] = o + 1
  BY <1>6, <1>9, <1>12
<1>14. \A q \in Partition : position'[q] >= position[q] /\ position'[q] \in Nat
  BY <1>6, <1>7, <1>9, <1>10, <1>11, <1>12
<1>15. ~ Passed(s)
  BY <1>6, <1>7, <1>8, <1>11 DEF Passed
<1>16. Passed(s)'
  <2> SUFFICES ASSUME NEW q \in Partition, NEW i \in DOMAIN log[q], log[q][i] = s
               PROVE  i <= position'[q]
    BY <1>5, <1>7 DEF Passed
  <2>1. q = p /\ i = o + 1
    BY <1>6, <1>8 DEF SentInv
  <2> QED
    BY <2>1, <1>13, <1>11
<1>17. \A t \in Submission : Passed(t) => Passed(t)'
  <2> SUFFICES ASSUME NEW t \in Submission, Passed(t), NEW q \in Partition,
                      NEW i \in DOMAIN log[q], log[q][i] = t
               PROVE  i <= position'[q]
    BY <1>5, <1>7 DEF Passed
  <2>1. i <= position[q] /\ i \in Nat
    <3>1. log[q] \in Seq(Submission)
      BY DEF LogInv
    <3> QED
      BY <3>1 DEF Passed
  <2> QED
    BY <2>1, <1>10, <1>14
<1>18. n - 1 <= crashes + rebalances
  <2>1. CASE n = 1
    BY <2>1, <1>11
  <2>2. CASE n > 1
    <3>1. n - 1 \in 1 .. MaxDeliveries
      BY <2>2, WorkerManagerAssumption DEF MaxDeliveries
    <3> QED
      BY <1>4, <1>15, <2>2, <3>1 DEF TurnInv
  <2> QED
    BY <2>1, <2>2
<1> HIDE DEF p, o
<1>19. n <= crashes + rebalances \/ n = crashes + rebalances + 1
  BY <1>11, <1>18
<1>20. \A t \in Submission : \A k \in 1 .. MaxDeliveries :
          stage'[<<t, k>>] # "none" => stage[<<t, k>>] # "none" \/ (t = s /\ k = n)
  <2>1. \A d \in Life!Delivery : d # <<s, n>> => stage'[d] = stage[d]
    BY <1>4 DEF LogInv
  <2> QED
    BY <2>1 DEF Life!Delivery
<1> QED
  <2> SUFFICES ASSUME NEW t \in Submission, NEW k \in 1 .. MaxDeliveries,
                      stage'[<<t, k>>] # "none"
               PROVE  \/ k <= crashes + rebalances
                      \/ k = crashes + rebalances + 1 /\ Passed(t)'
    BY <1>9 DEF TurnInv
  <2>1. CASE stage[<<t, k>>] # "none"
    BY <2>1, <1>17 DEF TurnInv
  <2>2. CASE t = s /\ k = n
    BY <2>2, <1>16, <1>19
  <2> QED
    BY <1>20, <2>1, <2>2

LEMMA StepTurn ==
  ASSUME SystemInv, ScheduleInv, SentInv, TurnInv, [SystemNext]_system
  PROVE  TurnInv'
<1> USE DEF SystemInv
<1>1. CASE \E h \in held : StartJudging(h)
  BY <1>1, StartTurn
<1>2. ASSUME \A d \in Life!Delivery : stage[d] = "none" <=> stage'[d] = "none"
      PROVE  TurnInv'
  <2>1. \A t \in Submission : \A k \in 1 .. MaxDeliveries :
            stage'[<<t, k>>] # "none" => stage[<<t, k>>] # "none"
    BY <1>2 DEF Life!Delivery
  <2>2. crashes \in Nat /\ rebalances \in Nat
    BY WorkerManagerAssumption DEF ScheduleInv, RestTypeOK
  <2>3. CASE UNCHANGED <<log, position, attempt, crashes, rebalances>>
    BY <2>1, <2>3 DEF TurnInv, Passed, Consuming
  <2>4. ASSUME NEW p \in Partition, NEW s \in Submission,
               PublishSubmission(p, s), request[s] = "stored",
               UNCHANGED <<position, attempt, crashes, rebalances>>
        PROVE  TurnInv'
    <3>1. s \notin Queued
      BY <2>4 DEF SentInv
    <3>2. \A t \in Submission \ {s} : Passed(t) => Passed(t)'
      <4>1. /\ log' = [log EXCEPT ![p] = Append(@, s)]
            /\ log[p] \in Seq(Submission)
        BY <2>4 DEF PublishSubmission, LogInv
      <4>2. \A q \in Partition : \A i \in DOMAIN log'[q] :
                log'[q][i] = s \/ (i \in DOMAIN log[q] /\ log'[q][i] = log[q][i])
        <5>1. \A i \in DOMAIN Append(log[p], s) :
                  \/ Append(log[p], s)[i] = s
                  \/ i \in DOMAIN log[p] /\ Append(log[p], s)[i] = log[p][i]
          BY <4>1
        <5>2. log'[p] = Append(log[p], s) /\ \A q \in Partition \ {p} : log'[q] = log[q]
          BY <4>1 DEF LogInv
        <5> QED
          BY <5>1, <5>2
      <4> QED
        BY <2>4, <4>2 DEF Passed, Consuming
    <3>3. \A k \in 1 .. MaxDeliveries : stage[<<s, k>>] = "none"
      BY <3>1 DEF SentInv
    <3> QED
      BY <2>1, <2>4, <3>2, <3>3 DEF TurnInv
  <2>5. CASE ~ Consuming /\ UNCHANGED <<log, crashes, rebalances>>
    BY <2>1, <2>5 DEF TurnInv, Passed
  <2>6. CASE \/ crashes' = crashes + 1 /\ rebalances' = rebalances
             \/ crashes' = crashes /\ rebalances' = rebalances + 1
    BY <2>1, <2>2, <2>6 DEF TurnInv
  <2> QED
    BY <1>1, <2>3, <2>4, <2>5, <2>6, StepTurns
<1> QED
  BY <1>1, <1>2, StepBegun

LEMMA DeliveryStep ==
  SystemInv /\ ScheduleInv /\ DeliveryInv /\ [SystemNext]_system => DeliveryInv'
<1> SUFFICES ASSUME SystemInv, ScheduleInv, DeliveryInv, [SystemNext]_system
             PROVE  DeliveryInv'
  OBVIOUS
<1>1. CountInv'
  BY SystemStep, StepCount DEF SystemInv, DeliveryInv
<1>2. SentInv'
  BY StepSent DEF SystemInv, WorkerInv, DeliveryInv
<1>3. TurnInv'
  BY StepTurn DEF DeliveryInv
<1> QED
  BY <1>1, <1>2, <1>3 DEF DeliveryInv

LEMMA DeliveryInvariance == SystemSpec => []DeliveryInv
<1>1. SystemSpec => []ScheduleInv
  BY SystemRunsWorker, ScheduleInvariance, PTL
<1> QED
  BY <1>1, SystemInvariance, DeliveryInit, DeliveryStep, PTL DEF SystemSpec

(* The rows of a submission are inserted once, and once more at most for   *)
(* each crash or rebalance: nothing else makes the consumer go back over   *)
(* its message, and no delivery inserts twice.                             *)
THEOREM SystemInsertsPerDelivery == SystemSpec => []RowsPerDelivery
<1>1. ASSUME ScheduleInv, DeliveryInv, NEW s \in Submission
      PROVE  Len(resultRows[s]) <= 1 + crashes + rebalances
  <2> DEFINE most == 1 + crashes + rebalances
  <2>1. most \in Nat /\ crashes \in Nat /\ rebalances \in Nat
    BY <1>1, WorkerManagerAssumption DEF ScheduleInv, RestTypeOK
  <2>2. \A n \in EndedOf(s) : n \in 1 .. most
    BY <1>1, <2>1 DEF DeliveryInv, TurnInv, EndedOf
  <2> HIDE DEF most
  <2>3. IsFiniteSet(1 .. most) /\ Cardinality(1 .. most) = most
    BY <2>1, FS_Interval
  <2>4. EndedOf(s) \in SUBSET (1 .. most)
    BY <2>2
  <2>5. Cardinality(EndedOf(s)) <= most
    BY <2>3, <2>4, FS_Subset
  <2> QED
    BY <1>1, <2>5 DEF DeliveryInv, CountInv, most
<1>2. ScheduleInv /\ DeliveryInv => RowsPerDelivery
  BY <1>1 DEF RowsPerDelivery
<1>3. SystemSpec => []ScheduleInv
  BY SystemRunsWorker, ScheduleInvariance, PTL
<1> QED
  BY <1>2, <1>3, DeliveryInvariance, PTL

-----------------------------------------------------------------------------
(* What has been proved of the life of a submission, read off the system.  *)
LifeP == INSTANCE SubmissionLifecycleProofs WITH queued <- Queued

LEMMA LifeAssumed == LifeP!LifecycleAssumption
BY JudgeSystemAssumption, WorkerManagerAssumption DEF LifeP!LifecycleAssumption, MaxDeliveries

(* Both instances are the same life.                                       *)
LEMMA LifeInitSame == Life!Init <=> LifeP!Init
BY DEF Life!Init, LifeP!Init, Life!NoRow, LifeP!NoRow, Life!Delivery, LifeP!Delivery

LEMMA LifeStutterSame == UNCHANGED Life!vars <=> UNCHANGED LifeP!vars
BY DEF Life!vars, LifeP!vars

LEMMA LifeNextSame == Life!Next <=> LifeP!Next
BY DEF Life!Next, LifeP!Next, Life!Delivery, LifeP!Delivery,
       Life!StoreSubmission, LifeP!StoreSubmission,
       Life!RefuseSubmission, LifeP!RefuseSubmission, Life!Handle, LifeP!Handle,
       Life!SendMessage, LifeP!SendMessage, Life!SendFails, LifeP!SendFails,
       Life!Deliver, LifeP!Deliver, Life!Judge, LifeP!Judge, Life!Load, LifeP!Load,
       Life!Execute, LifeP!Execute, Life!Update, LifeP!Update,
       Life!UpdateRefused, LifeP!UpdateRefused,
       Life!InsertResults, LifeP!InsertResults, Life!JudgeFails, LifeP!JudgeFails,
       Life!Crash, LifeP!Crash, Life!Goto, LifeP!Goto,
       Life!handlers, LifeP!handlers, Life!judge, LifeP!judge,
       Life!Judging, LifeP!Judging, Life!Peak, LifeP!Peak,
       Life!WholeMegabytes, LifeP!WholeMegabytes,
       Life!FinalVerdict, LifeP!FinalVerdict, Life!Verdicts, LifeP!Verdicts,
       Life!ValidateResults, LifeP!ValidateResults,
       Life!FirstNotOk, LifeP!FirstNotOk, Life!SelectInSeq, LifeP!SelectInSeq,
       Life!Min, LifeP!Min, Life!Exec!Answers, LifeP!Exec!Answers,
       Life!Exec!Uniform, LifeP!Exec!Uniform, Life!Exec!Status, LifeP!Exec!Status,
       Life!Exec!RunStatus, LifeP!Exec!RunStatus

LEMMA SystemLivesLife == SystemSpec => LifeP!Spec /\ []LifeP!LifeInv
<1>1. SystemInit => LifeP!Init
  BY LifeInitSame DEF SystemInit
<1>2. [SystemNext]_system => [LifeP!Next]_(LifeP!vars)
  BY SystemStep, UnnoticedStutters, LifeNextSame, LifeStutterSame
<1>3. LifeP!Spec => []LifeP!LifeInv
  BY LifeAssumed, LifeP!LifeInvariance
<1> QED
  BY <1>1, <1>2, <1>3, PTL DEF SystemSpec, LifeP!Spec

(* The whole system stores only verdicts that some judging has seen as its *)
(* first failure, shows them with rows that give them, and never queues a  *)
(* message whose row is missing.                                           *)
THEOREM SystemVerdicts ==
  SystemSpec => [](/\ Life!MessageHasRow
                   /\ Life!VerdictIsFirstFailure
                   /\ Life!RowsExplainVerdict)
<1>1. LifeP!LifeInv => LifeP!MessageHasRow /\ LifeP!VerdictIsFirstFailure
  BY DEF LifeP!LifeInv, LifeP!StoredInv, LifeP!MessageHasRow, LifeP!TypeOK
<1>2. SystemSpec => []LifeP!RowsExplainVerdict
  BY SystemLivesLife, LifeAssumed, LifeP!LifeRowsExplainVerdict, PTL
<1>3. /\ LifeP!MessageHasRow <=> Life!MessageHasRow
      /\ LifeP!VerdictIsFirstFailure <=> Life!VerdictIsFirstFailure
      /\ LifeP!RowsExplainVerdict <=> Life!RowsExplainVerdict
  BY DEF LifeP!MessageHasRow, Life!MessageHasRow, LifeP!NoRow, Life!NoRow,
         LifeP!VerdictIsFirstFailure, Life!VerdictIsFirstFailure, LifeP!Verdict, Life!Verdict,
         LifeP!Explains, Life!Explains, LifeP!Passed, Life!Passed,
         LifeP!RowsExplainVerdict, Life!RowsExplainVerdict,
         LifeP!FinalVerdict, Life!FinalVerdict, LifeP!SelectInSeq, Life!SelectInSeq,
         LifeP!Min, Life!Min
<1> QED
  BY <1>1, <1>2, <1>3, SystemLivesLife, PTL

(* What is committed is written, verdict and rows, or its judging has      *)
(* thrown, or a join without a committed offset passed it over: no crash,  *)
(* rebalance, failed or late commit and no order in which the judgings end *)
(* makes the group move past a submission whose judging was cut off.       *)
THEOREM SystemCommitsWritten == SystemSpec => []CommittedIsWritten
<1>1. ASSUME SystemInv, CountInv, LifeP!LifeInv,
             NEW p \in Partition, NEW o \in Offset, o < groupOffset[p],
             o \notin skipped[p],
             \A d \in Deliveries(log[p][o + 1]) : stage[d] # "failed"
      PROVE  LET s == log[p][o + 1] IN
             /\ row[s] \in Life!Verdict
             /\ resultRows[s] # <<>> \/ \E d \in Deliveries(s) : stage[d] = "torn"
  <2> DEFINE s == log[p][o + 1]
  <2>1. o \in finished[p]
    BY <1>1 DEF SystemInv, WorkerInv, CommitInv, SettledBelow, Settled
  <2>2. PICK d \in Deliveries(s) : stage[d] \in {"ended", "torn"}
    BY <1>1, <2>1 DEF SystemInv, FinishedInv, JudgedAt, Life!Ended
  <2>3. PICK n \in 1 .. MaxDeliveries : s \in Submission /\ d = <<s, n>>
    BY DEF Deliveries, Life!Delivery
  <2>4. row[s] \in Life!Verdict
    <3>1. d \in LifeP!Delivery
      BY <2>3 DEF LifeP!Delivery
    <3> QED
      BY <1>1, <2>2, <2>3, <3>1 DEF LifeP!LifeInv, LifeP!WrittenInv, LifeP!Verdict, Life!Verdict
  <2>5. ASSUME stage[d] = "ended"
        PROVE  resultRows[s] # <<>>
    <3>1. n \in EndedOf(s) /\ EndedOf(s) \subseteq 1 .. MaxDeliveries
      BY <2>3, <2>5 DEF EndedOf
    <3>2. IsFiniteSet(EndedOf(s))
      <4>1. IsFiniteSet(1 .. MaxDeliveries)
        BY WorkerManagerAssumption, FS_Interval DEF MaxDeliveries
      <4>2. EndedOf(s) \in SUBSET (1 .. MaxDeliveries)
        BY <3>1
      <4> QED
        BY <4>1, <4>2, FS_Subset
    <3>3. Cardinality(EndedOf(s)) # 0
      BY <3>1, <3>2, FS_EmptySet
    <3>4. Len(resultRows[s]) = Cardinality(EndedOf(s))
      BY <1>1, <2>3 DEF CountInv
    <3> HIDE DEF s
    <3> QED
      BY <3>3, <3>4
  <2> QED
    BY <2>2, <2>4, <2>5
<1>2. SystemInv /\ DeliveryInv /\ LifeP!LifeInv => CommittedIsWritten
  BY <1>1 DEF CommittedIsWritten, DeliveryInv
<1> QED
  BY <1>2, SystemInvariance, DeliveryInvariance, SystemLivesLife, PTL

(* So the README's promise holds wherever no judging throws and no join    *)
(* passes a message over: no service fails, and no run's memory comes out  *)
(* as a fraction of a megabyte.                                            *)
THEOREM SystemCommitsVerdicts ==
  ASSUME ~ Faults, \A kb \in Memory : Life!WholeMegabytes(kb)
  PROVE  SystemSpec => []((\A p \in Partition : skipped[p] = {}) => CommittedHasVerdict)
<1>1. SystemSpec => []LifeP!NoneFailed
  <2>1. \A kb \in Memory : LifeP!WholeMegabytes(kb)
    BY DEF LifeP!WholeMegabytes, Life!WholeMegabytes
  <2>2. LifeP!Spec => []LifeP!NoneFailed
    BY <2>1, LifeAssumed, LifeP!NoneFails
  <2> QED
    BY <2>2, SystemLivesLife, PTL
<1>2. LifeP!NoneFailed /\ CommittedIsWritten =>
          ((\A p \in Partition : skipped[p] = {}) => CommittedHasVerdict)
  BY DEF LifeP!NoneFailed, CommittedIsWritten, CommittedHasVerdict, Deliveries,
         LifeP!Delivery, Life!Delivery
<1> QED
  BY <1>1, <1>2, SystemCommitsWritten, PTL

(* Nothing that was acknowledged is dropped: a crash, a rebalance, a lost  *)
(* or late commit leaves the message to be read again, and a consumer that *)
(* goes on has it ahead or in hand, until there is a verdict; except where *)
(* judgeSubmission threw or a join passed the message over.                *)
THEOREM SystemKeepsAcknowledged == SystemSpec => []AcknowledgedIsKept
<1>1. ASSUME SystemInv, FlightHandled, LifeP!LifeInv
      PROVE  AcknowledgedIsKept
  <2> SUFFICES ASSUME NEW s \in Submission, request[s] = "acknowledged",
                      row[s] \notin Life!Verdict,
                      \A d \in Deliveries(s) : stage[d] # "failed",
                      ~ PassedOver(s)
               PROVE  StillToJudge(s)
    BY DEF AcknowledgedIsKept
  <2>1. PICK p \in Partition : \E i \in DOMAIN log[p] : log[p][i] = s
    BY <1>1 DEF LifeP!LifeInv, LifeP!NewInv, Queued
  <2>2. PICK o \in Offset : o < logEnd[p] /\ log[p][o + 1] = s
    <3>1. PICK i \in DOMAIN log[p] : log[p][i] = s
      BY <2>1
    <3>2. log[p] \in Seq(Submission) /\ Len(log[p]) = logEnd[p]
          /\ logEnd[p] \in 0 .. MaxOffset + 1
      BY <1>1 DEF SystemInv, LogInv, WorkerInv, CommitTypeOK
    <3>3. i \in Nat /\ 1 <= i /\ i <= logEnd[p]
      BY <3>1, <3>2
    <3>4. i - 1 \in Offset /\ i - 1 < logEnd[p] /\ (i - 1) + 1 = i
      BY <3>2, <3>3, WorkerManagerAssumption DEF Offset
    <3> QED
      BY <3>1, <3>4
  <2>3. o \notin skipped[p]
    BY <2>2 DEF PassedOver
  <2>4. o \notin finished[p]
    <3> SUFFICES ASSUME o \in finished[p]
                 PROVE  FALSE
      OBVIOUS
    <3>1. PICK d \in Deliveries(s) : stage[d] \in Life!Ended
      BY <1>1, <2>2 DEF SystemInv, FinishedInv, JudgedAt
    <3>2. stage[d] \in {"ended", "torn"} /\ d \in Life!Delivery /\ d[1] = s
      BY <3>1 DEF Life!Ended, Deliveries
    <3>3. row[d[1]] \in LifeP!Verdict
      BY <1>1, <3>2 DEF LifeP!LifeInv, LifeP!WrittenInv, Life!Delivery, LifeP!Delivery
    <3> QED
      BY <3>2, <3>3 DEF Life!Verdict, LifeP!Verdict
  <2>5. groupOffset[p] <= o
    <3>1. ~ (o < groupOffset[p])
      BY <1>1, <2>3, <2>4 DEF SystemInv, WorkerInv, CommitInv, SettledBelow, Settled
    <3>2. groupOffset[p] \in (0 .. MaxOffset + 1) \union {NoOffset}
      BY <1>1 DEF SystemInv, WorkerInv, CommitTypeOK
    <3> QED
      BY <3>1, <3>2, WorkerManagerAssumption DEF Offset, NoOffset, Trk!NoOffset
  <2>6. ASSUME Consuming, ~ (position[p] <= o)
        PROVE  Handled([partition |-> p, offset |-> o])
    <3>1. o < position[p]
      BY <1>1, <2>6, WorkerManagerAssumption DEF SystemInv, WorkerInv, CommitTypeOK, Offset
    <3>2. o \in inFlight[p]
      BY <1>1, <2>3, <2>4, <2>6, <3>1
      DEF SystemInv, WorkerInv, CommitInv, AccountedBelow, Accounted, Settled
    <3> QED
      BY <1>1, <3>2, JudgeSystemAssumption DEF FlightHandled
  <2> QED
    BY <2>2, <2>5, <2>6 DEF StillToJudge
<1>2. SystemSpec => []FlightHandled
  BY SystemRunsWorker, FlightHandledInvariance, PTL
<1> QED
  BY <1>1, <1>2, SystemInvariance, SystemLivesLife, PTL

(* With every service working and no fraction of a megabyte for Prisma to  *)
(* refuse, only a join without a committed offset can drop what was        *)
(* acknowledged; crashes, rebalances and lost commits do not.              *)
THEOREM SystemDropsOnlyPassedOver ==
  ASSUME ~ Faults, \A kb \in Memory : Life!WholeMegabytes(kb)
  PROVE  SystemSpec => [](\A s \in Submission :
                              request[s] = "acknowledged" =>
                                  \/ row[s] \in Life!Verdict
                                  \/ StillToJudge(s)
                                  \/ PassedOver(s))
<1>1. LifeP!Spec => []LifeP!NoneFailed
  <2>1. \A kb \in Memory : LifeP!WholeMegabytes(kb)
    BY DEF Life!WholeMegabytes, LifeP!WholeMegabytes
  <2> QED
    BY <2>1, LifeAssumed, LifeP!NoneFails
<1>2. LifeP!NoneFailed /\ AcknowledgedIsKept =>
          \A s \in Submission : request[s] = "acknowledged" =>
              \/ row[s] \in Life!Verdict
              \/ StillToJudge(s)
              \/ PassedOver(s)
  BY DEF LifeP!NoneFailed, AcknowledgedIsKept, Deliveries, LifeP!Delivery, Life!Delivery
<1> QED
  BY <1>1, <1>2, SystemLivesLife, SystemKeepsAcknowledged, PTL

-----------------------------------------------------------------------------
(* Calls of judgeSubmission and jobs belong together one to one.           *)
JobsInv ==
    /\ \A j \in judging : j.job \in running
    /\ \A j \in judging : j.delivery \in Life!Delivery /\ stage[j.delivery] # "none"
    /\ \A j, k \in judging : j.job = k.job \/ j.delivery = k.delivery => j = k
    /\ \A d \in Life!Delivery : stage[d] \in Life!Judging =>
           \E j \in judging : j.delivery = d

LEMMA StepJobs ==
  ASSUME LogInv, JobsInv, [SystemNext]_system
  PROVE  JobsInv'
<1> USE DEF JobsInv
<1>1. CASE UNCHANGED <<judging, running, stage>>
  BY <1>1
<1>2. ASSUME NEW h \in held, StartJudging(h)
      PROVE  JobsInv'
  <2>1. PICK n \in 1 .. MaxDeliveries :
               /\ Life!Deliver(SubmissionAt(h.task), n)
               /\ judging' = judging \union
                     {[job |-> h, delivery |-> <<SubmissionAt(h.task), n>>]}
    BY <1>2 DEF StartJudging
  <2> DEFINE d == <<SubmissionAt(h.task), n>>
             new == [job |-> h, delivery |-> d]
  <2>2. /\ h \notin running /\ running' = running \union {h}
        /\ d \in Life!Delivery /\ stage[d] = "none"
        /\ stage' = [stage EXCEPT ![d] = "load"]
    BY <1>2, <2>1 DEF StartJudging, StartJob, Granted, Life!Deliver, Life!Goto, Life!Delivery,
                      Queued
  <2>3. new.job = h /\ new.delivery = d /\ judging' = judging \union {new}
    BY <2>1
  <2> HIDE DEF d, new
  <2>4. stage'[d] = "load" /\ \A e \in Life!Delivery \ {d} : stage'[e] = stage[e]
    BY <2>2 DEF LogInv
  <2> QED
    BY <2>2, <2>3, <2>4
<1>3. ASSUME NEW d \in Life!Delivery, Judge(d)
      PROVE  JobsInv'
  <2>1. /\ stage[d] \in Life!Judging
        /\ \A e \in Life!Delivery \ {d} : stage'[e] = stage[e]
        /\ stage'[d] # "none"
    BY <1>3 DEF LogInv, Judge, Life!Judge, Life!Load, Life!Execute, Life!Update,
                Life!UpdateRefused, Life!InsertResults, Life!JudgeFails, Life!Goto,
                Life!Judging
  <2>2. UNCHANGED <<judging, running>>
    BY <1>3 DEF Judge, vars, manager
  <2> QED
    BY <2>1, <2>2
<1>4. ASSUME NEW j \in judging, FinishJudging(j)
      PROVE  JobsInv'
  <2>1. /\ stage[j.delivery] \notin Life!Judging /\ UNCHANGED stage
        /\ running' = running \ {j.job} /\ judging' = judging \ {j}
    BY <1>4 DEF FinishJudging, FinishJob, judge, Life!Ended, Life!Judging
  <2> QED
    BY <2>1
<1>5. CASE CrashAll
  <2>1. judging' = {} /\ \A d \in Life!Delivery : stage'[d] \notin Life!Judging
    BY <1>5 DEF CrashAll, Life!Crash, Life!Judging
  <2> QED
    BY <2>1
<1>6. \/ UNCHANGED <<judging, running, stage>>
      \/ \E h \in held : StartJudging(h)
      \/ \E d \in Life!Delivery : Judge(d)
      \/ \E j \in judging : FinishJudging(j)
      \/ CrashAll
  <2>1. ASSUME NEW s \in Submission, Store(s) \/ Send(s)
        PROVE  UNCHANGED <<judging, running, stage>>
    BY <2>1 DEF Store, Send, PublishSubmission, Publish, vars, manager, Life!StoreSubmission,
                Life!RefuseSubmission, Life!SendMessage, Life!SendFails, Life!judge
  <2>2. ASSUME NEW p \in Partition, Consume(p)
        PROVE  UNCHANGED <<judging, running, stage>>
    BY <2>2 DEF Consume, ReceiveMessage, judge
  <2>3. CASE UNCHANGED system
    BY <2>3 DEF system, vars, manager, judge
  <2>4. CASE Start \/ WorkerStep
    BY <2>4 DEF Start, StartConsumer, WorkerStep, StartFails, CommitOffset, CommitFails,
                Rebalance, manager, judge
  <2> QED
    BY <2>1, <2>2, <2>3, <2>4 DEF SystemNext
<1> QED
  BY <1>1, <1>2, <1>3, <1>4, <1>5, <1>6

LEMMA JobsInvariance == SystemSpec => []JobsInv
<1>1. SystemInit => JobsInv
  BY DEF SystemInit, Init, Life!Init, JobsInv, Life!Judging
<1>2. SystemInv => LogInv
  BY DEF SystemInv
<1> QED
  BY <1>1, <1>2, StepJobs, SystemInvariance, PTL DEF SystemSpec

(* A submission is judged only inside a processMessage that holds a box of *)
(* its own for it, and no more than MAX_WORKERS at once: no call of        *)
(* judgeSubmission outlives its job, whatever is redelivered meanwhile.    *)
THEOREM SystemJudgesInOwnBoxes ==
  SystemSpec =>
    [](/\ \A d \in Life!Delivery : stage[d] \in Life!Judging =>
              \E j \in judging : j.delivery = d /\ j.job \in running
       /\ \A j, k \in judging :
              j.job.box = k.job.box \/ j.delivery = k.delivery => j = k
       /\ IsFiniteSet(judging) /\ Cardinality(judging) <= Workers)
<1>1. JobsInv /\ JobsHaveOwnBox /\ SystemInv =>
          \A j, k \in judging : j.job.box = k.job.box \/ j.delivery = k.delivery => j = k
  BY DEF JobsInv, JobsHaveOwnBox, Sem!BoxExclusive, SystemInv, WorkerInv, CommitTypeOK
<1>2. ASSUME JobsInv, IsFiniteSet(running), Cardinality(running) <= Workers
      PROVE  IsFiniteSet(judging) /\ Cardinality(judging) <= Workers
  <2> DEFINE jobOf == [j \in judging |-> j.job]
  <2>1. jobOf \in [judging -> running] /\ \A j, k \in judging : jobOf[j] = jobOf[k] => j = k
    BY <1>2 DEF JobsInv
  <2>2. jobOf \in Injection(judging, running)
    BY <2>1 DEF Injection, IsInjective
  <2> HIDE DEF jobOf
  <2>3. IsFiniteSet(judging) /\ Cardinality(judging) <= Cardinality(running)
    BY <1>2, <2>2, FS_Injection
  <2>4. Cardinality(judging) \in Nat /\ Cardinality(running) \in Nat
    BY <1>2, <2>3, FS_CardinalityType
  <2> QED
    BY <1>2, <2>3, <2>4, WorkerManagerAssumption
<1>3. JobsInv /\ IsFiniteSet(running) /\ Cardinality(running) <= Workers =>
          IsFiniteSet(judging) /\ Cardinality(judging) <= Workers
  BY <1>2
<1>4. JobsInv => \A d \in Life!Delivery : stage[d] \in Life!Judging =>
                     \E j \in judging : j.delivery = d /\ j.job \in running
  BY DEF JobsInv
<1>5. SystemSpec => [](IsFiniteSet(running) /\ Cardinality(running) <= Workers)
  BY SystemRunsWorker, WorkerLimitsJobs, PTL
<1>6. SystemSpec => []JobsHaveOwnBox
  BY SystemRunsWorker, WorkerBoxesExclusive, PTL
<1> QED
  BY <1>1, <1>2, <1>3, <1>4, <1>5, <1>6, SystemInvariance, JobsInvariance, PTL

-----------------------------------------------------------------------------
(* Who writes the verdict or the rows of a submission: the request that    *)
(* stores it, or a judging of it that goes on.                             *)
LEMMA WhoSettles ==
  ASSUME [SystemNext]_system, DOMAIN row = Submission, DOMAIN resultRows = Submission,
         NEW s \in Submission
  PROVE  \/ row'[s] = row[s] /\ resultRows'[s] = resultRows[s]
         \/ request[s] = "new"
         \/ \E d \in Life!Delivery : d[1] = s /\ stage[d] \in Life!Judging
<1>1. CASE Unnoticed
  BY <1>1 DEF Unnoticed, judge
<1>2. ASSUME NEW t \in Submission,
             Life!StoreSubmission(t) \/ Life!RefuseSubmission(t) \/ Life!Handle(t)
      PROVE  request[s] = "new" \/ (row'[s] = row[s] /\ resultRows'[s] = resultRows[s])
  BY <1>2 DEF Life!StoreSubmission, Life!RefuseSubmission, Life!Handle,
              Life!SendMessage, Life!SendFails, Life!judge
<1>3. ASSUME NEW t \in Submission, NEW n \in 1 .. MaxDeliveries, Life!Deliver(t, n)
      PROVE  UNCHANGED <<row, resultRows>>
  BY <1>3 DEF Life!Deliver
<1>4. ASSUME NEW d \in Life!Delivery, Life!Judge(d)
      PROVE  \/ row'[s] = row[s] /\ resultRows'[s] = resultRows[s]
             \/ d[1] = s /\ stage[d] \in Life!Judging
  <2>1. CASE Life!Update(d)
    BY <2>1 DEF Life!Update, Life!Judging
  <2>2. CASE Life!InsertResults(d)
    BY <2>2 DEF Life!InsertResults, Life!Judging
  <2>3. CASE Life!Load(d) \/ Life!Execute(d) \/ Life!UpdateRefused(d) \/ Life!JudgeFails(d)
    BY <2>3 DEF Life!Load, Life!Execute, Life!UpdateRefused, Life!JudgeFails
  <2> QED
    BY <1>4, <2>1, <2>2, <2>3 DEF Life!Judge
<1>5. CASE Life!Crash
  BY <1>5 DEF Life!Crash
<1> QED
  BY <1>1, <1>2, <1>3, <1>4, <1>5, SystemStep DEF Life!Next

(* What lies in the log is a submission that was sent.                     *)
LEMMA LoggedIsSent ==
  ASSUME SystemInv, SentInv, NEW p \in Partition, NEW o \in Offset, o < logEnd[p]
  PROVE  /\ o + 1 \in DOMAIN log[p]
         /\ log[p][o + 1] \in Submission
         /\ request[log[p][o + 1]] # "new"
<1>1. /\ log[p] \in Seq(Submission) /\ Len(log[p]) = logEnd[p]
      /\ logEnd[p] \in Nat /\ o \in Nat
  BY WorkerManagerAssumption DEF SystemInv, LogInv, WorkerInv, CommitTypeOK, Offset
<1>2. o + 1 \in 1 .. Len(log[p])
  BY <1>1
<1> QED
  BY <1>1, <1>2 DEF SentInv, Queued

(* A submission that is being judged has its message in flight, in the only*)
(* place the log has it: at or above what is committed, and in the first   *)
(* life of the worker never finished before.                               *)
LEMMA JudgedIsInFlight ==
  ASSUME SystemInv, SentInv, JobsInv, AheadInv, FirstLifeInv, rebalances = 0,
         NEW p \in Partition, NEW o \in Offset, o + 1 \in DOMAIN log[p],
         NEW d \in Life!Delivery, d[1] = log[p][o + 1], stage[d] \in Life!Judging
  PROVE  /\ o \in inFlight[p]
         /\ groupOffset[p] <= o
         /\ crashes = 0 => o \notin finished[p] \union skipped[p]
<1>1. PICK j \in judging : j.delivery = d /\ j.job \in running
  BY DEF JobsInv
<1> DEFINE q == j.job.task.partition
           i == j.job.task.offset
<1>2. /\ q \in Partition /\ i \in Offset /\ i < logEnd[q]
      /\ log[q][i + 1] = log[p][o + 1]
  BY <1>1 DEF SystemInv, JudgingInv, Message, Deliveries, SubmissionAt
<1>3. i \in inFlight[q] /\ groupOffset[q] <= i
  BY <1>1, <1>2 DEF AheadInv, NotPast
<1>4. /\ log[q] \in Seq(Submission) /\ Len(log[q]) = logEnd[q]
      /\ logEnd[q] \in 0 .. MaxOffset + 1 /\ i \in Nat /\ o \in Nat
  <2>1. /\ log \in [Partition -> Seq(Submission)]
        /\ \A r \in Partition : Len(log[r]) = logEnd[r]
        /\ logEnd \in [Partition -> 0 .. MaxOffset + 1]
    BY DEF SystemInv, LogInv, WorkerInv, CommitTypeOK
  <2>2. i \in Nat /\ o \in Nat
    BY <1>2, WorkerManagerAssumption DEF Offset
  <2> QED
    BY ONLY <1>2, <2>1, <2>2
<1> HIDE DEF q, i
<1>5. i + 1 \in DOMAIN log[q]
  BY <1>2, <1>4
<1>6. q = p /\ i + 1 = o + 1
  BY <1>2, <1>5 DEF SentInv
<1>7. q = p /\ i = o
  BY <1>4, <1>6
<1> QED
  BY <1>3, <1>7 DEF FirstLifeInv

(* Until a rejoin the verdict and the rows of a submission are written only*)
(* while its message is in flight and not committed.  So what a judging    *)
(* leaves is final when its offset is completed, whatever commits fail or  *)
(* arrive late, until a crash finds the group at or below the offset: one  *)
(* that had been committed too, if a late commit has moved the group back. *)
THEOREM SystemRewritesOnlyInFlight == SystemSpec => FinalUntilRedelivered
<1> DEFINE InFlight(p, o) ==
               o < logEnd[p] /\ Rewritten(log[p][o + 1]) =>
                   /\ o \in inFlight[p]
                   /\ groupOffset[p] <= o
                   /\ o \in finished[p] \union skipped[p] => crashes > 0
<1>1. ASSUME SystemInv, ScheduleInv, DeliveryInv, JobsInv, AheadInv, FirstLifeInv,
             LifeP!LifeInv, [SystemNext]_system, rebalances = 0,
             NEW p \in Partition, NEW o \in Offset
      PROVE  InFlight(p, o)
  <2> SUFFICES ASSUME o < logEnd[p], Rewritten(log[p][o + 1])
               PROVE  /\ o \in inFlight[p]
                      /\ groupOffset[p] <= o
                      /\ o \in finished[p] \union skipped[p] => crashes > 0
    OBVIOUS
  <2> DEFINE s == log[p][o + 1]
  <2>1. o + 1 \in DOMAIN log[p] /\ s \in Submission /\ request[s] # "new"
    BY <1>1, LoggedIsSent DEF DeliveryInv
  <2>2. DOMAIN row = Submission /\ DOMAIN resultRows = Submission
    BY <1>1 DEF LifeP!LifeInv, LifeP!TypeOK, DeliveryInv, CountInv
  <2>3. row'[s] # row[s] \/ resultRows'[s] # resultRows[s]
    BY DEF Rewritten
  <2> HIDE DEF s
  <2>4. PICK d \in Life!Delivery : d[1] = s /\ stage[d] \in Life!Judging
    BY <1>1, <2>1, <2>2, <2>3, WhoSettles
  <2> USE DEF s
  <2>5. /\ o \in inFlight[p]
        /\ groupOffset[p] <= o
        /\ crashes = 0 => o \notin finished[p] \union skipped[p]
    BY <1>1, <2>1, <2>4, JudgedIsInFlight DEF DeliveryInv
  <2>6. crashes \in Nat
    BY <1>1, WorkerManagerAssumption DEF ScheduleInv, RestTypeOK
  <2> QED
    BY <2>5, <2>6
<1>2. /\ SystemInv /\ ScheduleInv /\ DeliveryInv /\ JobsInv /\ AheadInv /\ FirstLifeInv
      /\ LifeP!LifeInv /\ [SystemNext]_system
      => (rebalances = 0 => \A p \in Partition : \A o \in Offset : InFlight(p, o))
  BY <1>1
<1>3. SystemSpec => [](ScheduleInv /\ AheadInv)
  BY SystemRunsWorker, AheadInvariance, PTL
<1>4. SystemSpec => []FirstLifeInv
  BY SystemRunsWorker, FirstLifeInvariance, PTL
<1> QED
  BY <1>2, <1>3, <1>4, DeliveryInvariance, SystemInvariance, JobsInvariance,
     SystemLivesLife, PTL
  DEF SystemSpec, FinalUntilRedelivered

=============================================================================
