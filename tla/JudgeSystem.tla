----------------------------- MODULE JudgeSystem -----------------------------
(***************************************************************************)
(* The whole path of a submission: the API of SubmissionLifecycle stores   *)
(* and sends it, WorkerManager takes it from the topic and gives it a box, *)
(* and judgeSubmission of SubmissionLifecycle runs between StartJob and    *)
(* FinishJob.  API and worker are one process: they crash together.        *)
(*                                                                         *)
(* An action joins the actions of the two modules that the code takes in   *)
(* one stretch.  What is added is only which submission a message carries, *)
(* and which call of judgeSubmission belongs to which processMessage.      *)
(***************************************************************************)
EXTENDS WorkerManager

CONSTANTS Submission, Tests, Problem, Memory, Faults

\* A message is delivered again only after a crash or a rebalance.
MaxDeliveries == 1 + MaxCrashes + MaxRebalances

VARIABLES
    request, row, stage, answer, matching, resultRows,  \* SubmissionLifecycle
    log,        \* the submissions in each partition, by offset
    judging     \* the jobs that run, each with the delivery it judges

Queued == {s \in Submission : \E p \in Partition : \E i \in DOMAIN log[p] : log[p][i] = s}

Life == INSTANCE SubmissionLifecycle WITH queued <- Queued

\* The producer sends no empty message, and the log has room for all; the rest
\* is what SubmissionLifecycle assumes of its constants.
ASSUME JudgeSystemAssumption ==
    /\ Empty = {}
    /\ IsFiniteSet(Submission) /\ Cardinality(Submission) <= MaxOffset + 1
    /\ Tests \in [Submission -> Nat]
    /\ DOMAIN Problem = Submission
    /\ Memory \subseteq Nat
    /\ Faults \in BOOLEAN

judge == <<request, row, stage, answer, matching, resultRows>>
system == <<vars, judge, log, judging>>

SubmissionAt(m) == log[m.partition][m.offset + 1]

SystemInit ==
    /\ Init
    /\ log = [p \in Partition |-> <<>>]
    /\ judging = {}
    /\ Life!Init

-----------------------------------------------------------------------------
(* submit: the row, then the message.                                      *)
Store(s) ==
    /\ Consuming
    /\ UNCHANGED <<vars, log, judging>>
    /\ Life!StoreSubmission(s) \/ Life!RefuseSubmission(s)

PublishSubmission(p, s) ==
    /\ Publish(p)
    /\ log' = [log EXCEPT ![p] = Append(@, s)]

(* Faulty variant: the answer does not wait for the producer.              *)
SendUnawaited(s) ==
    /\ request[s] = "stored"
    /\ request' = [request EXCEPT ![s] = "acknowledged"]
    /\ UNCHANGED <<row, stage, answer, matching, resultRows, judging>>
    /\ UNCHANGED <<vars, log>> \/ \E p \in Partition : PublishSubmission(p, s)

Send(s) ==
    /\ UNCHANGED judging
    /\ \/ \E p \in Partition :
             PublishSubmission(p, s) /\ (Life!SendMessage(s) \/ Life!SendFails(s))
       \/ UNCHANGED <<vars, log>> /\ Life!SendFails(s)

(* processMessage calls judgeSubmission ...                                *)
StartJudging(h) ==
    /\ StartJob(h)
    /\ UNCHANGED log
    /\ \E n \in 1 .. MaxDeliveries :
          /\ Life!Deliver(SubmissionAt(h.task), n)
          /\ judging' = judging \union
                            {[job |-> h, delivery |-> <<SubmissionAt(h.task), n>>]}

Judge(d) ==
    /\ UNCHANGED <<vars, log, judging>>
    /\ Life!Judge(d)

(* Faulty variant: judgeSubmission is not awaited.                         *)
FinishUnawaited(j) ==
    /\ FinishJob(j.job)
    /\ judging' = judging \ {j}
    /\ UNCHANGED <<judge, log>>

(* ... and awaits it, so that its finally block comes after all it writes. *)
FinishJudging(j) ==
    /\ stage[j.delivery] \in Life!Ended
    /\ FinishJob(j.job)
    /\ judging' = judging \ {j}
    /\ UNCHANGED <<judge, log>>

Consume(p) == ReceiveMessage(p) /\ UNCHANGED <<judge, log, judging>>

Start == StartConsumer /\ UNCHANGED <<judge, log, judging>>

(* What the worker, kafkajs and the broker do besides.                     *)
WorkerStep ==
    /\ \/ StartFails
       \/ \E r \in requests : CommitOffset(r) \/ CommitFails(r)
       \/ Rebalance
    /\ UNCHANGED <<judge, log, judging>>

CrashAll ==
    /\ Crash
    /\ UNCHANGED log
    /\ Life!Crash
    /\ judging' = {}

SystemNext ==
    \/ \E s \in Submission : Store(s) \/ Send(s)
    \/ Start
    \/ \E p \in Partition : Consume(p)
    \/ \E h \in held : StartJudging(h)
    \/ \E d \in Life!Delivery : Judge(d)
    \/ \E j \in judging : FinishJudging(j)
    \/ WorkerStep
    \/ CrashAll

SystemSpec == SystemInit /\ [][SystemNext]_system

(* Connecting to the broker succeeds in the end; kafkajs goes on           *)
(* delivering what a partition holds unless it is paused; the event loop   *)
(* runs a handler whose box has been granted, and the finally block of a   *)
(* judging that is over; and each awaited call of a judging or a submit is *)
(* answered, if only with an error, because the sandbox bounds its time.   *)
SystemFairness ==
    /\ WF_system(Start)
    /\ \A p \in Partition : WF_system(Consume(p))
    /\ WF_system(\E h \in held : StartJudging(h))
    /\ \A d \in Life!Delivery :
          WF_system(Judge(d)) /\ WF_system(\E j \in judging : j.delivery = d /\ FinishJudging(j))
    /\ \A s \in Submission : WF_system(Send(s))

FairSystemSpec == SystemSpec /\ SystemFairness

-----------------------------------------------------------------------------
Deliveries(s) == {d \in Life!Delivery : d[1] = s}

(* What the group has committed is written: the submission has its verdict *)
(* and its result rows.  A judging that threw is the exception, because the*)
(* finally block completes its offset too: "failed" has written nothing,   *)
(* and "torn" no rows.  What a join has passed over is the other one.      *)
CommittedIsWritten ==
    \A p \in Partition : \A o \in Offset : o < groupOffset[p] =>
        LET s == log[p][o + 1] IN
        \/ o \in skipped[p]
        \/ \E d \in Deliveries(s) : stage[d] = "failed"
        \/ /\ row[s] \in Life!Verdict
           /\ resultRows[s] # <<>> \/ \E d \in Deliveries(s) : stage[d] = "torn"

(* README: the queue "ensures no submissions are lost, even if a worker    *)
(* crashes, by requiring manual offset commits upon successful job         *)
(* completion": what is committed has a verdict; with no service failing,  *)
(* every judging should succeed.                                           *)
CommittedHasVerdict ==
    \A p \in Partition : \A o \in Offset :
        o < groupOffset[p] => row[log[p][o + 1]] \in Life!Verdict

(* The result rows of a submission are inserted once for its message, and  *)
(* once more at most for each crash or rebalance.                          *)
RowsPerDelivery ==
    \A s \in Submission : Len(resultRows[s]) <= 1 + crashes + rebalances

Rewritten(s) == row'[s] # row[s] \/ resultRows'[s] # resultRows[s]

(* The verdict and the rows of a queued submission are written only while  *)
(* the tracker has its message in flight and the group has not committed   *)
(* it.  So they are final once the finally block has completed the offset, *)
(* until the message is delivered again: after a crash, if the group is at *)
(* or below it, be it that its commit failed or that a late one moved the  *)
(* group back.  A rejoin ends the claim: jobs of before it go on, and one  *)
(* of them may complete and commit what another one is still judging.      *)
FinalUntilRedelivered ==
    [][rebalances = 0 =>
          \A p \in Partition : \A o \in Offset :
              o < logEnd[p] /\ Rewritten(log[p][o + 1]) =>
                  /\ o \in inFlight[p]
                  /\ groupOffset[p] <= o
                  /\ o \in finished[p] \union skipped[p] => crashes > 0]_system

PassedOver(s) == \E p \in Partition : \E o \in skipped[p] : log[p][o + 1] = s

(* An acknowledged submission is never dropped: until it has a verdict, the*)
(* group has not committed its message, and a consumer that is running has *)
(* it still ahead or is handling it; unless a judging of it threw or a join*)
(* without a committed offset has passed it over.                          *)
StillToJudge(s) ==
    \E p \in Partition : \E o \in Offset :
        /\ o < logEnd[p] /\ log[p][o + 1] = s
        /\ groupOffset[p] <= o
        /\ Consuming => position[p] <= o \/ Handled([partition |-> p, offset |-> o])

AcknowledgedIsKept ==
    \A s \in Submission :
        request[s] = "acknowledged" =>
            \/ row[s] \in Life!Verdict
            \/ StillToJudge(s)
            \/ \E d \in Deliveries(s) : stage[d] = "failed"
            \/ PassedOver(s)

(* On a topic of one partition an acknowledged submission gets its verdict *)
(* across crashes, rebalances, lost commits and a full worker, unless a    *)
(* judging of it threw or a join without a committed offset has passed it  *)
(* over.  With two partitions one can stay paused on an idle worker, see   *)
(* NothingLeftPaused, and nothing is promised.                             *)
AcknowledgedIsDecided ==
    \A s \in Submission :
        Cardinality(Partition) = 1 /\ request[s] = "acknowledged" ~>
            \/ row[s] \in Life!Verdict
            \/ \E d \in Deliveries(s) : stage[d] = "failed"
            \/ PassedOver(s)

=============================================================================
