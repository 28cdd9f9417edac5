------------------------- MODULE SubmissionLifecycle -------------------------
(***************************************************************************)
(* A submission from POST /submissions/submit to its verdict:              *)
(* submissions.controller.ts stores a row and queues a message, and        *)
(* judge.service.ts, called once for each delivery of the message, loads   *)
(* the tests, runs them, and writes the verdict and the result rows.       *)
(*                                                                         *)
(* A step ends at an await.  The queue is at-least-once (module            *)
(* JudgeQueue, which WorkerManager implements): a message may be delivered *)
(* again, also while its first delivery is still being judged.             *)
(* executeBatch is what module Batch promises (Execution implements it).   *)
(***************************************************************************)
EXTENDS Integers, Sequences, SequencesExt

CONSTANTS
    Submission,
    Tests,          \* how many tests the problem of each submission has
    Problem,        \* the problem of each submission, all by one user
    Memory,         \* what a run may use, in KB
    Faults,         \* whether the database, the storage or the broker may fail
    MaxDeliveries,  \* bound: how often a message is delivered
    MaxCrashes      \* bound: crashes of the process

Delivery == Submission \X (1 .. MaxDeliveries)

ASSUME LifecycleAssumption ==
    /\ Tests \in [Submission -> Nat]
    /\ DOMAIN Problem = Submission
    /\ Memory \subseteq Nat
    /\ Faults \in BOOLEAN
    /\ MaxDeliveries \in Nat
    /\ MaxCrashes \in Nat

VARIABLES
    request,     \* where the submit handler of a submission is
    row,         \* Submission.verdicate in the database
    queued,      \* the submissions whose message is in the topic
    stage,       \* where judgeSubmission is, for each delivery
    answer,      \* the statuses executeBatch has returned to it
    matching,    \* the tests whose output is the expected one
    resultRows,  \* the lists of SubmissionResult rows, in order of insertion
    crashes

vars == <<request, row, queued, stage, answer, matching, resultRows, crashes>>

handlers == <<request, queued>>

NoRow == "no_row"

Verdict == {"ACC", "WA", "RE", "TLE", "MLE", "SE", "CE"}

Judging == {"load", "execute", "update", "insert"}

Ended == {"ended", "failed", "torn"}

Exec == INSTANCE Batch
            WITH Job <- Delivery,
                 Tests <- [d \in Delivery |-> Tests[d[1]]],
                 state <- [d \in Delivery |->
                              IF stage[d] \in {"none", "load"} THEN "pending"
                              ELSE IF stage[d] = "execute" THEN "running"
                              ELSE "answered"],
                 answer <- answer

-----------------------------------------------------------------------------
(* validateResults: one verdict per test, up to the first status that is   *)
(* not OK; a wrong answer does not end the list.                           *)
FirstNotOk(status) ==
    LET bad == SelectInSeq(status, LAMBDA s : s # "OK")
    IN  IF bad = 0 THEN Len(status) ELSE bad

(* Faulty variant: the outputs are not compared.                           *)
ValidateNoOutput(status, match) == [i \in 1 .. FirstNotOk(status) |-> status[i]]

ValidateResults(status, match) ==
    [i \in 1 .. FirstNotOk(status) |->
        IF status[i] # "OK" THEN status[i]
        ELSE IF i \in match THEN "ACC" ELSE "WA"]

(* Faulty variant: without the break the last failure wins.                *)
FinalVerdictLast(verdicts) ==
    LET failed == SelectLastInSeq(verdicts, LAMBDA v : v # "ACC")
    IN  IF failed = 0 THEN "ACC" ELSE verdicts[failed]

(* The verdict of the submission: the first one that is not ACC.           *)
FinalVerdict(verdicts) ==
    LET failed == SelectInSeq(verdicts, LAMBDA v : v # "ACC")
    IN  IF failed = 0 THEN "ACC" ELSE verdicts[failed]

Verdicts(d) == ValidateResults(answer[d], matching[d])

(* memory_mb is the KB reported by isolate over 1024 with two digits; the  *)
(* column is an Int, and the Prisma client refuses a fraction.             *)
WholeMegabytes(kb) == ((kb * 100 + 512) \div 1024) % 100 = 0

(* The largest memory of a batch; a result without a meta file counts as 0,*)
(* which every CE is, and an SE may be.                                    *)
Peak(d) ==
    LET seen == {Verdicts(d)[i] : i \in DOMAIN Verdicts(d)}
    IN  (IF seen \subseteq {"CE"} THEN {} ELSE Memory) \union
        (IF seen \subseteq {"CE", "SE"} THEN {0} ELSE {})

-----------------------------------------------------------------------------
Init ==
    /\ request = [s \in Submission |-> "new"]
    /\ row = [s \in Submission |-> NoRow]
    /\ queued = {}
    /\ stage = [d \in Delivery |-> "none"]
    /\ answer = [d \in Delivery |-> <<>>]
    /\ matching = [d \in Delivery |-> {}]
    /\ resultRows = [s \in Submission |-> <<>>]
    /\ crashes = 0

judge == <<stage, answer, matching, resultRows>>

(* Faulty variant: the message is sent before the row is stored.           *)
SendThenStore(s) ==
    /\ request[s] = "new"
    /\ request' = [request EXCEPT ![s] = "stored"]
    /\ queued' = queued \union {s}
    /\ UNCHANGED <<row, judge, crashes>>

(* submit, up to the answer of the database; an unknown problem is a 404.  *)
StoreSubmission(s) ==
    /\ request[s] = "new"
    /\ request' = [request EXCEPT ![s] = "stored"]
    /\ row' = [row EXCEPT ![s] = "PENDING"]
    /\ UNCHANGED <<queued, judge, crashes>>

RefuseSubmission(s) ==
    /\ request[s] = "new"
    /\ request' = [request EXCEPT ![s] = "failed"]
    /\ UNCHANGED <<row, queued, judge, crashes>>

(* sendMessage: all replicas have it, and the client gets its 201.         *)
SendMessage(s) ==
    /\ request[s] = "stored"
    /\ queued' = queued \union {s}
    /\ request' = [request EXCEPT ![s] = "acknowledged"]
    /\ UNCHANGED <<row, judge, crashes>>

(* sendMessage throws; a timeout does not tell whether the broker has it.  *)
SendFails(s) ==
    /\ Faults
    /\ request[s] = "stored"
    /\ request' = [request EXCEPT ![s] = "failed"]
    /\ queued' \in {queued, queued \union {s}}
    /\ UNCHANGED <<row, judge, crashes>>

-----------------------------------------------------------------------------
Goto(d, where) == stage' = [stage EXCEPT ![d] = where]

(* The worker hands a message to judgeSubmission, for the first time or    *)
(* again.  (Of the bounded deliveries one is kept for after each crash.)   *)
Deliver(s, n) ==
    /\ s \in queued
    /\ stage[<<s, n>>] = "none"
    /\ n > 1 => stage[<<s, n - 1>>] # "none"
    /\ n + (MaxCrashes - crashes) <= MaxDeliveries
    /\ Goto(<<s, n>>, "load")
    /\ UNCHANGED <<handlers, row, answer, matching, resultRows, crashes>>

(* The tests and the limits have been read.                                *)
Load(d) ==
    /\ stage[d] = "load"
    /\ Goto(d, "execute")
    /\ UNCHANGED <<handlers, row, answer, matching, resultRows, crashes>>

(* executeBatch returns; the verdicts are computed before the next await.  *)
Execute(d) ==
    /\ stage[d] = "execute"
    /\ \E r \in Exec!Answers(Tests[d[1]]) :
          /\ answer' = [answer EXCEPT ![d] = r]
          /\ \E ok \in SUBSET {i \in DOMAIN r : r[i] = "OK"} :
                matching' = [matching EXCEPT ![d] = ok]
    /\ Goto(d, "update")
    /\ UNCHANGED <<handlers, row, resultRows, crashes>>

(* Faulty variant: the rows are never written.                             *)
InsertNothing(d) ==
    /\ stage[d] = "insert"
    /\ Goto(d, "ended")
    /\ UNCHANGED <<handlers, row, answer, matching, resultRows, crashes>>

(* updateSubmission.                                                       *)
Update(d) ==
    /\ stage[d] = "update"
    /\ \E kb \in Peak(d) : WholeMegabytes(kb)
    /\ row' = [row EXCEPT ![d[1]] = FinalVerdict(Verdicts(d))]
    /\ Goto(d, "insert")
    /\ UNCHANGED <<handlers, answer, matching, resultRows, crashes>>

(* Prisma refuses the value: judgeSubmission throws before any write.      *)
UpdateRefused(d) ==
    /\ stage[d] = "update"
    /\ \E kb \in Peak(d) : ~ WholeMegabytes(kb)
    /\ Goto(d, "failed")
    /\ UNCHANGED <<handlers, row, answer, matching, resultRows, crashes>>

(* addSubmissionResults, a second write in a transaction of its own.       *)
InsertResults(d) ==
    /\ stage[d] = "insert"
    /\ resultRows' = [resultRows EXCEPT ![d[1]] = Append(@, Verdicts(d))]
    /\ Goto(d, "ended")
    /\ UNCHANGED <<handlers, row, answer, matching, crashes>>

(* A call that throws: processMessage logs it and goes on to its finally   *)
(* block, so the message is not delivered again because of it.  A failed   *)
(* insert leaves a verdict without rows.                                   *)
JudgeFails(d) ==
    /\ Faults
    /\ stage[d] \in {"load", "update", "insert"}
    /\ Goto(d, IF stage[d] = "insert" THEN "torn" ELSE "failed")
    /\ UNCHANGED <<handlers, row, answer, matching, resultRows, crashes>>

(* The process dies, between any two steps.                                *)
Crash ==
    /\ crashes < MaxCrashes
    /\ crashes' = crashes + 1
    /\ request' = [s \in Submission |->
                      IF request[s] = "stored" THEN "failed" ELSE request[s]]
    /\ stage' = [d \in Delivery |->
                    IF stage[d] \in Judging THEN "lost" ELSE stage[d]]
    /\ UNCHANGED <<row, queued, answer, matching, resultRows>>

Handle(s) == SendMessage(s) \/ SendFails(s)

Judge(d) ==
    \/ Load(d) \/ Execute(d) \/ Update(d) \/ UpdateRefused(d)
    \/ InsertResults(d) \/ JudgeFails(d)

Next ==
    \/ \E s \in Submission :
          \/ StoreSubmission(s) \/ RefuseSubmission(s) \/ Handle(s)
          \/ \E n \in 1 .. MaxDeliveries : Deliver(s, n)
    \/ \E d \in Delivery : Judge(d)
    \/ Crash

Spec == Init /\ [][Next]_vars

(* A delivery that ends without having been lost lets the offset complete. *)
Processed(s) == \E n \in 1 .. MaxDeliveries : stage[<<s, n>>] \in Ended

-----------------------------------------------------------------------------
(* getSolvedProblems and getsolvedProblemsCount: the problems of the       *)
(* user's rows whose verdict is 'ACCEPTED'.                                *)
SolvedProblems == {Problem[s] : s \in {t \in Submission : row[t] = "ACCEPTED"}}

(* Types of the rows and of what the handlers keep.                        *)
TypeOK ==
    /\ request \in [Submission -> {"new", "stored", "acknowledged", "failed"}]
    /\ row \in [Submission -> Verdict \union {"PENDING", NoRow}]
    /\ queued \subseteq Submission
    /\ stage \in [Delivery -> Judging \union Ended \union {"none", "lost"}]
    /\ answer \in [Delivery -> Seq(Exec!Status)]
    /\ matching \in [Delivery -> SUBSET Nat]
    /\ \A d \in Delivery :
           /\ answer[d] \in Exec!Answers(Tests[d[1]]) \union {<<>>}
           /\ matching[d] \subseteq {i \in DOMAIN answer[d] : answer[d][i] = "OK"}
    /\ resultRows \in [Submission -> Seq(Seq(Verdict))]
    /\ crashes \in 0 .. MaxCrashes

(* The worker never judges a submission whose row is not there yet, in     *)
(* which case updateSubmission would throw: submit stores, then sends.     *)
MessageHasRow == \A s \in queued : row[s] # NoRow

(* A verdict is what some delivery saw: the tests before one passed, and   *)
(* that one failed that way; ACC needs all of them to have passed.         *)
Passed(d, i) == answer[d][i] = "OK" /\ i \in matching[d]

Explains(d, v) ==
    \/ v = "ACC" /\ \A i \in DOMAIN answer[d] : Passed(d, i)
    \/ \E i \in DOMAIN answer[d] :
          /\ ~ Passed(d, i)
          /\ \A j \in 1 .. i - 1 : Passed(d, j)
          /\ v = IF answer[d][i] = "OK" THEN "WA" ELSE answer[d][i]

(* The verdict of a row is the first failure of one of its judgings,       *)
(* however often and in whichever order its deliveries were judged.        *)
VerdictIsFirstFailure ==
    \A s \in Submission : row[s] \in Verdict =>
        \E n \in 1 .. MaxDeliveries :
            /\ stage[<<s, n>>] \notin {"none", "load", "execute"}
            /\ Explains(<<s, n>>, row[s])

(* Once no delivery is between its two writes and none was cut off there,  *)
(* the rows of some delivery give the verdict that is stored.              *)
RowsExplainVerdict ==
    \A s \in Submission :
        (/\ row[s] \in Verdict
         /\ \A n \in 1 .. MaxDeliveries :
                stage[<<s, n>>] \notin {"insert", "torn", "lost"})
        => \E k \in DOMAIN resultRows[s] : FinalVerdict(resultRows[s][k]) = row[s]

(* README: the judge "determines accurate verdicts (e.g., ACC, WA), and    *)
(* commits the metrics to the database": a message that has been processed *)
(* leaves a verdict.  It holds while no judging throws.                    *)
ProcessedHasVerdict == \A s \in Submission : Processed(s) => row[s] \in Verdict

(* README: the verdict of an accepted submission is "ACC", and its problem *)
(* is one that /user/solved-problems lists.                                *)
AcceptedIsSolved ==
    \A s \in Submission : row[s] = "ACC" => Problem[s] \in SolvedProblems

=============================================================================
