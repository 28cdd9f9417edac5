-------------------------------- MODULE Batch ---------------------------------
(***************************************************************************)
(* What executeBatch promises to the judge, without boxes, files and       *)
(* sandbox reports: a call ends with one status for each test, and a       *)
(* compile error is the status of all the tests or of none.                *)
(***************************************************************************)
EXTENDS Naturals, Sequences

CONSTANTS
    Job,    \* the calls of executeBatch
    Tests   \* how many tests a call is given

VARIABLES
    state,  \* of each call: "pending", "running", "answered" or "lost"
    answer  \* the statuses a call has returned

batchVars == <<state, answer>>

\* The status of an ExecutionResult that comes from running a test.
RunStatus == {"OK", "RE", "TLE", "MLE", "SE"}

Status == RunStatus \union {"CE"}

Uniform(n, status) == [i \in 1 .. n |-> status]

Answers(n) == [1 .. n -> RunStatus] \union {Uniform(n, "CE")}

Init ==
    /\ state = [j \in Job |-> "pending"]
    /\ answer = [j \in Job |-> <<>>]

Begin(j) ==
    /\ state[j] = "pending"
    /\ state' = [state EXCEPT ![j] = "running"]
    /\ UNCHANGED answer

Return(j) ==
    /\ state[j] \in {"pending", "running"}
    /\ state' = [state EXCEPT ![j] = "answered"]
    /\ \E r \in Answers(Tests[j]) : answer' = [answer EXCEPT ![j] = r]

(* A crash of the process takes every call that runs with it.              *)
Lose ==
    /\ state' = [j \in Job |-> IF state[j] = "running" THEN "lost" ELSE state[j]]
    /\ UNCHANGED answer

Next == Lose \/ \E j \in Job : Begin(j) \/ Return(j)

BatchSpec == Init /\ [][Next]_batchVars

=============================================================================
