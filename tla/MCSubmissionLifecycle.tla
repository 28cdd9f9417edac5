------------------------ MODULE MCSubmissionLifecycle ------------------------
(* 1024 KB is a whole number of megabytes, 3340 KB is not.                 *)
EXTENDS SubmissionLifecycle

MCTwoTests == [s \in Submission |-> 2]
MCOneTest == [s \in Submission |-> 1]
MCProblem == [s \in Submission |-> "two sum"]

=============================================================================
