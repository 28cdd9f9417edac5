---------------------------- MODULE MCJudgeSystem -----------------------------
(* Submissions to one partition and one box: of two, one must wait.  3340  *)
(* KB is not a whole number of megabytes.                                  *)
EXTENDS JudgeSystem

MCTests == [s \in Submission |-> 0]
MCOneTest == [s \in Submission |-> 1]
MCProblem == [s \in Submission |-> "two sum"]

=============================================================================
