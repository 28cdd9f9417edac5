----------------------------- MODULE MCTestCases ------------------------------
(* Three judgings of one problem, whose files need not fit a page.         *)
EXTENDS TestCases

CONSTANTS a, b, c

MCCaller == {a, b, c}
MCKeyOf == [x \in Caller |-> "tests"]

=============================================================================
