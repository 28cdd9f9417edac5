----------------------------- MODULE MCExecution -----------------------------
(* A C++ and a Python submission that share boxes, two tests each, and one *)
(* whose language or size is refused.                                      *)
EXTENDS Execution

CONSTANTS cpp, python, other

MCJob == {cpp, python, other}
MCTests == [j \in Job |-> 2]
MCCompiled == {cpp}
MCOther == {other}
MCNone == {}
MCLarge == {<<cpp, 1>>}

=============================================================================
