------------------------------ MODULE MCAccounts ------------------------------
(* Requests are interchangeable, and so are users.                         *)
EXTENDS Accounts, TLC

MCSymmetry == Permutations(Request) \union Permutations(Email)

=============================================================================
