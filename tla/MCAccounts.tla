----------------------------- MODULE MCAccounts -----------------------------
(* A TLC instance of Accounts.                                              *)
EXTENDS Accounts, TLC

CONSTANTS e1, t1, m1

Edition(email, phone, name) == [email |-> email, phone |-> phone, nebula |-> None, name |-> name]
MCEditions == {Edition(e1, None, m1), Edition(None, t1, None)}

Symmetry == Permutations(NebulaIds) \cup Permutations(Handlers) \cup Permutations(Persons)
=============================================================================
