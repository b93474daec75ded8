--------------------------- MODULE MCEmailLogin ---------------------------
(***************************************************************************)
(* Small instances of EmailLogin for TLC: two spellings of one address and *)
(* another address.                                                        *)
(***************************************************************************)
EXTENDS EmailLogin

Spellings == {"ann", "ANN", "bob"}
LowerCase == [e \in Spellings |-> IF e = "ANN" THEN "ann" ELSE e]

\* A new project, and one with a deactivated account, its address as typed.
NoAccounts == << >>
Deactivated == << [email |-> "ANN", active |-> FALSE] >>
=============================================================================
