---------------------------- MODULE MCThreadChat ----------------------------
(***************************************************************************)
(* Small instances of ThreadChat for TLC.                                  *)
(***************************************************************************)
EXTENDS ThreadChat

\* The polls of clients overlap, those of staff do not.
ClientsOverlap == [w \in Widgets |-> IF w \in Staff THEN 1 ELSE 2]
=============================================================================
