--------------------------- MODULE MCAppleSync ---------------------------
(***************************************************************************)
(* Small instances of AppleSync for TLC.                                   *)
(***************************************************************************)
EXTENDS AppleSync, TLC

\* API answers: complete ones, or items without transaction and renewal info.
FullShapes == {[tx |-> TRUE, renewal |-> TRUE]}
MixedShapes == FullShapes \cup {[tx |-> FALSE, renewal |-> FALSE]}

\* Accounts are interchangeable, and so are the workers of a kind and the
\* subscriptions of a group, if all or none of them are dated.
Interchangeable ==
  Permutations(Users) \cup Permutations(Web) \cup UNION {Permutations(g) : g \in Groups}
=============================================================================
