------------------------- MODULE MCKnowledgeReview -------------------------
(* Small instances of KnowledgeReview for TLC.                             *)
EXTENDS KnowledgeReview, TLC

CONSTANTS c1, c2, c3

\* Every candidate conflicts with every other one.
AllConflict == {<<c, d>> \in Candidates \X Candidates : c # d}

Symmetry == Permutations(Reviewers \ LongNames) \cup Permutations(Requests)
=============================================================================
