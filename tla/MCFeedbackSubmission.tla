------------------------ MODULE MCFeedbackSubmission ------------------------
(* Small instances of FeedbackSubmission for TLC.                          *)
EXTENDS FeedbackSubmission, TLC

Symmetry == Permutations(Calls) \cup Permutations(Users)
              \cup Permutations(Traces)
=============================================================================
