----------------------------- MODULE MCFeedback -----------------------------
(* Feedback on small sets.  Processes, entries and queries are              *)
(* interchangeable: no state or property tells one from another.            *)
EXTENDS Feedback, TLC

Symmetry == Permutations(Processes) \cup Permutations(Entries) \cup Permutations(Queries)

=============================================================================
