----------------------------- MODULE MCBroker -----------------------------
(* Bounded instances of ApprovalBroker for TLC. *)
EXTENDS ApprovalBroker, TLC

\* Requests are interchangeable, and so are edits: the specification compares
\* them for equality only, and no CHOOSE ranges over them.  Used for safety only.
BrokerSymmetry == Permutations(Requests) \cup Permutations(Edits)
=============================================================================
