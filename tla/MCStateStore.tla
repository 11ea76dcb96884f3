--------------------------- MODULE MCStateStore ---------------------------
(* Instances of StateStore for TLC. *)
EXTENDS StateStore, TLC

\* The payloads are interchangeable: no action looks at one.
PayloadSymmetry == Permutations(Payloads)
=============================================================================
