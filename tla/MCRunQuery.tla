----------------------------- MODULE MCRunQuery -----------------------------
(***************************************************************************)
(* TLC instances of RunQuery: one caller with every kind of row limit and  *)
(* offset, and two callers that share a pool and an allowlist.             *)
(***************************************************************************)
EXTENDS RunQuery, TLC

\* Row limits and offsets on both sides of zero.
EdgeCaps == {-1, 0, 2}
EdgeMaxRows == {-1, 0, 1, 3}
EdgeOffsets == {-1, 0, 1}

\* Callers and connections are interchangeable.
Symm == Permutations(Queries) \cup Permutations(Conns)

=============================================================================
