------------------------ MODULE MCConnectionManager ------------------------
(***************************************************************************)
(* TLC instance of ConnectionManager.  The add calls are a finite budget,  *)
(* so the instance stops when they are used up.                            *)
(***************************************************************************)
EXTENDS ConnectionManager, TLC

\* Calls are interchangeable; names are not (one has an SSH section).
Symm == Permutations(Calls)

=============================================================================
