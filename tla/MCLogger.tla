-------------------------------- MODULE MCLogger --------------------------------
(* A small instance of Logger.                                             *)
EXTENDS Logger, TLC

\* Goroutines are not told apart.
Symmetric == Permutations(Goroutines)
=============================================================================
