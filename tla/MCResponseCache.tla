-------------------------- MODULE MCResponseCache ---------------------------
(***************************************************************************)
(* Model-checking instance of ResponseCache.  Generations and tokens are   *)
(* drawn with CHOOSE, so only the requests are interchangeable.            *)
(***************************************************************************)
EXTENDS ResponseCache, TLC

ReaderSymmetry == Permutations(Readers)

=============================================================================
