------------------------------ MODULE MCJwksCache ------------------------------
(* Instance of JwksCache for TLC; TLC compares Never with times, so it is a    *)
(* negative number.                                                            *)
EXTENDS JwksCache, TLC

MinusOne == -1

(* Neither keys nor requests differ. *)
Interchangeable == Permutations(Keys) \cup Permutations(Verifiers)

===============================================================================
