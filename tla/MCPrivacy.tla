------------------------------- MODULE MCPrivacy -------------------------------
(* Instances of Privacy for TLC. *)
EXTENDS Privacy, TLC

Interchangeable == Permutations(Subjects)

===============================================================================
