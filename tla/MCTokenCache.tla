------------------------------ MODULE MCTokenCache ------------------------------
(* Instances of TokenCache for TLC: a token that outlives the skew and one     *)
(* that does not, in ticks of 5 s; a token that outlives it in ticks of 2.5 s. *)
EXTENDS TokenCache

LongAndShort == {5, 3}
Long == {14}

===============================================================================
