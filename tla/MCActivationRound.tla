--------------------------- MODULE MCActivationRound ---------------------------
(* An instance of ActivationRound for TLC: more roles than there are slots,    *)
(* each of which may have lost its group.                                      *)
EXTENDS ActivationRound

FourRoles  == <<"clerk", "officer", "pilot", "ranger">>

===============================================================================
