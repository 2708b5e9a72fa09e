------------------------------- MODULE MCService -------------------------------
(* Instances of Service for TLC. *)
EXTENDS Service, TLC

(* The decision texts the code writes. *)
CheckRepaired ==
  {"approved", "rejected", "invited", "active", "provisioning_ambiguous",
   "activation_ambiguous"}

===============================================================================
