----------------------------- MODULE MCOnboarding -----------------------------
(* Instances of Onboarding for TLC. *)
EXTENDS Onboarding, TLC

(* The decision texts of migration 0003, and the set the code needs: the       *)
(* migration says provision_ambiguous where the code writes                    *)
(* provisioning_ambiguous.                                                     *)
CheckAsMigrated ==
  {"approved", "rejected", "invited", "provisioning_failed", "active",
   "activation_failed", "provision_ambiguous", "activation_ambiguous"}
CheckRepaired == CheckAsMigrated \cup {"provisioning_ambiguous"}

===============================================================================
