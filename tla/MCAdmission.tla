------------------------------ MODULE MCAdmission ------------------------------
(* An instance of Admission for TLC. *)
EXTENDS Admission

CONSTANTS alice, bob, realm, desk, portal, clerk, pilot, approverRole, officer

(* Each has a gate role somewhere: bob in the realm, alice in a client that    *)
(* one configuration approves and in one that none does.                       *)
GateGrants ==
  {<<bob, realm, approverRole>>, <<alice, desk, officer>>, <<alice, portal, officer>>}

Spell(n, p) == [name |-> n, padded |-> p]

SomeLists ==
  {<<>>, <<Spell(clerk, FALSE), Spell(clerk, TRUE)>>,
   <<Spell(pilot, TRUE), Spell(clerk, FALSE)>>}

Env(mode, approver, clients, catalogue, groups, complete) ==
  [mode |-> mode, approver |-> approver, clients |-> clients,
   catalogue |-> catalogue, groups |-> groups, complete |-> complete]

SomeEnvironments ==
  {Env("jwt", officer, {desk}, {clerk, pilot}, {clerk, pilot}, TRUE),
   Env("trusted_proxy", Unset, {}, {clerk, pilot}, {clerk, pilot}, TRUE),
   Env("jwt", Unset, {desk}, {clerk, pilot}, {clerk}, TRUE),
   Env("none", Unset, {}, {clerk}, {clerk}, TRUE)}

===============================================================================
