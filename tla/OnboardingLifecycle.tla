-------------------------- MODULE OnboardingLifecycle --------------------------
(* What the onboarding workflow promises, without handlers, leases, messages   *)
(* or evidence tables: the life of a request as the people who use the service *)
(* see it, and what Keycloak has done for it.                                  *)
EXTENDS Naturals

CONSTANTS Requests, Roles, Subjects, Invite, Nobody

Kinds == {"provision", "activate"}
Calls == Roles \cup {Invite}

Claimable(k) == IF k = "provision" THEN "approved" ELSE "invited"
Claimed(k)   == IF k = "provision" THEN "provisioning" ELSE "activating"
Achieved(k)  == IF k = "provision" THEN "invited" ELSE "active"
Unclear(k)   == IF k = "provision" THEN "provisioning_ambiguous"
                                   ELSE "activation_ambiguous"

VARIABLES
  stage,    \* where the request stands
  maker,    \* who asked for it
  grant,    \* the roles asked for
  checker,  \* who decided it
  done      \* the calls Keycloak has processed

lifecycle == <<stage, maker, grant, checker, done>>

(* The calls a claim of kind k stands for. *)
Duties(r, k) == IF k = "provision" THEN {Invite} ELSE grant[r]

Init ==
  /\ stage = [r \in Requests |-> "none"]
  /\ maker = [r \in Requests |-> Nobody]
  /\ grant = [r \in Requests |-> {}]
  /\ checker = [r \in Requests |-> Nobody]
  /\ done = [r \in Requests |-> {}]

Submit(r) ==
  /\ stage[r] = "none"
  /\ stage' = [stage EXCEPT ![r] = "submitted"]
  /\ \E s \in Subjects : maker' = [maker EXCEPT ![r] = s]
  /\ \E R \in (SUBSET Roles) \ {{}} : grant' = [grant EXCEPT ![r] = R]
  /\ UNCHANGED <<checker, done>>

(* Somebody other than the maker decides, once. *)
Decide(r) ==
  /\ stage[r] = "submitted"
  /\ \E v \in {"approved", "rejected"} : stage' = [stage EXCEPT ![r] = v]
  /\ \E s \in Subjects \ {maker[r]} : checker' = [checker EXCEPT ![r] = s]
  /\ UNCHANGED <<maker, grant, done>>

Claim(r, k) ==
  /\ stage[r] = Claimable(k)
  /\ stage' = [stage EXCEPT ![r] = Claimed(k)]
  /\ UNCHANGED <<maker, grant, checker, done>>

(* Keycloak does its part, once per call: while the claim is held or after it  *)
(* was given up as unclear, never before and never for an unapproved request.  *)
Effect(r, k, c) ==
  /\ stage[r] \in {Claimed(k), Unclear(k)}
  /\ c \in Duties(r, k) \ done[r]
  /\ done' = [done EXCEPT ![r] = @ \cup {c}]
  /\ UNCHANGED <<stage, maker, grant, checker>>

(* Success is declared only when everything was done. *)
Succeed(r, k) ==
  /\ stage[r] = Claimed(k)
  /\ Duties(r, k) \subseteq done[r]
  /\ stage' = [stage EXCEPT ![r] = Achieved(k)]
  /\ UNCHANGED <<maker, grant, checker, done>>

(* Any number of claims are given up at once; what was done stays unclear. *)
GiveUp(S) ==
  /\ S # {}
  /\ \A r \in S : \E k \in Kinds : stage[r] = Claimed(k)
  /\ stage' = [r \in Requests |->
                IF r \in S
                  THEN IF stage[r] = "provisioning" THEN Unclear("provision")
                                                    ELSE Unclear("activate")
                  ELSE stage[r]]
  /\ UNCHANGED <<maker, grant, checker, done>>

Next ==
  \/ \E r \in Requests : Submit(r) \/ Decide(r)
  \/ \E r \in Requests, k \in Kinds : Claim(r, k) \/ Succeed(r, k)
  \/ \E r \in Requests, k \in Kinds, c \in Calls : Effect(r, k, c)
  \/ \E S \in SUBSET Requests : GiveUp(S)

Spec == Init /\ [][Next]_lifecycle

===============================================================================
