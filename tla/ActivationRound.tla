---------------------------- MODULE ActivationRound ----------------------------
(* GroupAssignment inside Onboarding: the fan-out is what Onboarding takes the  *)
(* Keycloak calls of one claimed activation to be.  A call is on the wire from *)
(* the moment its goroutine starts, which may send it after the fan-out has    *)
(* returned.                                                                   *)
EXTENDS GroupAssignment

CONSTANTS Request, Operator, Requester, ServiceActor, Handler, Email, Invite, NoRow, NoJob

(* What got the request this far: SubmitInput.Validate wants a role, an        *)
(* approver other than the requester decides.                                  *)
ASSUME SomeRoleIsRequested == Order # <<>>
ASSUME ApproverIsNotRequester == Operator # Requester
ASSUME InviteIsNoRole == Invite \notin Roles

Evidence(text) == [decision |-> text, actor |-> Operator]

Pending(phases) == IF pc = "returned" THEN {} ELSE {r \in Roles : put[r] \in phases}

Job ==
  [request |-> Request, kind |-> "activate", operator |-> Operator,
   todo |-> Pending({"none"}), waiting |-> Pending({"started", "sent"}),
   failed |-> failed # {} \/ result = "error"]

Calls == Roles \cup {Invite}

Onboarding == INSTANCE Onboarding WITH
  Requests <- {Request}, Emails <- {Email}, Subjects <- {Operator, Requester},
  Approvers <- {Operator}, Handlers <- {Handler},
  DecisionCheck <- {}, ExecWhileIterating <- FALSE,
  row <- [r \in {Request} |-> [email |-> Email, requester |-> Requester, roles |-> Roles]],
  status <- [r \in {Request} |-> "activating"],
  op <- [r \in {Request} |-> [k \in {"provision", "activate"} |->
          IF k = "provision" THEN "succeeded" ELSE "running"]],
  overdue <- {},
  decisions <- [r \in {Request} |-> <<Evidence("approved"), Evidence("invited")>>],
  handler <- [h \in {Handler} |-> Job],
  wire <- {<<Request, r>> : r \in {x \in Roles : put[x] # "none"} \ members},
  delivered <- [r \in {Request} |-> [c \in Calls |->
                 IF c = Invite \/ c \in members THEN 1 ELSE 0]]

ASSUME NullsAreDistinct == NoRow \notin Onboarding!Row /\ NoJob \notin Onboarding!Job

(* Every state of the fan-out is one the onboarding workflow can be in. *)
FitsOnboarding == Onboarding!IndInv

(* Every step of the fan-out - the early return for an unmapped role, which    *)
(* fails all calls at once, included - is a step of a handler or of Keycloak   *)
(* in Onboarding, or invisible there.                                          *)
StepsAreOnboardings == [][Onboarding!Next]_(Onboarding!vars)

===============================================================================
