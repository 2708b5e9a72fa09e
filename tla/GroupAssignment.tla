---------------------------- MODULE GroupAssignment ----------------------------
(* KeycloakClient.AssignApprovedRoleGroups: one activation's fan-out of group  *)
(* PUTs.  A loop starts one goroutine per role, at most Limit at a time        *)
(* (errgroup.SetLimit), then waits for all of them and joins their errors; a   *)
(* role without a group mapping makes it return from the middle of the loop.   *)
EXTENDS Integers, Sequences, FiniteSets

CONSTANTS
  Order,    \* the requested roles, in the order of the slice
  Limit     \* maxConcurrentGroupPUTs

ASSUME LimitIsPositive == Limit \in Nat \ {0}
ASSUME RolesAreDistinct == \A i, j \in DOMAIN Order : Order[i] = Order[j] => i = j

Roles == {Order[i] : i \in DOMAIN Order}

ASSUME OrderIsASequence == Order \in Seq(Roles)

VARIABLES
  mapped,   \* the roles that have an organization group ID, fixed at start
  pc,       \* "token", "loop", "wait" or "returned"
  next,     \* index of the loop
  put,      \* the goroutine of each role
  failed,   \* the roles whose entry of errs is set
  result,   \* "none", "nil" or "error"
  reported, \* the roles the returned error says have not been assigned
  expired,  \* the handler's context is done
  members   \* the groups Keycloak has added the user to

vars == <<mapped, pc, next, put, failed, result, reported, expired, members>>

(* A goroutine is started, sends its PUT, and ends: with an answer, without    *)
(* having sent, or abandoning a PUT that Keycloak may still process.           *)
Phases  == {"none", "started", "sent", "ended", "abandoned"}
Running == {r \in Roles : put[r] \in {"started", "sent"}}

-------------------------------------------------------------------------------
(* Mistakes this code could have made, each in place of the definition below    *)
(* whose name it starts with.                                                  *)

(* The status of the response is not looked at. *)
AnswerUnchecked(r, ok) ==
  /\ put[r] = "sent"
  /\ ok => r \in members
  /\ put' = [put EXCEPT ![r] = "ended"]
  /\ UNCHANGED <<mapped, pc, next, failed, result, reported, expired, members>>

(* group.Wait is missing. *)
FinishAtOnce ==
  /\ pc = "wait"
  /\ pc' = "returned"
  /\ result' = IF failed = {} THEN "nil" ELSE "error"
  /\ reported' = failed
  /\ UNCHANGED <<mapped, next, put, failed, expired, members>>

(* The first error of errs is returned in place of their join. *)
FinishWithOneError ==
  /\ pc = "wait"
  /\ Running = {}
  /\ pc' = "returned"
  /\ result' = IF failed = {} THEN "nil" ELSE "error"
  /\ reported' = {Order[i] : i \in {j \in DOMAIN Order :
                     Order[j] \in failed /\ \A k \in 1..(j - 1) : Order[k] \notin failed}}
  /\ UNCHANGED <<mapped, next, put, failed, expired, members>>

(* The HTTP client has no timeout and the request no context. *)
AbandonNever(r) == FALSE /\ put' = [put EXCEPT ![r] = "abandoned"]

(* A role without a mapping is skipped. *)
UnmappedSkipped ==
  /\ pc = "loop"
  /\ next <= Len(Order)
  /\ Order[next] \notin mapped
  /\ next' = next + 1
  /\ UNCHANGED <<mapped, pc, put, failed, result, reported, expired, members>>

(* group.SetLimit is missing. *)
StartUnlimited ==
  /\ pc = "loop"
  /\ next <= Len(Order)
  /\ Order[next] \in mapped
  /\ put' = [put EXCEPT ![Order[next]] = "started"]
  /\ next' = next + 1
  /\ UNCHANGED <<mapped, pc, failed, result, reported, expired, members>>

(* A second loop starts the failed roles again. *)
FinishByRetrying ==
  /\ pc = "wait"
  /\ Running = {}
  /\ IF failed = {} THEN pc' = "returned" /\ result' = "nil" /\ UNCHANGED put
                    ELSE /\ put' = [r \in Roles |-> IF r \in failed THEN "started" ELSE put[r]]
                         /\ UNCHANGED <<mapped, pc, result>>
  /\ failed' = {}
  /\ UNCHANGED <<mapped, next, reported, expired, members>>

-------------------------------------------------------------------------------
Init ==
  /\ mapped \in SUBSET Roles
  /\ pc = "token"
  /\ next = 1
  /\ put = [r \in Roles |-> "none"]
  /\ failed = {}
  /\ result = "none"
  /\ reported = {}
  /\ expired = FALSE
  /\ members = {}

(* clientCredentialsToken returns a token, or its error ends the call. *)
Token ==
  /\ pc = "token"
  /\ \/ pc' = "loop" /\ UNCHANGED result
     \/ pc' = "returned" /\ result' = "error"
  /\ UNCHANGED <<mapped, next, put, failed, reported, expired, members>>

(* group.Go, which blocks while Limit goroutines run. *)
Start ==
  /\ pc = "loop"
  /\ next <= Len(Order)
  /\ Order[next] \in mapped
  /\ Cardinality(Running) < Limit
  /\ put' = [put EXCEPT ![Order[next]] = "started"]
  /\ next' = next + 1
  /\ UNCHANGED <<mapped, pc, failed, result, reported, expired, members>>

(* A role without a mapping: the call returns without waiting, and with an     *)
(* error for that role alone - what errs holds by then is dropped.             *)
Unmapped ==
  /\ pc = "loop"
  /\ next <= Len(Order)
  /\ Order[next] \notin mapped
  /\ pc' = "returned"
  /\ result' = "error"
  /\ reported' = {Order[next]}
  /\ UNCHANGED <<mapped, next, put, failed, expired, members>>

AllStarted ==
  /\ pc = "loop"
  /\ next > Len(Order)
  /\ pc' = "wait"
  /\ UNCHANGED <<mapped, next, put, failed, result, reported, expired, members>>

Send(r) ==
  /\ put[r] = "started"
  /\ ~expired
  /\ put' = [put EXCEPT ![r] = "sent"]
  /\ UNCHANGED <<mapped, pc, next, failed, result, reported, expired, members>>

(* No connection, or the context is done before the PUT is sent. *)
FailUnsent(r) ==
  /\ put[r] = "started"
  /\ put' = [put EXCEPT ![r] = "ended"]
  /\ failed' = failed \cup {r}
  /\ UNCHANGED <<mapped, pc, next, result, reported, expired, members>>

(* Keycloak processes a PUT that was sent, also one the client abandoned. *)
Process(r) ==
  /\ put[r] \in {"sent", "abandoned"}
  /\ r \notin members
  /\ members' = members \cup {r}
  /\ UNCHANGED <<mapped, pc, next, put, failed, result, reported, expired>>

(* Keycloak answers: 204 once it has processed the PUT, or an error status. *)
Answer(r, ok) ==
  /\ put[r] = "sent"
  /\ ok => r \in members
  /\ put' = [put EXCEPT ![r] = "ended"]
  /\ failed' = IF ok THEN failed ELSE failed \cup {r}
  /\ UNCHANGED <<mapped, pc, next, result, reported, expired, members>>

(* The connection breaks, the client's own timeout or the context ends it. *)
Abandon(r) ==
  /\ put[r] = "sent"
  /\ put' = [put EXCEPT ![r] = "abandoned"]
  /\ failed' = failed \cup {r}
  /\ UNCHANGED <<mapped, pc, next, result, reported, expired, members>>

(* group.Wait returns; errors.Join keeps every error a goroutine has set, and  *)
(* is nil if none has.                                                         *)
Finish ==
  /\ pc = "wait"
  /\ Running = {}
  /\ pc' = "returned"
  /\ result' = IF failed = {} THEN "nil" ELSE "error"
  /\ reported' = failed
  /\ UNCHANGED <<mapped, next, put, failed, expired, members>>

(* The 20 s timeout, the client's disconnect, or the handler's deferred cancel *)
(* after the call has returned.                                                *)
Expire ==
  /\ ~expired
  /\ expired' = TRUE
  /\ UNCHANGED <<mapped, pc, next, put, failed, result, reported, members>>

-------------------------------------------------------------------------------
Loop == Token \/ Start \/ Unmapped \/ AllStarted \/ Finish
Goroutine(r) == Send(r) \/ FailUnsent(r) \/ Abandon(r)
Keycloak(r) == Process(r) \/ \E ok \in BOOLEAN : Answer(r, ok)

Next ==
  \/ Loop
  \/ \E r \in Roles : Goroutine(r) \/ Keycloak(r)
  \/ Expire

Spec == Init /\ [][Next]_vars

(* The scheduler runs every goroutine, and the HTTP client's timeout ends what *)
(* Keycloak, which owes nothing, does not answer.                              *)
FairSpec == Spec /\ WF_vars(Loop) /\ \A r \in Roles : WF_vars(Goroutine(r))

-------------------------------------------------------------------------------
(* Properties. *)

(* The locals of AssignApprovedRoleGroups; "at most maxConcurrentGroupPUTs in  *)
(* flight" (keycloak.go:119).                                                  *)
TypeOK ==
  /\ mapped \subseteq Roles
  /\ pc \in {"token", "loop", "wait", "returned"}
  /\ next \in 1..(Len(Order) + 1)
  /\ put \in [Roles -> Phases]
  /\ failed \subseteq Roles
  /\ result \in {"none", "nil", "error"}
  /\ reported \subseteq Roles
  /\ expired \in BOOLEAN
  /\ members \subseteq Roles
  /\ Cardinality(Running) <= Limit

(* nil is returned only if all roles are assigned, whatever PUTs are still     *)
(* being processed; and when the loop has run through, the error returned      *)
(* names every role that is not assigned: "all errors are aggregated (joined)  *)
(* so a partial failure is honestly reported, never silently dropped"          *)
(* (keycloak.go:120-121).  Of the return in the middle of the loop that        *)
(* comment is not true: Unmapped drops the errors of the PUTs before it.       *)
HonestResult ==
  pc = "returned" =>
    /\ result = "nil" => Roles \subseteq members
    /\ next > Len(Order) => Roles \ members \subseteq reported

(* When every role has a group, which LoadConfig ensures for the configured    *)
(* catalogue, the call leaves no goroutine behind that could start a PUT after *)
(* the handler has recorded the outcome.                                       *)
LeavesNothingRunning ==
  (Roles \subseteq mapped /\ pc = "returned") => Running = {}

(* The call returns and its goroutines end although Keycloak may never answer  *)
(* and the loop blocks while all slots are taken.                              *)
FanOutEnds == <>[](pc = "returned" /\ Running = {})

===============================================================================
