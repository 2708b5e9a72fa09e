------------------------------ MODULE Onboarding ------------------------------
(* The onboarding workflow of the administration service: an onboarding        *)
(* request is submitted, decided, provisioned (Keycloak sends an invitation)   *)
(* and activated (Keycloak adds the user to one group per requested role).     *)
(* PostgreSQL holds three tables: onboarding_requests, onboarding_decisions    *)
(* and onboarding_external_operations.  HTTP handlers claim an operation in    *)
(* one statement, call Keycloak outside any transaction, and record the result *)
(* in a second transaction; a reconciler settles operations whose lease ran    *)
(* out before a result was recorded.                                           *)
EXTENDS Integers, Sequences, FiniteSets

CONSTANTS
  Requests,      \* identifiers of rows of onboarding_requests
  Emails,        \* candidates' e-mail addresses (organization_id is fixed)
  Roles,         \* the approved role catalogue, config.AllowedRoles
  Subjects,      \* authenticated principals
  Approvers,     \* the principals that hold the approver role
  ServiceActor,  \* config.ServiceActorSubject, the reconciler's actor
  Handlers,      \* HTTP handler goroutines that can be in flight
  Invite,        \* the invite-user call (a group PUT is named by its role)
  NoRow, NoJob,  \* the absence of a row, of a job
  DecisionCheck, \* what onboarding_decisions_decision_check admits
  ExecWhileIterating  \* may a transaction Exec while its Query is being read?

ASSUME ConstantsAreFinite ==
  IsFiniteSet(Requests) /\ IsFiniteSet(Roles) /\ IsFiniteSet(Handlers)
ASSUME ApproversAreSubjects == Approvers \subseteq Subjects
ASSUME InviteIsNoRole == Invite \notin Roles
ASSUME DriverIsBoolean == ExecWhileIterating \in BOOLEAN

-------------------------------------------------------------------------------
(* Data. *)

Kinds == {"provision", "activate"}

Statuses ==
  {"submitted", "approved", "provisioning", "rejected", "invited",
   "activating", "activation_failed", "active", "provisioning_failed",
   "provisioning_ambiguous", "activation_ambiguous"}

(* The request status under which each kind of operation runs, and the status  *)
(* (also the text of the decision) of its two outcomes.                        *)
Expected(k)  == IF k = "provision" THEN "provisioning" ELSE "activating"
Achieved(k)  == IF k = "provision" THEN "invited" ELSE "active"
Ambiguous(k) == IF k = "provision" THEN "provisioning_ambiguous"
                                   ELSE "activation_ambiguous"
Claimable(k) == IF k = "provision" THEN "approved" ELSE "invited"

Actors == Subjects \cup {ServiceActor}
Calls  == Roles \cup {Invite}

Decision == [decision: Statuses, actor: Actors]

Row == [email: Emails, requester: Subjects, roles: (SUBSET Roles) \ {{}}]

(* A handler between its claim and the end of its second transaction: the      *)
(* Keycloak calls it has not sent yet, those it waits for, and whether one     *)
(* failed.                                                                     *)
Job == [request: Requests, kind: Kinds, operator: Approvers,
        todo: SUBSET Calls, waiting: SUBSET Calls, failed: BOOLEAN]

ASSUME NullsAreDistinct == NoRow \notin Row /\ NoJob \notin Job

VARIABLES
  row,        \* the immutable columns of onboarding_requests
  status,     \* onboarding_requests.status, "none" before the row exists
  op,         \* onboarding_external_operations.status per request and kind
  overdue,    \* the running operations with lease_until < now()
  decisions,  \* onboarding_decisions per request, in the order of commits
  handler,    \* the job of each handler in flight
  wire,       \* Keycloak calls sent and neither processed nor lost
  delivered   \* how often Keycloak processed each call of each request

vars == <<row, status, op, overdue, decisions, handler, wire, delivered>>

table == <<row, status, op, overdue, decisions>>

-------------------------------------------------------------------------------
(* Constraints PostgreSQL enforces on every statement. *)

(* UNIQUE (organization_id, email, status). *)
UniqueStatus(st, rw) ==
  \A q, r \in Requests :
    (q # r /\ rw[q] # NoRow /\ rw[r] # NoRow /\ rw[q].email = rw[r].email)
      => st[q] # st[r]

Texts(r) == {decisions[r][i].decision : i \in DOMAIN decisions[r]}

(* The decision column of a request's evidence, oldest first. *)
Column(d) == [i \in DOMAIN d |-> d[i].decision]

(* A mistake: the unique index has lost its WHERE. *)
OneApprovalOrRejectionOnly(r, text) == Texts(r) = {}

(* onboarding_one_approval_or_rejection and onboarding_one_activation_outcome. *)
OneApprovalOrRejection(r, text) ==
  text \in {"approved", "rejected"} => Texts(r) \cap {"approved", "rejected"} = {}
OneActivationOutcome(r, text) ==
  text \in {"active", "activation_failed"}
    => Texts(r) \cap {"active", "activation_failed"} = {}

(* The CHECK on decision and the two partial unique indexes. *)
MayRecord(r, text) ==
  /\ text \in DecisionCheck
  /\ OneApprovalOrRejection(r, text)
  /\ OneActivationOutcome(r, text)

Evidence(text, actor) == [decision |-> text, actor |-> actor]

(* The Keycloak calls an operation on request r consists of. *)
CallsOf(r, k) == IF k = "provision" THEN {Invite} ELSE row[r].roles

(* All of the operation's calls have returned. *)
CallsReturned(h) ==
  /\ handler[h] # NoJob
  /\ handler[h].todo = {}
  /\ handler[h].waiting = {}

-------------------------------------------------------------------------------
(* Mistakes this code could have made, each in place of the definition         *)
(* whose name it starts with; every checked property must refute one.          *)

(* The role list is not validated. *)
SubmitUnvalidated(r, s, e, R) ==
  /\ row[r] = NoRow
  /\ row' = [row EXCEPT ![r] = [email |-> e, requester |-> s, roles |-> R]]
  /\ status' = [status EXCEPT ![r] = "submitted"]
  /\ UniqueStatus(status', row')
  /\ UNCHANGED <<op, overdue, decisions, handler, wire, delivered>>

(* The approver may be the requester. *)
DecideOwn(r, s, verdict) ==
  /\ status[r] = "submitted"
  /\ status' = [status EXCEPT ![r] = verdict]
  /\ UniqueStatus(status', row)
  /\ MayRecord(r, verdict)
  /\ decisions' = [decisions EXCEPT ![r] = Append(@, Evidence(verdict, s))]
  /\ UNCHANGED <<row, op, overdue, handler, wire, delivered>>

(* The claim of an operation, from the statuses From, once or more often. *)
ClaimFrom(From, again, h, r, s, k, acked) ==
  /\ handler[h] = NoJob
  /\ status[r] \in From
  /\ op[r][k] = "none" \/ again
  /\ status' = [status EXCEPT ![r] = Expected(k)]
  /\ op' = [op EXCEPT ![r][k] = "running"]
  /\ acked
  /\ handler' = [handler EXCEPT ![h] =
                  [request |-> r, kind |-> k, operator |-> s,
                   todo |-> CallsOf(r, k), waiting |-> {}, failed |-> FALSE]]
  /\ UNCHANGED <<row, overdue, decisions, wire, delivered>>
ClaimUndecided(h, r, s, k, acked) ==
  ClaimFrom({"submitted", Claimable(k)}, FALSE, h, r, s, k, acked)
ClaimAgain(h, r, s, k, acked) ==
  ClaimFrom({Claimable(k), Expected(k)}, TRUE, h, r, s, k, acked)

(* The joined error of the fan-out is dropped. *)
CallsFailUnnoticed(h, C) ==
  /\ handler[h] # NoJob
  /\ C # {}
  /\ C \subseteq handler[h].todo \cup handler[h].waiting
  /\ handler' = [handler EXCEPT ![h].todo = @ \ C, ![h].waiting = @ \ C]
  /\ UNCHANGED <<table, wire, delivered>>

(* The result is recorded whatever became of the operation meanwhile. *)
RecordResultLate(h) ==
  LET r == handler[h].request
      k == handler[h].kind
      text == IF handler[h].failed THEN Ambiguous(k) ELSE Achieved(k)
  IN  /\ CallsReturned(h)
      /\ op' = [op EXCEPT ![r][k] = "succeeded"]
      /\ overdue' = overdue \ {<<r, k>>}
      /\ status' = [status EXCEPT ![r] = text]
      /\ MayRecord(r, text)
      /\ decisions' =
           [decisions EXCEPT ![r] = Append(@, Evidence(text, handler[h].operator))]
      /\ handler' = [handler EXCEPT ![h] = NoJob]
      /\ UNCHANGED <<row, wire, delivered>>

(* Settled operations keep a lease that can run out. *)
LeaseRunsOutWhenSettled(r, k) ==
  /\ op[r][k] # "none"
  /\ <<r, k>> \notin overdue
  /\ overdue' = overdue \cup {<<r, k>>}
  /\ UNCHANGED <<row, status, op, decisions, handler, wire, delivered>>

(* Only provisioning gets a lease. *)
LeaseRunsOutOnProvision(r, k) ==
  /\ k = "provision"
  /\ op[r][k] = "running"
  /\ <<r, k>> \notin overdue
  /\ overdue' = overdue \cup {<<r, k>>}
  /\ UNCHANGED <<row, status, op, decisions, handler, wire, delivered>>

(* The reconciler writes no evidence. *)
ReapSilently(S) ==
  /\ S # {}
  /\ op' = [r \in Requests |-> [k \in Kinds |->
             IF <<r, k>> \in S THEN "ambiguous" ELSE op[r][k]]]
  /\ overdue' = overdue \ S
  /\ status' = [r \in Requests |->
                 IF \E k \in Kinds : <<r, k>> \in S
                   THEN Ambiguous(IF <<r, "activate">> \in S THEN "activate"
                                                             ELSE "provision")
                   ELSE status[r]]
  /\ UNCHANGED <<row, decisions, handler, wire, delivered>>

-------------------------------------------------------------------------------
Init ==
  /\ row = [r \in Requests |-> NoRow]
  /\ status = [r \in Requests |-> "none"]
  /\ op = [r \in Requests |-> [k \in Kinds |-> "none"]]
  /\ overdue = {}
  /\ decisions = [r \in Requests |-> <<>>]
  /\ handler = [h \in Handlers |-> NoJob]
  /\ wire = {}
  /\ delivered = [r \in Requests |-> [c \in Calls |-> 0]]

(* POST /requests: any principal records a request for allowed roles. *)
Submit(r, s, e, R) ==
  /\ row[r] = NoRow
  /\ R # {}
  /\ row' = [row EXCEPT ![r] = [email |-> e, requester |-> s, roles |-> R]]
  /\ status' = [status EXCEPT ![r] = "submitted"]
  /\ UniqueStatus(status', row')
  /\ UNCHANGED <<op, overdue, decisions, handler, wire, delivered>>

(* POST /requests/{id}/decision: an approver other than the requester decides  *)
(* a submitted request, in one transaction with its evidence.                  *)
Decide(r, s, verdict) ==
  /\ status[r] = "submitted"
  /\ row[r].requester # s
  /\ status' = [status EXCEPT ![r] = verdict]
  /\ UniqueStatus(status', row)
  /\ MayRecord(r, verdict)
  /\ decisions' = [decisions EXCEPT ![r] = Append(@, Evidence(verdict, s))]
  /\ UNCHANGED <<row, op, overdue, handler, wire, delivered>>

(* POST /provision and /activate, first half: one statement moves the request  *)
(* and inserts the running operation.  The reply of the commit may be lost     *)
(* (acked = FALSE): the handler then answers 409 and nobody works on the       *)
(* operation.                                                                  *)
Claim(h, r, s, k, acked) ==
  /\ handler[h] = NoJob
  /\ status[r] = Claimable(k)
  /\ op[r][k] = "none"
  /\ status' = [status EXCEPT ![r] = Expected(k)]
  /\ UniqueStatus(status', row)
  /\ op' = [op EXCEPT ![r][k] = "running"]
  /\ handler' = IF acked
                  THEN [handler EXCEPT ![h] =
                         [request |-> r, kind |-> k, operator |-> s,
                          todo |-> CallsOf(r, k), waiting |-> {},
                          failed |-> FALSE]]
                  ELSE handler
  /\ UNCHANGED <<row, overdue, decisions, wire, delivered>>

(* The handler puts one Keycloak call on the wire. *)
Send(h, c) ==
  /\ handler[h] # NoJob
  /\ c \in handler[h].todo
  /\ handler' = [handler EXCEPT ![h].todo = @ \ {c}, ![h].waiting = @ \cup {c}]
  /\ wire' = wire \cup {<<handler[h].request, c>>}
  /\ UNCHANGED <<table, delivered>>

(* Keycloak processes a call, however late: the caller may have given up. *)
Deliver(r, c) ==
  /\ <<r, c>> \in wire
  /\ wire' = wire \ {<<r, c>>}
  /\ delivered' = [delivered EXCEPT ![r][c] = @ + 1]
  /\ UNCHANGED <<table, handler>>

(* A call is lost, or Keycloak refuses it. *)
Lose(r, c) ==
  /\ <<r, c>> \in wire
  /\ wire' = wire \ {<<r, c>>}
  /\ UNCHANGED <<table, handler, delivered>>

(* The 204 of a processed call arrives. *)
CallSucceeds(h, c) ==
  /\ handler[h] # NoJob
  /\ c \in handler[h].waiting
  /\ delivered[handler[h].request][c] > 0
  /\ handler' = [handler EXCEPT ![h].waiting = @ \ {c}]
  /\ UNCHANGED <<table, wire, delivered>>

(* The handler sees the calls C fail: one call refused or its reply lost; all  *)
(* of them when no token is had, when a role has no group mapping, and when    *)
(* the 20 s context expires or the client goes away.                           *)
CallsFail(h, C) ==
  /\ handler[h] # NoJob
  /\ C # {}
  /\ C \subseteq handler[h].todo \cup handler[h].waiting
  /\ handler' = [handler EXCEPT ![h].todo = @ \ C, ![h].waiting = @ \ C,
                                ![h].failed = TRUE]
  /\ UNCHANGED <<table, wire, delivered>>

(* The second transaction commits: the operation must still be running and the *)
(* request in the expected status.                                             *)
RecordResult(h) ==
  LET r    == handler[h].request
      k    == handler[h].kind
      text == IF handler[h].failed THEN Ambiguous(k) ELSE Achieved(k)
  IN  /\ CallsReturned(h)
      /\ op[r][k] = "running"
      /\ status[r] = Expected(k)
      /\ op' = [op EXCEPT ![r][k] = IF handler[h].failed THEN "ambiguous"
                                                         ELSE "succeeded"]
      /\ overdue' = overdue \ {<<r, k>>}
      /\ status' = [status EXCEPT ![r] = text]
      /\ UniqueStatus(status', row)
      /\ MayRecord(r, text)
      /\ decisions' =
           [decisions EXCEPT ![r] = Append(@, Evidence(text, handler[h].operator))]
      /\ handler' = [handler EXCEPT ![h] = NoJob]
      /\ UNCHANGED <<row, wire, delivered>>

(* The second transaction rolls back - the operation was settled meanwhile, a  *)
(* constraint refuses the row, the request's context is cancelled, the         *)
(* database is away - and the handler ends with nothing recorded.              *)
RecordFails(h) ==
  /\ CallsReturned(h)
  /\ handler' = [handler EXCEPT ![h] = NoJob]
  /\ UNCHANGED <<table, wire, delivered>>

(* lease_until of a running operation passes. *)
LeaseRunsOut(r, k) ==
  /\ op[r][k] = "running"
  /\ <<r, k>> \notin overdue
  /\ overdue' = overdue \cup {<<r, k>>}
  /\ UNCHANGED <<row, status, op, decisions, handler, wire, delivered>>

(* An operation row is locked while a handler's second transaction holds it. *)
Locked(r, k) == \E h \in Handlers : /\ CallsReturned(h)
                                    /\ handler[h].request = r
                                    /\ handler[h].kind = k

(* The requests a batch of operations belongs to, and the outcome of each. *)
Batched(S) == {r \in Requests : \E k \in Kinds : <<r, k>> \in S}
Verdict(S, r) ==
  Ambiguous(IF <<r, "activate">> \in S THEN "activate" ELSE "provision")

(* One tick of the reconciler settles, in one transaction, every overdue       *)
(* operation except the locked ones it skips.  Each row costs three Execs      *)
(* while the rows of the first query are still being read.                     *)
Reap(S) ==
  /\ S # {}
  /\ S \subseteq overdue
  /\ \A r \in Requests, k \in Kinds : <<r, k>> \in overdue \ S => Locked(r, k)
  /\ ExecWhileIterating
  /\ op' = [r \in Requests |-> [k \in Kinds |->
             IF <<r, k>> \in S THEN "ambiguous" ELSE op[r][k]]]
  /\ overdue' = overdue \ S
  /\ status' = [r \in Requests |->
                 IF r \in Batched(S) /\ status[r] \in {"provisioning", "activating"}
                   THEN Verdict(S, r) ELSE status[r]]
  /\ UniqueStatus(status', row)
  /\ \A r \in Batched(S) : MayRecord(r, Verdict(S, r))
  /\ decisions' = [r \in Requests |->
                    IF r \in Batched(S)
                      THEN Append(decisions[r], Evidence(Verdict(S, r), ServiceActor))
                      ELSE decisions[r]]
  /\ UNCHANGED <<row, handler, wire, delivered>>

(* The process dies: every handler is gone; calls on the wire are not. *)
Crash ==
  /\ \E h \in Handlers : handler[h] # NoJob
  /\ handler' = [h \in Handlers |-> NoJob]
  /\ UNCHANGED <<table, wire, delivered>>

-------------------------------------------------------------------------------
SubmitAny ==
  \E r \in Requests, s \in Subjects, e \in Emails, R \in SUBSET Roles :
    Submit(r, s, e, R)
DecideAny ==
  \E r \in Requests, s \in Approvers, v \in {"approved", "rejected"} :
    Decide(r, s, v)
ClaimAny ==
  \E h \in Handlers, r \in Requests, s \in Approvers, k \in Kinds, a \in BOOLEAN :
    Claim(h, r, s, k, a)
Work(h) ==
  \/ \E c \in Calls : Send(h, c) \/ CallSucceeds(h, c)
  \/ \E C \in SUBSET Calls : CallsFail(h, C)
  \/ RecordResult(h)
  \/ RecordFails(h)
Network == \E r \in Requests, c \in Calls : Deliver(r, c) \/ Lose(r, c)
Expiry  == \E r \in Requests, k \in Kinds : LeaseRunsOut(r, k)
ReapAny == \E S \in SUBSET overdue : Reap(S)

Next ==
  \/ SubmitAny
  \/ DecideAny
  \/ ClaimAny
  \/ \E h \in Handlers : Work(h)
  \/ Network
  \/ Expiry
  \/ ReapAny
  \/ Crash

Spec == Init /\ [][Next]_vars

(* The lease is a wall-clock interval and the reconciler's ticker keeps        *)
(* firing; nobody owes the service a request, a decision, a claim or a crash.  *)
Fairness ==
  /\ \A h \in Handlers : WF_vars(Work(h))
  /\ \A r \in Requests, k \in Kinds : WF_vars(LeaseRunsOut(r, k))
  /\ WF_vars(ReapAny)

FairSpec == Spec /\ Fairness

-------------------------------------------------------------------------------
(* Properties. *)

(* The type of every variable; the enums and columns of migrations 0001-0003. *)
TypeOK ==
  /\ row \in [Requests -> Row \cup {NoRow}]
  /\ status \in [Requests -> Statuses \cup {"none"}]
  /\ op \in [Requests -> [Kinds -> {"none", "running", "succeeded", "ambiguous"}]]
  /\ overdue \subseteq Requests \X Kinds
  /\ decisions \in [Requests -> Seq(Decision)]
  /\ handler \in [Handlers -> Job \cup {NoJob}]
  /\ wire \subseteq Requests \X Calls
  /\ delivered \in [Requests -> [Calls -> Nat]]

(* Is call c of request r, or was it, in Keycloak's hands? *)
Reached(r, c) == <<r, c>> \in wire \/ delivered[r][c] > 0

(* Maker and checker: Keycloak is never asked for anything on behalf of a      *)
(* request unless the evidence says that an approver other than its requester  *)
(* approved it; a group is touched only for a role the request asked for, and  *)
(* only after the evidence says the invitation went out.  This relates a       *)
(* message in flight to rows three transactions of three people wrote.         *)
EffectsAreApproved ==
  \A r \in Requests, c \in Calls :
    Reached(r, c) =>
      /\ row[r] # NoRow
      /\ Len(decisions[r]) >= 1
      /\ decisions[r][1].decision = "approved"
      /\ decisions[r][1].actor \in Approvers \ {row[r].requester}
      /\ c # Invite => /\ c \in row[r].roles
                       /\ Len(decisions[r]) >= 2
                       /\ decisions[r][2].decision = "invited"

(* Keycloak receives each call of a request at most once, however handlers,    *)
(* crashes, the reconciler and retries by the operators interleave: the claim  *)
(* statement and UNIQUE (request_id, operation_kind) let one handler through.  *)
CallsReachKeycloakAtMostOnce ==
  \A r \in Requests, c \in Calls :
    delivered[r][c] + (IF <<r, c>> \in wire THEN 1 ELSE 0) <= 1

(* A request shown as invited had its invitation processed, and one shown as   *)
(* active had every group assignment processed: no partial failure and no late *)
(* or lost answer can turn into a recorded success.                            *)
RecordedSuccessIsReal ==
  \A r \in Requests :
    /\ status[r] \in {"invited", "activating", "active", "activation_ambiguous"}
         => delivered[r][Invite] > 0
    /\ status[r] = "active"
         => \A c \in row[r].roles : delivered[r][c] > 0

(* The decisions a request in each status must have, oldest first. *)
History(st) ==
  CASE st \in {"none", "submitted"}            -> <<>>
    [] st \in {"approved", "provisioning"}     -> <<"approved">>
    [] st = "rejected"                         -> <<"rejected">>
    [] st = "provisioning_ambiguous"           -> <<"approved", st>>
    [] st \in {"invited", "activating"}        -> <<"approved", "invited">>
    [] st \in {"active", "activation_ambiguous"} -> <<"approved", "invited", st>>
    [] OTHER                                   -> <<"never">>

(* The state of the two operations of a request in each status. *)
OperationsOf(st) ==
  [k \in Kinds |->
    CASE st = Expected(k)  -> "running"
      [] st = Ambiguous(k) -> "ambiguous"
      [] st = Achieved(k)  -> "succeeded"
      [] k = "provision" /\ st \in {"activating", "active", "activation_ambiguous"}
                           -> "succeeded"
      [] OTHER             -> "none"]

(* The three tables agree after every transaction: the status of a request     *)
(* determines the full list of its decisions (nothing missing, nothing twice)  *)
(* and the status of both its external operations, whoever wrote them - two    *)
(* handlers, the reconciler, or a process that died between two transactions.  *)
TablesAgree ==
  \A r \in Requests :
    /\ Column(decisions[r]) = History(status[r])
    /\ op[r] = OperationsOf(status[r])

(* Handler h owns its operation: it was claimed, nobody else works on it, the  *)
(* calls yet to be sent are not in Keycloak's hands, and while none failed the *)
(* calls no longer waited for were processed.                                  *)
Owns(h) ==
  LET r == handler[h].request
      k == handler[h].kind
      pending == handler[h].todo \cup handler[h].waiting
  IN  /\ op[r][k] # "none"
      /\ pending \subseteq CallsOf(r, k)
      /\ \A c \in handler[h].todo : ~Reached(r, c)
      /\ handler[h].failed \/ \A c \in CallsOf(r, k) \ pending : delivered[r][c] > 0
      /\ \A g \in Handlers \ {h} :
           handler[g] # NoJob => handler[g].request # r \/ handler[g].kind # k

(* Each handler in flight owns its operation. *)
HandlersOwnOperations == \A h \in Handlers : handler[h] # NoJob => Owns(h)

(* The rest of the inductive invariant: rows exist once submitted, only        *)
(* running operations are overdue, whoever decided was entitled to, and        *)
(* Keycloak was only asked for what a claim covers.                            *)
Bookkeeping ==
  /\ \A r \in Requests : row[r] = NoRow <=> status[r] = "none"
  /\ \A r \in Requests, k \in Kinds :
       <<r, k>> \in overdue => op[r][k] = "running"
  /\ \A r \in Requests : decisions[r] # <<>> =>
       decisions[r][1].actor \in Approvers \ {row[r].requester}
  /\ \A r \in Requests, c \in Calls : Reached(r, c) =>
       \E k \in Kinds : c \in CallsOf(r, k) /\ op[r][k] # "none"

(* The inductive invariant. *)
IndInv ==
  /\ TypeOK
  /\ TablesAgree
  /\ HandlersOwnOperations
  /\ Bookkeeping
  /\ CallsReachKeycloakAtMostOnce
  /\ RecordedSuccessIsReal

(* No other request names the candidate of r. *)
SharedByNobody(r) ==
  \A q \in Requests \ {r} : row[q] # NoRow => row[q].email # row[r].email

(* Once Keycloak has been called there is no way back, so the schema must take *)
(* the result: while an operation runs, nothing refuses either outcome of it   *)
(* but the CHECK on decision and another request of the same candidate.  The   *)
(* partial unique indexes never do, whatever was recorded before.              *)
ResultIsRecordable ==
  \A r \in Requests, k \in Kinds :
    op[r][k] = "running" =>
      /\ status[r] = Expected(k)
      /\ \A text \in {Achieved(k), Ambiguous(k)} :
           /\ text \in DecisionCheck => MayRecord(r, text)
           /\ SharedByNobody(r) => UniqueStatus([status EXCEPT ![r] = text], row)

Final == {"rejected", "active", "provisioning_ambiguous", "activation_ambiguous"}

(* A late handler never overwrites what the reconciler settled, nor the        *)
(* reconciler what a handler recorded: the status and the evidence of a        *)
(* request in a final status stay as they are.                                 *)
SettledForGood ==
  [][\A r \in Requests : status[r] \in Final =>
       status'[r] = status[r] /\ decisions'[r] = decisions[r]]_vars

(* What an observer of the lifecycle sees of this specification. *)
MakerSeen == [r \in Requests |-> IF row[r] = NoRow THEN NoRow ELSE row[r].requester]
GrantSeen == [r \in Requests |-> IF row[r] = NoRow THEN {} ELSE row[r].roles]
CheckerSeen == [r \in Requests |-> IF decisions[r] = <<>> THEN NoRow
                                                          ELSE decisions[r][1].actor]
DoneSeen == [r \in Requests |-> {c \in Calls : delivered[r][c] > 0}]

Lifecycle == INSTANCE OnboardingLifecycle WITH
  Nobody <- NoRow, stage <- status, maker <- MakerSeen, grant <- GrantSeen,
  checker <- CheckerSeen, done <- DoneSeen

(* The three tables, the handlers and the messages implement the lifecycle:    *)
(* nothing an observer sees is outside OnboardingLifecycle.                    *)
ImplementsLifecycle == Lifecycle!Spec

NobodySharesAnEmail ==
  \A q, r \in Requests :
    (q # r /\ row[q] # NoRow /\ row[r] # NoRow) => row[q].email # row[r].email

(* "Every decision, provisioning result and activation result is recorded in   *)
(* onboarding_decisions" (README.md:9): every claimed operation gets its       *)
(* outcome recorded in the end, through crashes and lost answers.              *)
ResultRecorded ==
  \A r \in Requests, k \in Kinds :
    op[r][k] = "running" ~> {Achieved(k), Ambiguous(k)} \cap Texts(r) # {}

(* The same promise when no two requests name the same candidate: the UNIQUE   *)
(* constraint on (organization_id, email, status) then never refuses a result. *)
ResultRecordedUnlessShared == [](NobodySharesAnEmail) => ResultRecorded

===============================================================================
