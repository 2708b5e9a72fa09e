------------------------------- MODULE Admission -------------------------------
(* What stands before the onboarding workflow: the configuration a process is  *)
(* started with, the authentication of the caller (an OIDC token or the edge   *)
(* proxy's headers), the approver gate, and the validation of a submission.    *)
(* People are granted roles and lose them, tokens outlive both, processes are  *)
(* restarted with another configuration, and requests are carried out some     *)
(* time after they were admitted.                                              *)
EXTENDS Integers, Sequences, FiniteSets

CONSTANTS
  Requests,      \* identifiers of onboarding requests
  Subjects,      \* people
  Roles,         \* names of roles that can be asked for
  RoleLists,     \* the requested_roles of submissions, as they are spelled
  Grants,        \* <<subject, source, role>>: gate roles people may be granted
  Environments,  \* the environments a process is started in
  Realm,         \* the source of realm roles; every other source is a client
  Default,       \* DefaultApproverRole
  Unset,         \* an environment variable that is not set
  Lifetime,      \* the lifetime of an access token
  Horizon,       \* bound on the clock
  MaxInFlight,   \* bound on the requests being handled at once
  Down, NoToken, NoRow, Never  \* no process, no token, no row, no time

ASSUME TimeIsNatural == Lifetime \in Nat \ {0} /\ Horizon \in Nat
ASSUME NeverIsNoTime == Never \notin Int

(* A name as it is written: with or without white space around it. *)
Spelled(names) == [name: names, padded: BOOLEAN]
Trim(x) == [x EXCEPT !.padded = FALSE]

Names(list) == {list[i].name : i \in DOMAIN list}

Sources == {g[2] : g \in Grants}
Gates   == {g[3] : g \in Grants}

Modes         == {"jwt", "trusted_proxy"}
Clients       == UNION {env.clients : env \in Environments}
ApproverRoles == ({env.approver : env \in Environments} \cup {Default}) \ {Unset}

Config ==
  [mode: Modes, clients: SUBSET Clients, approver: ApproverRoles,
   catalogue: SUBSET Roles, groups: SUBSET Roles]
Row == [requester: Spelled(Subjects), roles: Seq(Spelled(Roles)), under: Config]

ASSUME InputsAreTyped ==
  /\ Default # Unset
  /\ RoleLists \subseteq Seq(Spelled(Roles))
  /\ \A env \in Environments : env.groups \subseteq Roles
ASSUME NullIsNoRecord == NoRow \notin Row \cup Spelled(Subjects)

VARIABLES
  config,   \* the configuration of the running process, or Down
  clock,
  lost,     \* when each grant was last held, Never while it is held
  token,    \* the access token each person uses
  inbox,    \* admitted requests whose transaction has not ended
  row,      \* requester and roles of a request, and the configuration then
  stage,    \* onboarding_requests.status, as far as the claim of provisioning
  checker   \* the actor of the decision

workflow == <<row, stage, checker>>
vars == <<config, clock, lost, token, inbox, workflow>>

(* The claims of a token: who holds which role where, when it is issued. *)
HeldBy(s) == {<<g[2], g[3]>> : g \in {x \in Grants : x[1] = s /\ lost[x] = Never}}

-------------------------------------------------------------------------------
(* Configuration. *)

(* Mistakes: the mapping is not compared with the catalogue, the default of    *)
(* the approver role is forgotten.                                             *)
LoadsUnmapped(env) == env.complete /\ env.mode \in Modes /\ env.catalogue # {}
ConfiguredVerbatim(env) ==
  [mode |-> env.mode, clients |-> env.clients, approver |-> env.approver,
   catalogue |-> env.catalogue, groups |-> env.groups]

(* LoadConfig succeeds: everything required is set, and each role of the       *)
(* catalogue has a group.                                                      *)
Loads(env) ==
  /\ env.complete
  /\ env.mode \in Modes
  /\ env.catalogue # {}
  /\ env.catalogue \subseteq env.groups

Configured(env) ==
  [mode |-> env.mode, clients |-> env.clients,
   approver |-> IF env.approver = Unset THEN Default ELSE env.approver,
   catalogue |-> env.catalogue, groups |-> env.groups]

-------------------------------------------------------------------------------
(* Authentication.  A caller is a person as the request spells him, and the    *)
(* way the request came.                                                       *)

Callers == [sender: Spelled(Subjects), via: {"proxy", "direct"}]

(* Mistakes: a subject is taken as it is spelled, the expiry is not looked at, *)
(* every client's roles count.                                                 *)
ValidatedSubjectAsIs(x) == x
JwtAcceptsForEver(c) == token[c.sender.name] # NoToken
RolesFromClaimsOfAll(claims) == {x[2] : x \in claims}

ValidatedSubject(x) == Trim(x)

(* Of a token that is well formed, signed, and meant for this service: it has  *)
(* not expired.                                                                *)
JwtAccepts(c) ==
  LET t == token[c.sender.name] IN t # NoToken /\ clock < t.expires

(* Realm roles, and those of the clients the configuration approves. *)
RolesFromClaims(claims) ==
  {x[2] : x \in {y \in claims : y[1] = Realm \/ y[1] \in config.clients}}

ProxyAccepts(c) == c.via = "proxy"

(* The edge proxy's header names realm roles of whom it authenticated: those   *)
(* he holds, or those of an OIDC token that has not expired, from which the    *)
(* edge takes them.  A proxy names roles in the form validatedRoles accepts.   *)
AssertedRoles(c) ==
  LET t     == token[c.sender.name]
      named == IF JwtAccepts(c) THEN t.claims ELSE {}
  IN  {x[2] : x \in {y \in HeldBy(c.sender.name) \cup named : y[1] = Realm}}

Authenticates(c) ==
  /\ config # Down
  /\ config.mode = "jwt" => JwtAccepts(c)
  /\ config.mode = "trusted_proxy" => ProxyAccepts(c)

PrincipalRoles(c) ==
  IF config.mode = "jwt" THEN RolesFromClaims(token[c.sender.name].claims)
                         ELSE AssertedRoles(c)

IsApprover(c) == config.approver \in PrincipalRoles(c)

-------------------------------------------------------------------------------
(* Validation of a submission's roles. *)

(* A mistake: what was validated is stored as it was spelled. *)
NormalizeNot(list) == list

Normalize(list) == [i \in DOMAIN list |-> Trim(list[i])]

(* SubmitInput.Validate, which trims each role again. *)
Validates(list) ==
  /\ list # <<>>
  /\ Names(list) \subseteq config.catalogue
  /\ \A i, j \in DOMAIN list : i # j => list[i].name # list[j].name

Message(kind, r, c, list) ==
  [kind |-> kind, request |-> r, subject |-> ValidatedSubject(c.sender),
   roles |-> list, at |-> clock]

-------------------------------------------------------------------------------
Init ==
  /\ config = Down
  /\ clock = 0
  /\ lost = [g \in Grants |-> Never]
  /\ token = [s \in Subjects |-> NoToken]
  /\ inbox = {}
  /\ row = [r \in Requests |-> NoRow]
  /\ stage = [r \in Requests |-> "none"]
  /\ checker = [r \in Requests |-> NoRow]

(* The process is started, or ends and is started again; requests in flight    *)
(* are gone, and a configuration that does not load leaves no process.         *)
Start(env) ==
  /\ config' = IF Loads(env) THEN Configured(env) ELSE Down
  /\ inbox' = {}
  /\ UNCHANGED <<clock, lost, token, workflow>>

(* The identity provider withdraws a role, and issues tokens. *)
Revoke(g) ==
  /\ lost[g] = Never
  /\ lost' = [lost EXCEPT ![g] = clock]
  /\ UNCHANGED <<config, clock, token, inbox, workflow>>

Issue(s) ==
  /\ token' = [token EXCEPT ![s] =
                [claims |-> HeldBy(s), expires |-> clock + Lifetime]]
  /\ UNCHANGED <<config, clock, lost, inbox, workflow>>

(* POST /requests, open to every principal, up to its INSERT. *)
AdmitSubmission(c, r, list) ==
  /\ Cardinality(inbox) < MaxInFlight
  /\ Authenticates(c)
  /\ Validates(Normalize(list))
  /\ inbox' = inbox \cup {Message("submit", r, c, Normalize(list))}
  /\ UNCHANGED <<config, clock, lost, token, workflow>>

(* POST /decision and /provision, and /activate likewise, up to their          *)
(* transactions: approvers only.                                               *)
AdmitApprover(c, r, kind) ==
  /\ Cardinality(inbox) < MaxInFlight
  /\ Authenticates(c)
  /\ IsApprover(c)
  /\ inbox' = inbox \cup {Message(kind, r, c, <<>>)}
  /\ UNCHANGED <<config, clock, lost, token, workflow>>

Submit(m) ==
  /\ m.kind = "submit"
  /\ row[m.request] = NoRow
  /\ row' = [row EXCEPT ![m.request] =
              [requester |-> m.subject, roles |-> m.roles, under |-> config]]
  /\ stage' = [stage EXCEPT ![m.request] = "submitted"]
  /\ UNCHANGED checker

(* Store.Decide, with CanApprove's comparison of the two subjects. *)
Decide(m) ==
  /\ m.kind \in {"approved", "rejected"}
  /\ stage[m.request] = "submitted"
  /\ row[m.request].requester # m.subject
  /\ stage' = [stage EXCEPT ![m.request] = m.kind]
  /\ checker' = [checker EXCEPT ![m.request] = m.subject]
  /\ UNCHANGED row

Claim(m) ==
  /\ m.kind = "provision"
  /\ stage[m.request] = "approved"
  /\ stage' = [stage EXCEPT ![m.request] = "provisioning"]
  /\ UNCHANGED <<row, checker>>

(* The transaction of an admitted request commits, or is refused. *)
Finish(m) ==
  /\ Submit(m) \/ Decide(m) \/ Claim(m) \/ UNCHANGED workflow
  /\ inbox' = inbox \ {m}
  /\ UNCHANGED <<config, clock, lost, token>>

Tick ==
  /\ clock < Horizon
  /\ clock' = clock + 1
  /\ UNCHANGED <<config, lost, token, inbox, workflow>>

AdmitAny ==
  \E c \in Callers, r \in Requests :
    \/ \E list \in RoleLists : AdmitSubmission(c, r, list)
    \/ \E kind \in {"approved", "rejected", "provision"} : AdmitApprover(c, r, kind)

Next ==
  \/ \E env \in Environments : Start(env)
  \/ \E g \in Grants : Revoke(g)
  \/ \E s \in Subjects : Issue(s)
  \/ AdmitAny
  \/ \E m \in inbox : Finish(m)
  \/ Tick

Spec == Init /\ [][Next]_vars

-------------------------------------------------------------------------------
(* Properties. *)

(* The type of every variable. *)
TypeOK ==
  /\ config \in Config \cup {Down}
  /\ clock \in 0..Horizon
  /\ lost \in [Grants -> (0..Horizon) \cup {Never}]
  /\ token \in [Subjects -> [claims: SUBSET (Sources \X Gates),
                             expires: 0..(Horizon + Lifetime)] \cup {NoToken}]
  /\ inbox \subseteq [kind: {"submit", "approved", "rejected", "provision"},
                     request: Requests, subject: Spelled(Subjects),
                     roles: Seq(Spelled(Roles)), at: 0..Horizon]
  /\ row \in [Requests -> Row \cup {NoRow}]
  /\ stage \in [Requests -> {"none", "submitted", "approved", "rejected", "provisioning"}]
  /\ checker \in [Requests -> Spelled(Subjects) \cup {NoRow}]

(* May grant g admit an approver to the process that runs? *)
Honoured(g) ==
  /\ g[3] = config.approver
  /\ g[2] = Realm \/ (config.mode = "jwt" /\ g[2] \in config.clients)

(* Nobody decides, provisions or activates on a role he lost a token's         *)
(* lifetime ago: whoever is admitted as an approver holds the gate role that   *)
(* this configuration names, in the realm or an approved client, or held it    *)
(* less than Lifetime before - across revocations, restarts with another gate  *)
(* role or mode, and tokens issued before either.                              *)
AuthorityIsRecent ==
  \A m \in inbox : m.kind # "submit" =>
    \E g \in Grants :
      /\ g[1] = m.subject.name
      /\ Honoured(g)
      /\ lost[g] = Never \/ m.at < lost[g] + Lifetime

(* What GroupAssignment takes for granted: a stored role list names each role  *)
(* once, and each role has, under the name as it is stored, a group in the     *)
(* configuration it was accepted under; so an activation meets a role without  *)
(* a group only after a restart with another configuration.                    *)
AcceptedRolesAreAssignable ==
  \A r \in Requests : row[r] # NoRow =>
    LET list == row[r].roles IN
      \A i \in DOMAIN list :
        /\ ~list[i].padded
        /\ list[i].name \in row[r].under.groups
        /\ \A j \in DOMAIN list : list[i] = list[j] => i = j

(* What an observer of the workflow sees: people and roles, not spellings. *)
MakerSeen   == [r \in Requests |-> IF row[r] = NoRow THEN NoRow ELSE row[r].requester.name]
GrantSeen   == [r \in Requests |-> IF row[r] = NoRow THEN {} ELSE Names(row[r].roles)]
CheckerSeen == [r \in Requests |-> IF checker[r] = NoRow THEN NoRow ELSE checker[r].name]

Lifecycle == INSTANCE OnboardingLifecycle WITH
  Invite <- "invite", Nobody <- NoRow,
  maker <- MakerSeen, grant <- GrantSeen, checker <- CheckerSeen,
  done <- [r \in Requests |-> {}]

(* Authenticators, gate and validation admit to the workflow only what its     *)
(* lifecycle allows: the same person under two spellings, a token and a proxy  *)
(* header, or two configurations, is still one person and no checker of his    *)
(* own request.                                                                *)
ImplementsLifecycle == Lifecycle!Spec

===============================================================================
