# Formal model of the blue-economy administration service

TLA+ modules, TLC configurations and TLAPS proofs for the Go service in `src/`
(`cmd/admin-service`, `internal/admin`, `db/migrations`). Paths below are relative to
`src/`; `store.go`, `http.go`, `keycloak.go`, `privacy.go`, `model.go`, `auth.go` and
`config.go` are in `internal/admin/`.

## 1. The system

One Go process serves HTTP, keeps all durable state in PostgreSQL and acts on one Keycloak
organization.

| Component | State | Operations | Modelled by |
|---|---|---|---|
| Onboarding workflow (`store.go`, `http.go`) | tables `onboarding_requests`, `onboarding_decisions`, `onboarding_external_operations`; one goroutine per HTTP request | submit, decide, provision, activate; reconciler every 15 s | `Onboarding`, `OnboardingLifecycle`, `OnboardingProofs` |
| Group assignment fan-out (`keycloak.go:111`) | a bounded errgroup, one error slot per role | start, PUT, join | `GroupAssignment`, `ActivationRound`, `GroupAssignmentProofs`, `ActivationRoundProofs` |
| Privacy register workflow (`privacy.go`) | tables `privacy_processing_activities`, `privacy_activity_decisions` | create, attest, submit for DPO review, decide | `Privacy`, `PrivacyRegister`, `PrivacyProofs` |
| Keycloak invitation (`keycloak.go:82`) | none | one POST | `Onboarding` (`Send`, `Deliver`, `Lose`, `CallSucceeds`, `CallsFail`) |
| Client-credentials token cache (`keycloak.go:167`) | token, expiry, mutex, singleflight group | get token | `TokenCache`, `TokenCacheProofs` |
| OIDC key set cache (`auth.go:248`) | JWKS key map, load time, RWMutex | find a key, load keys | `JwksCache`, `JwksCacheProofs` |
| OIDC token verification (`auth.go:142`) | none | expiry, roles and subject of a token | `Admission`, `AdmissionProofs` |
| Trusted-proxy authenticator (`auth.go:56`) | none | identity and roles from the proxy's headers | `Admission`, `AdmissionProofs` |
| Configuration (`config.go`) | none after start | `LoadConfig` at every start | `Admission`, `AdmissionProofs` |
| Input validation (`model.go`) | none | `Normalize`, `Validate` | role lists in `Admission`, expiry in `Privacy` (partly) |
| Process (`cmd/admin-service/main.go`) | reconciler's ticker, contexts | start, SIGTERM and drain, death | `Service`, `ServiceProofs` |
| Health endpoint, JSON encoding, security headers (`http.go`) | none | pure I/O | not modelled |

How they interact. An HTTP handler authenticates the principal, validates the body, and
calls the store. `provision` and `activate` are the only handlers with two transactions:
they *claim* an external operation (one SQL statement: status, operation row with a 60 s
lease), call Keycloak outside any transaction under a 20 s timeout, and *record* the result
(operation, status and one row of evidence, in one transaction). The reconciler goroutine
settles as ambiguous every operation whose lease ran out. Activation calls the fan-out,
invitation one POST; both first take a token from the cache.

What makes it hard:

- several operators and one reconciler race on the same rows; between the two transactions
  of a handler anything may happen, including the death of the process;
- Keycloak calls may be lost, refused, processed long after the caller gave up, or processed
  with the answer lost; there is no retry, so each outcome must be settled once and honestly;
- constraints of the schema (a CHECK, a UNIQUE and two partial unique indexes) can refuse
  the row that records an outcome, and then the outcome is lost;
- the reconciler settles a whole batch in one transaction: one bad row undoes all of it;
- the privacy workflow validates against the clock when a request arrives and commits later;
- leases, contexts, the ticker and the shutdown's deadline are started by different clocks at
  different moments, and a restart begins them anew;
- roles are looked up when a request arrives, from tokens older than that, under a
  configuration that the next start may change;
- two caches are shared by all handlers: callers overtake each other, wait for one another's
  fetch, and key sets downloaded in one order are stored in another.

What makes each component correct: *onboarding* - Keycloak is asked only for what a second
person approved, at most once, success is recorded only if Keycloak did its part, the three
tables agree after every commit, a settled request stays settled, every claim gets an outcome.
*Fan-out* - `nil` only if every role was assigned, an error that names every role that was not
(unless it stops at an unmapped role), nothing left running, it ends. *Privacy* - evidence is exactly the trail of the
status, three signatures of at least two people, bounded approvals, the first verdict
stands. *Process* - the reconciler and a working handler never meet, and what nobody will record
is settled within a period. *Admission* - whoever acts as an approver held the role a moment
ago, one person is one person under every spelling and authenticator, stored roles can be
assigned. *Token cache* - a token is fetched only when needed, its last use is bounded, nobody
waits for ever. *JWKS cache* - a withdrawn key is trusted for a bounded time, a listed one
refused only just after it appeared.

## 2. The modules

### Onboarding

Variables against code:

| Variable | Code |
|---|---|
| `row` | the immutable columns of `onboarding_requests`: e-mail, requester, roles (organization is fixed by the configuration) |
| `status` | `onboarding_requests.status` |
| `op` | `onboarding_external_operations.status` per request and kind (UNIQUE on the pair) |
| `overdue` | running operations with `lease_until < now()` |
| `decisions` | `onboarding_decisions` of each request in commit order: text and actor |
| `handler` | local state of a `provision`/`activate` goroutine between claim and end |
| `wire` | HTTP calls that were sent and that Keycloak has neither processed nor lost |
| `delivered` | what Keycloak did, per request and call |

Actions: `Submit` (`Store.Create`), `Decide` (`Store.Decide`), `Claim`
(`ClaimProvisioning`/`ClaimActivation`; `acked = FALSE` is a commit whose reply was lost, the
handler answers 409 and nobody works on the operation), `Send`, `CallSucceeds`, `CallsFail`
(the HTTP client's side of the calls), `Deliver`, `Lose` (Keycloak and the network),
`RecordResult` and `RecordFails` (the second transaction commits, or rolls back and its error
is ignored), `LeaseRunsOut` (the clock), `Reap` (one tick of `ReapExpiredExternalOperations`),
`Crash` (process death). Database constraints are operators of their own - `UniqueStatus`,
`OneApprovalOrRejection`, `OneActivationOutcome`, `MayRecord` - and guard every action whose
statement they check. `ResultIsRecordable` says what they leave open: once an operation runs, only the
CHECK on `decision` and another request of the same candidate can refuse its result.

Two facts about the environment are constants, so that the model covers the code as it is and
as it was meant: `DecisionCheck`, the texts the CHECK on `onboarding_decisions.decision`
admits, and `ExecWhileIterating`, whether the driver runs a statement on a transaction whose
previous rows are still open. Both only *enable* transitions. The safety runs use the
permissive values (`CheckRepaired`, `TRUE`), whose behaviours include those of the strict
ones; the theorems hold for every value.

Abstractions. Time is not measured: a lease may run out at any moment after the claim, which
includes every order the 60 s, 20 s and 15 s of the code allow and some they do not; `Service`
adds the times and is proved to be a special case. A PUT that
`AssignApprovedRoleGroups` starts before it returns early appears as a call that was sent and
is delivered late. One replica runs (with several, each has its own handlers and reconciler;
the row locks that order the transactions are the database's, so `Handlers` covers them).
Names, references, digests and reasons are payload. `SELECT` handlers change nothing. A second
submission with an existing reference is a row that is not inserted.

### OnboardingLifecycle

The abstract specification: what the people who use the service see (stage, maker, roles,
checker) and what Keycloak has done - no handlers, leases, messages, operations or evidence.
`Onboarding` implements it under the refinement mapping `MakerSeen`, `GrantSeen`,
`CheckerSeen`, `DoneSeen` (`ImplementsLifecycle`). It forbids an effect before the claim, a
success before all effects, and any transition out of a final stage.

### GroupAssignment and ActivationRound

`GroupAssignment` is `AssignApprovedRoleGroups` statement by statement: the token, the loop
with its blocking `group.Go`, one goroutine per role, `Wait`, `errors.Join`, the return from
the middle of the loop when a role has no mapping, and the context that ends at 20 s, at the
client's disconnect, or by the handler's `defer cancel()`. `mapped` is the configuration the
process was started with; `reported` is what the returned error says: the join of `errs` after `Wait`, and after the
return from the middle of the loop the unmapped role alone. `ActivationRound` puts it under an instance of `Onboarding`: the
fan-out's goroutines, slots and errors are mapped to the `todo`, `waiting` and `failed` of a
handler, and every state and step must be one of `Onboarding` - so the coarse picture
`Onboarding` has of an activation is checked and proved, not assumed. What brought the request to an activation
is assumed by name: it names a role (`SubmitInput.Validate`), and its approver is not its requester (`Decide`).

### Service

`Service` EXTENDS `Onboarding` with the process and the clocks: `process`, `toTick` (the ticker),
`grace` (what is left for `Shutdown`), `lease` (`lease_until - now()` of each operation), `left`
(what is left of a handler's context, then of its second transaction), and `steady` (how long
the reconciler has run since its start or its last failed tick; a history variable for the
properties). Each action is one of `Onboarding`'s, taken when process and clocks let it:
`ClaimInTime` counts the lease from the start of the claim's statement and the context from
its reply, up to `TxTime` later; `CallInTime` ends by the context; `RecordInTime` by `TxTime`; `Reconcile`
runs at a tick, finds nothing, settles, or fails; `Terminate`, `Exit` and `Die` are SIGTERM, the end
of `Shutdown` (all handlers done, or `Grace` up and `log.Fatal`) and death; `Start` is
`main`. `Tick` is urgent: time passes only when nothing is due. `TxTime`, the longest a
statement takes, is not in the code: `LeaseIsLong` (two transactions and the calls fit into the
lease) is the assumption on the database under which the code's 60 s are enough. `LeaseCoversHandler` is what
it buys: while a handler works, its operation is running, not overdue, and its request where the result expects it.

### Admission

What stands before the workflow. `config` is the result of `LoadConfig`, new at each `Start`
(`Down` if it fails); `lost` and `token` are the identity provider: who holds which role in the realm
or a client, and the access tokens that copied it; `inbox` the requests that passed
authentication, gate and validation and whose transaction has not run; `row`, `stage`, `checker`
what `Submit`, `Decide` and `Claim` make of them. Names carry how they are spelled (`padded`: with white
space around), because `validatedSubject`, `Normalize` and `Validate` trim in different
places. In `jwt` mode the roles are the realm's and the approved clients' in the token, in `trusted_proxy`
mode the realm's that the edge names: those held, or those of an unexpired token, from which the edge takes them
(README.md:7). A row remembers the configuration it was accepted under (`under`, a
history field). `Admission` implements `OnboardingLifecycle` as well, up to the claim, for people
instead of spellings.

### Privacy

`activity` and `evidence` are the two tables, `inbox` the requests that passed validation and
whose transaction has not run, `clock` the time. `Arrive` is validation
(`PrivacyDecisionInput.Validate` at time of arrival), `Attest`, `SubmitDPOReview` and `Decide`
the transactions, `Refuse` any rollback. A message may name any version, any actor and any
target, and duplicates are possible. The status `expired` exists in the schema and no code
writes it; an approval whose expiry passed while it waited for its transaction is recorded all
the same (`ApprovalIsBounded` states the bound the code does give). `PrivacyRegister` is the abstract
register: one action per signature, no versions, requests or clock; `Privacy` implements it
(`ImplementsRegister`).

### TokenCache

`value`, `expiry` and `flight` are the fields of `KeycloakClient` (`flight` the call registered
in the singleflight group), the rest the callers: where each is in `clientCredentialsToken`,
when its 20 s context ends, and the token it was given. `Look` and `Recheck` are the two
critical sections that read the cache, `Join` is `tokenFlight.Do`, `Request`, `Issue`, `Store`
and `FetchFails` the leader's fetch, `Land` its end for all who wait. Time is a clock in ticks; a flight takes no time but for its fetch, and
a fetch no longer than the HTTP client's timeout and the leader's context (`Tick`). `Begin`
happens after the claim; `End` when the caller's Keycloak calls are over.

### JwksCache

`keys` and `loadedAt` are the fields of `oidcAuthenticator`, `published` and `withdrawn` when
the issuer lists each key, the rest the requests in `key()`: `Look` is the read-locked first
look, `Serve` the issuer's snapshot, `Store` the write-locked replacement, `Reread` the second
look. Downloads overlap freely. An answer without a usable key is an error and leaves the
cache alone.

### Mistakes

Each component module has a section of definitions that are plausible errors in the code
(`ClaimAgain`: the claim does not test that no operation exists; `ReapSilently`: the reconciler
forgets the evidence; ...). They are used by no specification. Every property of a passing run has been seen to
fail when one of them replaces the definition it is named after, so no property holds merely
by the shape of the model.

## 3. The runs

| Run | Instance | Shows |
|---|---|---|
| `onboarding_effects` | 1 request, 3 roles, 3 principals of whom 2 approve, 2 handlers | `EffectsAreApproved`, `CallsReachKeycloakAtMostOnce`, `RecordedSuccessIsReal`, `ImplementsLifecycle` |
| `onboarding_workflow` | 2 requests, 2 e-mails, 1 role, 2 principals of whom 1 approves, 2 handlers | `TypeOK`, `TablesAgree`, `IndInv`, `ResultIsRecordable`, `SettledForGood`, `ImplementsLifecycle`, `ResultRecordedUnlessShared` |
| `activation_round` | 4 roles, 2 slots, every subset of them mapped | `TypeOK`, `HonestResult`, `LeavesNothingRunning`, `FanOutEnds`, `FitsOnboarding`, `StepsAreOnboardings` |
| `privacy_workflow` | 1 activity, 3 principals, 2 requests in flight, window 1, clock up to 2 | `EvidenceIsTheTrail`, `FourEyes`, `ApprovalIsBounded`, `DecidedForGood`, `ImplementsRegister`, `TypeOK` |
| `service_times` | 1 request, 2 roles, 2 principals of whom 1 approves, 2 handlers; 60 s, 20 s, 15 s in ticks of 5 s | `LeaseCoversHandler`, `SettledInTime`, `SettledBetweenRestarts`, `TimersOK` |
| `admission` | 1 request, 2 people, 3 grants, 4 environments, 1 request in flight, lifetime 1, clock up to 2 | `AuthorityIsRecent`, `AcceptedRolesAreAssignable`, `ImplementsLifecycle`, `TypeOK` |
| `token_cache` | 2 callers, skew 4, fetch 2, use 3, lifetimes 5 and 3, clock up to 7 | `FetchesOnlyWhenStale`, `UseIsBounded`, `CallersReturn`, `TypeOK` |
| `jwks_cache` | 2 keys, 2 requests, freshness 3, timeout 2, clock up to 6 | `TrustIsBounded`, `UnknownIsRecent`, `TypeOK` |
| `failed_invite_unrecorded` | the CHECK as migrated | violation of `ResultRecorded` |
| `reconciler_never_settles` | the driver as it is | violation of `ResultRecorded` |
| `shared_email_unrecorded` | 2 requests, 1 e-mail | violation of `ResultRecorded` |
| `token_used_at_expiry` | 2 callers; 30 s, 15 s and 20 s in ticks of 2.5 s | violation of `NeverUsedAtExpiry` |

Why the bounds are enough. Rows of different requests interact only through `UniqueStatus`
and through a shared reconciler batch, both of which need two; the third request adds no new
pair. Two handlers are needed to race for one claim, and a handler against the reconciler
needs one. Three roles show that a subset of an activation's calls can succeed, fail and be
pending at once. The fan-out needs more roles than slots; the code's 4 slots are scaled down to 2.
In `Privacy` a race needs two requests and four eyes need three people; the version bound 4 is
the highest version there is. In the timed modules the times are scaled down with their order
kept (the code's skew is a little less than fetch plus use; a download is shorter than the
freshness), one lifetime is longer than the skew and one is not, and the clock runs long
enough for a first token or key set to expire and the next to be fetched; the proofs hold for
all times. `token_used_at_expiry` has the service's own times.
`service_times` has them too, as lease 12, calls 4, period 3, grace 4 ticks, with `TxTime` 2 (10 s);
two handlers are needed for a handler to work while the reconciler settles another's operation.
In `admission` one request in flight is enough because no property relates two of them and the
environment (revocation, tokens, restarts, time) interleaves with it in every way; the theorems
hold for any number. Its grants put a gate role into the realm, an approved and an unapproved
client, its environments vary mode, gate role, clients and mapping, and two of the four do not load. `CHECK_DEADLOCK FALSE` because the workflows end: all requests
settled, all activities decided, the fan-out returned. Symmetry is used in `privacy_workflow` and `jwks_cache` only, over sets
whose members no definition tells apart.

What the violations show (PROJECT.json quotes the documents they contradict):

1. `failed_invite_unrecorded`: the code writes `provisioning_ambiguous`, migration 0003 admits
   `provision_ambiguous`. A failed invitation is never recorded.
2. `reconciler_never_settles`: the reconciler executes on a transaction while the rows of its
   query are open; pgx answers "conn busy", every tick with work rolls back.
3. `shared_email_unrecorded`: UNIQUE (organization, e-mail, status) refuses the second result
   for one candidate; in the reconciler it takes the whole batch with it.
4. `token_used_at_expiry`: a token that took up to 15 s to arrive and is used up to 20 s after it
   was taken from the cache is used past its expiry; a skew of 30 s is 5 s short of the sum.

Three smaller differences between documents and code need no run. Provisioning results name the
operator (`http.go:294`), README.md:31 says the service actor. PUTs of earlier roles may run
although a later role is unmapped (`keycloak.go:126`), which `StepsAreOnboardings` covers as calls
that are delivered late - `AcceptedRolesAreAssignable` says that it takes a restart with another configuration.
And that same return (`keycloak.go:128`) names the unmapped role only: errors that PUTs before it have set by then are
dropped, although the comment at `keycloak.go:119` promises that all are joined, "never silently dropped". `HonestResult`
therefore asks for the missing roles only when the loop has run through. No record depends on the difference: the
handler tests that there is an error and records a fixed reason (`http.go:261`), so the activation is ambiguous either way
(`StepsAreOnboardings`).

## 4. Fairness

`Fairness` of `Onboarding` is three weak conditions. `Work(h)`: a handler's goroutine is
scheduled, its calls end by the HTTP client's 15 s timeout and the 20 s context
(`keycloak.go:79`, `http.go:259`), and its second transaction commits or fails.
`LeaseRunsOut`: `lease_until` is a wall-clock time. `ReapAny`: the ticker of `store.go:34`
fires every 15 s. Nothing is assumed of Keycloak, of the people who submit, decide and claim, of a
restart's absence or of a reply's arrival. `ResultRecordedUnlessShared` is thus a statement
about the reconciler: handlers may all crash or lose their replies. `TimeFlows` of `Service` says that time does not stop and
that whatever time waits for is done; nothing makes a process start, so `SettledBetweenRestarts` has
the premise that now and then one runs for a period with the database in reach. Its run uses
the repaired CHECK and a driver that writes while it reads: without them every tick with work fails, which
`failed_invite_unrecorded` and `reconciler_never_settles` show. `Admission` and `Privacy` have safety only. In `GroupAssignment` the loop and
each goroutine are scheduled, and in `TokenCache` the callers and the leader of a flight, whose
fetch ends by timeout; `Abandon` (the client's timeout) is part of the goroutine,
Keycloak's answers are not fair.

## 5. The proofs

`OnboardingProofs` proves, for all finite sets of requests, roles and handlers, any
principals, any `DecisionCheck` and either driver:

| Theorem | Statement |
|---|---|
| `Invariance` | `Spec => []IndInv` |
| `TypeCorrect` | `Spec => []TypeOK` |
| `TablesAlwaysAgree` | `Spec => []TablesAgree` |
| `AtMostOnce` | `Spec => []CallsReachKeycloakAtMostOnce` |
| `SuccessIsReal` | `Spec => []RecordedSuccessIsReal` |
| `MakerChecker` | `Spec => []EffectsAreApproved` |
| `Settled` | `Spec => SettledForGood` |
| `Refinement` | `Spec => ImplementsLifecycle` |
| `Recordable` | `Spec => []ResultIsRecordable` |
| `BatchesAreRecordable` | `Spec => []BatchIsRecordable`: the same for all the reconciler settles in one transaction |
| `AdmittedOnly` | `Spec => []OutcomesAreAdmitted`: no request is in an outcome the CHECK refuses |
| `FailedInviteStays` | if the CHECK does not admit `provisioning_ambiguous`, no request ever reaches that status |
| `SignedEvidence` | `Spec => []EvidenceIsSigned`: approvers sign everything but the reconciler's ambiguous outcomes |
| `AbandonedForGood` | if the driver does not write while it reads, or the CHECK refuses the kind's ambiguous outcome: `[](Abandoned(r, k) => []Abandoned(r, k))`, a running operation without a handler is never settled |
| `OutcomeIsTaken` | two requests of one candidate never come to rest in the same final status |
| `EvidenceIsAppendOnly` | `Spec => EvidenceGrows`: a step adds at most one line to a request and changes none |

Assumptions: `ConstantsAreFinite`, `ApproversAreSubjects`, `InviteIsNoRole`,
`DriverIsBoolean`, `NullsAreDistinct` (the stand-ins for NULL are not rows or jobs). TLC
evaluates them on every run.

Argument. None of the safety properties is inductive alone. "At most once" needs to know that a
call still to be sent has not been sent by anybody, hence that one handler owns an operation
(`Owns`), hence that a claim is possible only where no operation exists - which depends on
the agreement of status and operations (`TablesAgree`). "Success is real" needs that a handler
without failures has had every answer, and that an answer means delivery (`Owns` again).
`MakerChecker` follows from `TablesAgree` (which decisions exist), `Bookkeeping` (who made the first)
and "reached implies claimed". So
`IndInv = TypeOK /\ TablesAgree /\ HandlersOwnOperations /\ Bookkeeping /\
CallsReachKeycloakAtMostOnce /\ RecordedSuccessIsReal`, proved one conjunct at a time: each
`...Next` lemma has one step per action, and the lemmas on `History` and `OperationsOf` say once
how the tables of a status follow from those of its predecessor. The evidence columns are
compared as sequences (`ColumnAppend`). `Settled` and `Refinement` use the invariant
as a state fact; in the refinement, `Submit`, `Decide`, `Claim` and `Deliver` map to the step of that name (`Deliver` to
`Effect`), `RecordResult` to `Succeed` or `GiveUp`, `Reap` to `GiveUp` of its batch, and everything else stutters.

The theorems on what can be recorded bracket the findings of §3. `UniqueStatus(status, row)` is an invariant
because every statement that could break it is checked; with `TablesAgree`, which fixes the evidence of a request
whose operation runs, it gives `Recordable`: the two partial indexes never refuse a result, so the CHECK (finding 1)
and the shared candidate (finding 3) are all the schema has against one. `BatchesAreRecordable` adds that the rows of a
batch do not refuse one another (each request has at most one operation in it). The other side, that the findings are
no accidents of small instances: with the CHECK as migrated no behaviour of any instance records a failed
invitation (`FailedInviteStays`); what lost its handler is settled by the reconciler or by nobody (`OnlyReapSettles`,
`NobodyResumes`), so with the driver as it is an abandoned operation runs for ever, and an abandoned invitation does
so under the migrated CHECK with any driver (`AbandonedForGood`); and a candidate's second request never gets where the first
one rests (`OutcomeIsTaken`, from `Settled`'s lemma and `UniqueStatus`).

`TokenCacheProofs` proves `NoNeedlessFetch` (`Spec => []FetchesOnlyWhenStale`) and `LastUse`
(`Spec => []UseIsBounded`) for any callers, times and lifetimes. The invariant `CacheInv` bounds the cached
expiry by the token's own expiry plus the fetch (`CacheInTime`), the moment a flight hands its token out
(`FlightInTime`), and the deadline of everybody who holds one (`CallersInTime`). `CachedTokensOverrun`
measures what finding 4 is about: a token taken from the cache is used past its expiry by less than
`FetchTime + OpTime - Skew`, 5 s with the code's times, and never if the skew made up for fetch and use. Its invariant
`OutlivesSkew` says that a token that lives no longer than the skew is stale as soon as it is cached, so whoever is
served from the cache holds one that outlives the skew.

`JwksCacheProofs` proves `BoundedTrust` (`Spec => TrustIsBounded`) and `RecentUnknown`
(`Spec => UnknownIsRecent`) for any number of keys and overlapping downloads. The notion the
invariant rests on is `Witnesses(D, t)`: what document D, asked for no earlier than t, tells of
the issuer. Each download witnesses since its start, the cache since its stamp less `Timeout`;
publishing and withdrawing preserve both, and so does storing an older document over a newer.

`ServiceProofs` proves first `ServiceImplementsOnboarding` (`ServiceSpec => Spec`): every step of the timed
process is a step of the workflow or changes none of its variables. All safety theorems above
thereby hold of the process with its starts, shutdowns and clocks, and of every choice of times.
`ServiceInv` adds to `IndInv`: each working handler's operation is running, not overdue, and its
remaining calls and transaction end before its lease (`WorkersInTime`, from `LeaseIsLong`); no time passes between
a lease's end and the operation's being overdue (`OverdueAtOnce`); and what a steady reconciler has not yet
looked at ended its lease after its last tick (`TicksInTime`). Theorems: `TimersAreBounded`
(`TimersOK`), `LeaseOutlastsHandler` (`LeaseCoversHandler`), `SettlesInTime` (`SettledInTime`). `SettledInTime` says nothing
of a reconciler whose every tick fails: `steady` is then always short. Two theorems combine the levels: `ServiceIsSafe`
states the safety properties of the workflow of the timed service, and `ResultsAreAccepted` joins
`LeaseCoversHandler` with `Recordable` - the second transaction of a handler that lives finds what it expects, and nothing but the CHECK
and a shared candidate refuses it.

`PrivacyProofs` proves `TypeCorrect`, `TrailIsKept` (`EvidenceIsTheTrail`), `FourEyesAlways`, `BoundedApproval`
(`ApprovalIsBounded`), `DecisionStands` (`DecidedForGood`) and `Refinement` (`ImplementsRegister`) for any activities,
people, window and number of requests in flight. The trail alone is not inductive with four eyes: the owner's two
signatures and the reviewer's difference are kept per row of evidence (`Signatures`), and an
approval is bounded because what waits in the inbox was valid when it arrived (`InboxWasValid`). That no version
passes 4 follows from the trail, whose length the version counts.

`GroupAssignmentProofs` proves `BoundedFanOut` (`TypeOK`), `HonestReturn` (`HonestResult`) and `NothingLeftRunning`
(`LeavesNothingRunning`) for every list of roles, mapping and number of slots. `LoopStarted` ties goroutines to
the loop's index, `EndsAreAccountedFor` says that a goroutine ends with a member or an error, `NilIsFinal` that
`nil` means that neither is outstanding, `JoinIsComplete` that the error of a call whose loop has run through joins all
there are.

`ActivationRoundProofs` proves `Fits` (`Spec => []FitsOnboarding`) and `Steps` (`Spec => StepsAreOnboardings`): the fan-out, for
every list of roles, limit and mapping, refines the one handler of `Onboarding` that it works for. The invariant is
that of the fan-out and that only started roles gain members. `Fits` goes through `IndInv` conjunct by conjunct; the interesting
one is `Owns`: while no call failed, whatever is no longer pending was processed. `Steps` has a lemma per action: a
goroutine's start is `Send`, an answer `CallSucceeds`, a refusal or timeout `CallsFail` of one call, the return
from the middle of the loop `CallsFail` of all that are pending, `Process` is `Deliver`; the rest of the loop, the join
and the context's end stutter.

`AdmissionProofs` proves `TypeCorrect`, `RecentAuthority` (`AuthorityIsRecent`), `AssignableRoles`
(`AcceptedRolesAreAssignable`) and `Refinement` (`ImplementsLifecycle`) for all people, grants, environments, lists and times.
`ClaimsWereHeld` bounds a token by the loss of every grant it claims, and so both authenticators (`ClaimsAreRecent`); `InboxIsValidated` and `RowsAreValidated` carry
the trimmed subject and the checked list from admission to the row, which makes comparing names in
the abstract lifecycle the same as comparing the stored texts.

Assumptions there: the times are natural numbers, lifetimes, the freshness and the periods positive, and the
stand-ins for "no token", "no flight", "never", "no key", "no row" are distinct from real ones; `LeaseIsLong` for
`Service`; `InputsAreTyped` for `Admission` (a default gate role, lists and mappings over the roles that have names);
`OrderIsASequence` for the fan-out; `SomeRoleIsRequested`, `ApproverIsNotRequester` and `InviteIsNoRole` for `ActivationRound`.
`FailedInviteStays` and `AbandonedForGood` state their hypotheses themselves; they are true of migration 0003 and of pgx.

Only model-checked: the liveness properties `ResultRecordedUnlessShared`, `SettledBetweenRestarts`, `FanOutEnds` and
`CallersReturn`, which need fairness and ENABLED, out of the prover's reach. Every invariant and action property of a
passing run is a theorem.

## 6. Not modelled

- Whether a token's form, signature, issuer, audience and authorized party are right, and a proxy's
  address and headers are well-formed, is one decision per request without state; a token or proxy
  request of `Admission` is one that passed. Which signing key is trusted when is `JwksCache`; the two are not
  composed.
- String validation of single fields (lengths, patterns, e-mail, URLs of the configuration) changes no state and
  meets no other state; only what is trimmed, compared or looked up later is in `Admission`.
- `SELECT` handlers, health, JSON, security headers: pure I/O.
- Several replicas: each has its own caches, handlers and reconciler; what they share is the
  database, whose locks are in the actions. `Handlers` covers their handlers, a second
  reconciler meets `FOR UPDATE SKIP LOCKED` as `Locked` does a handler.
- Keycloak and PostgreSQL themselves: as far as the code's calls show them (`Deliver`, `Lose`, `Process`,
  `Issue`, `Serve`; constraints, row locks and commits without a reply).

## 7. Plan

Done: `Onboarding` → `OnboardingLifecycle` → `OnboardingProofs` → `GroupAssignment` →
`ActivationRound` (composes the two) → `Privacy` → `TokenCache`, `JwksCache` and their proofs →
`Service` (refines `Onboarding`) → `Admission` (refines `OnboardingLifecycle`) → `PrivacyRegister`,
`PrivacyProofs`, `GroupAssignmentProofs`, `AdmissionProofs`, `ServiceProofs` → `ActivationRoundProofs` and the theorems on what
the schema lets the service record.

What could follow: theorems about the abstract specifications themselves (what `OnboardingLifecycle` and `PrivacyRegister`
promise), inherited by what implements them; `TokenCache` under
`GroupAssignment` (`Token`'s two outcomes are what `CallersReturn` leaves); `JwksCache` under `Admission`, which
would add the freshness and the download timeout to the lifetime of `AuthorityIsRecent` for a token
whose signing key is withdrawn.
