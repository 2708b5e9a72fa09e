---------------------------- MODULE AdmissionProofs ----------------------------
(* Theorems about Admission, for all people, grants, configurations, role      *)
(* lists and token lifetimes, and any number of requests in flight.            *)
EXTENDS Admission, TLAPS

-------------------------------------------------------------------------------
(* The inductive invariant. *)

(* A loaded configuration has a group for each role of its catalogue, and only *)
(* a process has requests in flight.                                           *)
ConfigIsLoaded ==
  /\ config # Down => config.catalogue \subseteq config.groups
  /\ inbox # {} => config # Down

(* Each claim of a token is a grant that is still held, or was lost no earlier *)
(* than a lifetime before the token ends.                                      *)
ClaimsWereHeld ==
  \A s \in Subjects : token[s] # NoToken =>
    /\ token[s].expires <= clock + Lifetime
    /\ \A x \in token[s].claims : \E g \in Grants :
         /\ g[1] = s /\ g[2] = x[1] /\ g[3] = x[2]
         /\ lost[g] = Never \/ token[s].expires <= lost[g] + Lifetime

(* A list as it is stored: trimmed, in the catalogue, and each role once. *)
Accepted(list, groups) ==
  /\ list # <<>>
  /\ Names(list) \subseteq groups
  /\ \A i \in DOMAIN list : ~list[i].padded
  /\ \A i, j \in DOMAIN list : i # j => list[i].name # list[j].name

InboxIsValidated ==
  \A m \in inbox :
    /\ ~m.subject.padded
    /\ m.at <= clock
    /\ m.kind = "submit" => Accepted(m.roles, config.groups)

RowsAreValidated ==
  \A r \in Requests :
    /\ row[r] = NoRow <=> stage[r] = "none"
    /\ row[r] # NoRow => /\ ~row[r].requester.padded
                         /\ Accepted(row[r].roles, row[r].under.groups)

AdmissionInv ==
  /\ TypeOK
  /\ ConfigIsLoaded
  /\ ClaimsWereHeld
  /\ InboxIsValidated
  /\ RowsAreValidated
  /\ AuthorityIsRecent

-------------------------------------------------------------------------------
LEMMA TrimIsTrimmed ==
  ASSUME NEW N, NEW x \in Spelled(N)
  PROVE  Trim(x) \in Spelled(N) /\ Trim(x).name = x.name /\ ~Trim(x).padded
  BY DEF Trim, Spelled

LEMMA SubjectIsTrimmed ==
  ASSUME NEW c \in Callers
  PROVE  /\ ValidatedSubject(c.sender) \in Spelled(Subjects)
         /\ ValidatedSubject(c.sender).name = c.sender.name
         /\ ~ValidatedSubject(c.sender).padded
         /\ c.sender.name \in Subjects
<1>1. c.sender \in Spelled(Subjects)
  BY DEF Callers
<1> QED
  BY <1>1, TrimIsTrimmed DEF ValidatedSubject, Spelled

(* What passes validation is stored with each role as a group is named. *)
LEMMA NormalizedIsAccepted ==
  ASSUME ConfigIsLoaded, config # Down, NEW list \in RoleLists, Validates(Normalize(list))
  PROVE  /\ Normalize(list) \in Seq(Spelled(Roles))
         /\ Accepted(Normalize(list), config.groups)
<1> DEFINE new == Normalize(list)
<1>1. list \in Seq(Spelled(Roles)) /\ DOMAIN list = 1..Len(list) /\ Len(list) \in Nat
      /\ \A i \in DOMAIN list : list[i] \in Spelled(Roles)
  BY InputsAreTyped
<1>2. DOMAIN new = DOMAIN list
      /\ \A i \in DOMAIN list : new[i] = Trim(list[i])
  BY DEF Normalize
<1>3. \A i \in DOMAIN new : new[i] \in Spelled(Roles) /\ ~new[i].padded
  BY <1>1, <1>2, TrimIsTrimmed
<1>4. new \in [1..Len(list) -> Spelled(Roles)]
  BY <1>1, <1>3 DEF Normalize
<1>5. new \in Seq(Spelled(Roles))
  BY <1>1, <1>4
<1>6. /\ new # <<>> /\ Names(new) \subseteq config.groups
      /\ \A i, j \in DOMAIN new : i # j => new[i].name # new[j].name
  BY DEF Validates, ConfigIsLoaded
<1> QED
  BY <1>3, <1>5, <1>6 DEF Accepted

-------------------------------------------------------------------------------
LEMMA AdmissionStarts == Init => AdmissionInv
<1> SUFFICES ASSUME Init PROVE AdmissionInv
  OBVIOUS
<1> USE DEF Init
<1>1. TypeOK
  BY TimeIsNatural DEF TypeOK
<1>2. ConfigIsLoaded /\ ClaimsWereHeld /\ InboxIsValidated /\ AuthorityIsRecent
  BY DEF ConfigIsLoaded, ClaimsWereHeld, InboxIsValidated, AuthorityIsRecent
<1>3. RowsAreValidated
  BY DEF RowsAreValidated
<1> QED
  BY <1>1, <1>2, <1>3 DEF AdmissionInv

LEMMA StartInductive ==
  ASSUME AdmissionInv, NEW env \in Environments, Start(env)
  PROVE  AdmissionInv'
<1> USE DEF AdmissionInv
<1>1. /\ inbox' = {} /\ clock' = clock /\ lost' = lost /\ token' = token
      /\ row' = row /\ stage' = stage /\ checker' = checker
  BY DEF Start, workflow
<1>2. CASE Loads(env)
  <2>1. config' = Configured(env)
    BY <1>2 DEF Start
  <2>2. Configured(env) \in Config
    <3>1. env.clients \in SUBSET Clients
      BY DEF Clients
    <3>2. (IF env.approver = Unset THEN Default ELSE env.approver) \in ApproverRoles
      BY InputsAreTyped DEF ApproverRoles
    <3>3. env.groups \subseteq Roles /\ env.catalogue \subseteq env.groups /\ env.mode \in Modes
      BY <1>2, InputsAreTyped DEF Loads
    <3> QED
      BY <3>1, <3>2, <3>3 DEF Configured, Config
  <2>3. Configured(env).catalogue \subseteq Configured(env).groups
    BY <1>2 DEF Loads, Configured
  <2> QED
    BY <1>1, <2>1, <2>2, <2>3
    DEF TypeOK, ConfigIsLoaded, ClaimsWereHeld, InboxIsValidated, RowsAreValidated, AuthorityIsRecent
<1>3. CASE ~Loads(env)
  <2>1. config' = Down
    BY <1>3 DEF Start
  <2> QED
    BY <1>1, <2>1
    DEF TypeOK, ConfigIsLoaded, ClaimsWereHeld, InboxIsValidated, RowsAreValidated, AuthorityIsRecent
<1> QED
  BY <1>2, <1>3

LEMMA RevokeInductive ==
  ASSUME AdmissionInv, NEW g \in Grants, Revoke(g)
  PROVE  AdmissionInv'
<1> USE DEF AdmissionInv
<1>1. /\ lost[g] = Never /\ lost' = [lost EXCEPT ![g] = clock]
      /\ config' = config /\ clock' = clock /\ token' = token /\ inbox' = inbox
      /\ row' = row /\ stage' = stage /\ checker' = checker
  BY DEF Revoke, workflow
<1>2. /\ lost'[g] = clock /\ \A x \in Grants : x # g => lost'[x] = lost[x]
      /\ clock \in Nat /\ Lifetime \in Nat /\ Lifetime > 0
  BY <1>1, TimeIsNatural DEF TypeOK
<1>3. TypeOK'
  BY <1>1 DEF TypeOK
<1>4. ClaimsWereHeld'
  <2> SUFFICES ASSUME NEW s \in Subjects, token[s] # NoToken, NEW x \in token[s].claims
               PROVE  \E y \in Grants :
                        /\ y[1] = s /\ y[2] = x[1] /\ y[3] = x[2]
                        /\ lost'[y] = Never \/ token[s].expires <= lost'[y] + Lifetime
    BY <1>1 DEF ClaimsWereHeld
  <2> PICK y \in Grants : /\ y[1] = s /\ y[2] = x[1] /\ y[3] = x[2]
                          /\ lost[y] = Never \/ token[s].expires <= lost[y] + Lifetime
    BY DEF ClaimsWereHeld
  <2>1. token[s].expires <= clock + Lifetime
    BY DEF ClaimsWereHeld
  <2>2. lost'[y] = Never \/ token[s].expires <= lost'[y] + Lifetime
    BY <1>2, <2>1
  <2> QED
    BY <2>2
<1>5. AuthorityIsRecent'
  <2> SUFFICES ASSUME NEW m \in inbox, m.kind # "submit"
               PROVE  \E y \in Grants :
                        /\ y[1] = m.subject.name /\ Honoured(y)
                        /\ lost'[y] = Never \/ m.at < lost'[y] + Lifetime
    BY <1>1 DEF AuthorityIsRecent, Honoured
  <2> PICK y \in Grants : /\ y[1] = m.subject.name /\ Honoured(y)
                          /\ lost[y] = Never \/ m.at < lost[y] + Lifetime
    BY DEF AuthorityIsRecent
  <2>1. m.at <= clock /\ m.at \in Nat
    BY DEF InboxIsValidated, TypeOK
  <2>2. lost'[y] = Never \/ m.at < lost'[y] + Lifetime
    BY <1>2, <2>1
  <2> QED
    BY <2>2
<1>6. ConfigIsLoaded' /\ InboxIsValidated' /\ RowsAreValidated'
  BY <1>1 DEF ConfigIsLoaded, InboxIsValidated, RowsAreValidated
<1> QED
  BY <1>3, <1>4, <1>5, <1>6

LEMMA IssueInductive ==
  ASSUME AdmissionInv, NEW s \in Subjects, Issue(s)
  PROVE  AdmissionInv'
<1> USE DEF AdmissionInv
<1> DEFINE new == [claims |-> HeldBy(s), expires |-> clock + Lifetime]
<1>1. /\ token' = [token EXCEPT ![s] = new]
      /\ config' = config /\ clock' = clock /\ lost' = lost /\ inbox' = inbox
      /\ row' = row /\ stage' = stage /\ checker' = checker
  BY DEF Issue, workflow
<1>2. /\ new.claims = HeldBy(s) /\ new.expires = clock + Lifetime
      /\ clock + Lifetime \in 0..(Horizon + Lifetime)
  BY TimeIsNatural DEF TypeOK
<1>3. new.claims \in SUBSET (Sources \X Gates)
  BY DEF HeldBy, Sources, Gates
<1>4. new \in [claims: SUBSET (Sources \X Gates), expires: 0..(Horizon + Lifetime)]
  BY <1>2, <1>3
<1>5. \A x \in new.claims : \E g \in Grants :
        g[1] = s /\ g[2] = x[1] /\ g[3] = x[2] /\ lost[g] = Never
  BY DEF HeldBy
<1> HIDE DEF new
<1>6. TypeOK'
  BY <1>1, <1>4 DEF TypeOK
<1>7. token'[s] = new /\ \A q \in Subjects : q # s => token'[q] = token[q]
  BY <1>1 DEF TypeOK
<1>8. ClaimsWereHeld'
  <2> SUFFICES ASSUME NEW q \in Subjects, token'[q] # NoToken
               PROVE  /\ token'[q].expires <= clock + Lifetime
                      /\ \A x \in token'[q].claims : \E g \in Grants :
                           /\ g[1] = q /\ g[2] = x[1] /\ g[3] = x[2]
                           /\ lost[g] = Never \/ token'[q].expires <= lost[g] + Lifetime
    BY <1>1 DEF ClaimsWereHeld
  <2>1. CASE q = s
    BY <1>2, <1>5, <1>7, <2>1
  <2>2. CASE q # s
    BY <1>7, <2>2 DEF ClaimsWereHeld
  <2> QED
    BY <2>1, <2>2
<1>9. ConfigIsLoaded' /\ InboxIsValidated' /\ RowsAreValidated' /\ AuthorityIsRecent'
  BY <1>1 DEF ConfigIsLoaded, InboxIsValidated, RowsAreValidated, AuthorityIsRecent, Honoured
<1> QED
  BY <1>6, <1>8, <1>9

(* What a token that has not expired claims is held, or was until recently. *)
LEMMA ClaimsAreRecent ==
  ASSUME AdmissionInv, NEW c \in Callers, c.sender.name \in Subjects, JwtAccepts(c),
         NEW x \in token[c.sender.name].claims
  PROVE  \E g \in Grants : /\ g[1] = c.sender.name /\ g[2] = x[1] /\ g[3] = x[2]
                           /\ lost[g] = Never \/ clock < lost[g] + Lifetime
<1> DEFINE t == token[c.sender.name]
<1>1. t # NoToken /\ clock < t.expires
  BY DEF JwtAccepts
<1>2. PICK g \in Grants : /\ g[1] = c.sender.name /\ g[2] = x[1] /\ g[3] = x[2]
                          /\ lost[g] = Never \/ t.expires <= lost[g] + Lifetime
  BY <1>1 DEF AdmissionInv, ClaimsWereHeld
<1>3. /\ clock \in Nat /\ t.expires \in Nat /\ Lifetime \in Nat
      /\ lost[g] \in Nat \cup {Never}
  BY <1>1, TimeIsNatural DEF AdmissionInv, TypeOK
<1>4. lost[g] = Never \/ clock < lost[g] + Lifetime
  BY <1>1, <1>2, <1>3
<1> QED
  BY <1>2, <1>4

(* Whoever passes the gate holds a grant that this process honours. *)
LEMMA ApproverHolds ==
  ASSUME AdmissionInv, NEW c \in Callers, Authenticates(c), IsApprover(c)
  PROVE  \E g \in Grants : /\ g[1] = c.sender.name
                           /\ Honoured(g)
                           /\ lost[g] = Never \/ clock < lost[g] + Lifetime
<1> USE DEF AdmissionInv
<1>1. config # Down /\ config \in Config /\ c.sender.name \in Subjects
  BY SubjectIsTrimmed DEF Authenticates, TypeOK
<1>2. CASE config.mode = "jwt"
  <2>1. JwtAccepts(c)
    BY <1>2 DEF Authenticates
  <2>2. PICK x \in token[c.sender.name].claims :
          /\ x[2] = config.approver
          /\ x[1] = Realm \/ x[1] \in config.clients
    BY <1>2 DEF IsApprover, PrincipalRoles, RolesFromClaims
  <2>3. PICK g \in Grants : /\ g[1] = c.sender.name /\ g[2] = x[1] /\ g[3] = x[2]
                            /\ lost[g] = Never \/ clock < lost[g] + Lifetime
    BY <1>1, <2>1, <2>2, ClaimsAreRecent
  <2>4. Honoured(g)
    BY <1>2, <2>2, <2>3 DEF Honoured
  <2> QED
    BY <2>3, <2>4
<1>3. CASE config.mode # "jwt"
  <2> DEFINE named == IF JwtAccepts(c) THEN token[c.sender.name].claims ELSE {}
  <2>1. PICK x \in HeldBy(c.sender.name) \cup named : x[1] = Realm /\ x[2] = config.approver
    BY <1>3 DEF IsApprover, PrincipalRoles, AssertedRoles
  <2>2. PICK g \in Grants : /\ g[1] = c.sender.name /\ g[2] = x[1] /\ g[3] = x[2]
                            /\ lost[g] = Never \/ clock < lost[g] + Lifetime
    <3>1. CASE x \in HeldBy(c.sender.name)
      BY <3>1 DEF HeldBy
    <3>2. CASE x \in named
      BY <1>1, <3>2, ClaimsAreRecent
    <3> QED
      BY <3>1, <3>2
  <2> QED
    BY <2>1, <2>2 DEF Honoured
<1> QED
  BY <1>2, <1>3

LEMMA AdmitInductive ==
  ASSUME AdmissionInv, AdmitAny
  PROVE  AdmissionInv'
<1> USE DEF AdmissionInv
<1> PICK c \in Callers, r \in Requests :
      \/ \E list \in RoleLists : AdmitSubmission(c, r, list)
      \/ \E kind \in {"approved", "rejected", "provision"} : AdmitApprover(c, r, kind)
  BY DEF AdmitAny
<1>1. ASSUME NEW kind \in {"submit", "approved", "rejected", "provision"},
             NEW roles \in Seq(Spelled(Roles)), config # Down,
             inbox' = inbox \cup {Message(kind, r, c, roles)},
             UNCHANGED <<config, clock, lost, token, workflow>>,
             kind = "submit" => Accepted(roles, config.groups),
             kind # "submit" => IsApprover(c) /\ Authenticates(c)
      PROVE  AdmissionInv'
  <2> DEFINE m == Message(kind, r, c, roles)
  <2>1. /\ m.kind = kind /\ m.subject = ValidatedSubject(c.sender) /\ m.roles = roles
        /\ m.at = clock
    BY DEF Message
  <2>2. m \in [kind: {"submit", "approved", "rejected", "provision"},
               request: Requests, subject: Spelled(Subjects),
               roles: Seq(Spelled(Roles)), at: 0..Horizon]
    BY SubjectIsTrimmed DEF Message, TypeOK
  <2> HIDE DEF m
  <2>3. /\ inbox' = inbox \cup {m} /\ config' = config /\ clock' = clock /\ lost' = lost
        /\ token' = token /\ row' = row /\ stage' = stage /\ checker' = checker
    BY <1>1 DEF m, workflow
  <2>4. TypeOK'
    BY <2>2, <2>3 DEF TypeOK
  <2>5. InboxIsValidated'
    <3>1. ~m.subject.padded /\ m.at <= clock
      BY <2>1, SubjectIsTrimmed DEF TypeOK
    <3> QED
      BY <1>1, <2>1, <2>3, <3>1 DEF InboxIsValidated, Accepted
  <2>6. AuthorityIsRecent'
    <3>1. m.subject.name = c.sender.name
      BY <2>1, SubjectIsTrimmed
    <3>2. m.kind # "submit" =>
            \E g \in Grants : /\ g[1] = m.subject.name
                              /\ Honoured(g)
                              /\ lost[g] = Never \/ m.at < lost[g] + Lifetime
      BY <1>1, <2>1, <3>1, ApproverHolds
    <3> QED
      BY <2>3, <3>2 DEF AuthorityIsRecent, Honoured
  <2>7. ConfigIsLoaded' /\ ClaimsWereHeld' /\ RowsAreValidated'
    BY <1>1, <2>3 DEF ConfigIsLoaded, ClaimsWereHeld, RowsAreValidated
  <2> QED
    BY <2>4, <2>5, <2>6, <2>7
<1>2. ASSUME NEW list \in RoleLists, AdmitSubmission(c, r, list)
      PROVE  AdmissionInv'
  <2>1. config # Down /\ Validates(Normalize(list))
    BY <1>2 DEF AdmitSubmission, Authenticates
  <2>2. Normalize(list) \in Seq(Spelled(Roles)) /\ Accepted(Normalize(list), config.groups)
    BY <2>1, NormalizedIsAccepted
  <2> QED
    BY <1>1, <1>2, <2>1, <2>2 DEF AdmitSubmission
<1>3. ASSUME NEW kind \in {"approved", "rejected", "provision"}, AdmitApprover(c, r, kind)
      PROVE  AdmissionInv'
  <2>1. config # Down /\ IsApprover(c) /\ Authenticates(c) /\ <<>> \in Seq(Spelled(Roles))
    BY <1>3 DEF AdmitApprover, Authenticates
  <2> QED
    BY <1>1, <1>3, <2>1 DEF AdmitApprover
<1> QED
  BY <1>2, <1>3

LEMMA FinishInductive ==
  ASSUME AdmissionInv, NEW m \in inbox, Finish(m)
  PROVE  AdmissionInv'
<1> USE DEF AdmissionInv
<1> DEFINE r == m.request
<1>1. /\ inbox' = inbox \ {m} /\ config' = config /\ clock' = clock /\ lost' = lost
      /\ token' = token
  BY DEF Finish
<1>2. /\ r \in Requests /\ m.subject \in Spelled(Subjects) /\ m.roles \in Seq(Spelled(Roles))
      /\ config \in Config
  BY DEF TypeOK, ConfigIsLoaded
<1>3. ClaimsWereHeld' /\ ConfigIsLoaded' /\ InboxIsValidated' /\ AuthorityIsRecent'
  BY <1>1 DEF ClaimsWereHeld, ConfigIsLoaded, InboxIsValidated, AuthorityIsRecent, Honoured
<1> SUFFICES TypeOK' /\ RowsAreValidated'
  BY <1>3
<1>4. CASE Submit(m)
  <2> DEFINE new == [requester |-> m.subject, roles |-> m.roles, under |-> config]
  <2>1. /\ row[r] = NoRow /\ row' = [row EXCEPT ![r] = new]
        /\ stage' = [stage EXCEPT ![r] = "submitted"] /\ checker' = checker
        /\ m.kind = "submit"
    BY <1>4 DEF Submit
  <2>2. new \in Row
    BY <1>2 DEF Row
  <2>3. new # NoRow
    BY <2>2, NullIsNoRecord
  <2>4. new.requester = m.subject /\ new.roles = m.roles /\ new.under = config
    OBVIOUS
  <2>5. ~m.subject.padded /\ Accepted(m.roles, config.groups)
    BY <2>1 DEF InboxIsValidated
  <2> HIDE DEF new, r
  <2>6. TypeOK'
    BY <1>1, <1>2, <2>1, <2>2 DEF TypeOK
  <2>7. /\ row'[r] = new /\ stage'[r] = "submitted"
        /\ \A q \in Requests : q # r => row'[q] = row[q] /\ stage'[q] = stage[q]
    BY <1>2, <2>1 DEF TypeOK
  <2>8. RowsAreValidated'
    <3> SUFFICES ASSUME NEW q \in Requests
                 PROVE  /\ row'[q] = NoRow <=> stage'[q] = "none"
                        /\ row'[q] # NoRow => /\ ~row'[q].requester.padded
                                              /\ Accepted(row'[q].roles, row'[q].under.groups)
      BY DEF RowsAreValidated, Accepted
    <3>1. CASE q = r
      BY <2>3, <2>4, <2>5, <2>7, <3>1
    <3>2. CASE q # r
      BY <2>7, <3>2 DEF RowsAreValidated
    <3> QED
      BY <3>1, <3>2
  <2> QED
    BY <2>6, <2>8
<1>5. CASE Decide(m)
  <2>1. TypeOK'
    BY <1>1, <1>2, <1>5 DEF Decide, TypeOK
  <2>2. RowsAreValidated'
    BY <1>2, <1>5 DEF Decide, TypeOK, RowsAreValidated
  <2> QED
    BY <2>1, <2>2
<1>6. CASE Claim(m)
  <2>1. TypeOK'
    BY <1>1, <1>2, <1>6 DEF Claim, TypeOK
  <2>2. RowsAreValidated'
    BY <1>2, <1>6 DEF Claim, TypeOK, RowsAreValidated
  <2> QED
    BY <2>1, <2>2
<1>7. CASE UNCHANGED workflow
  BY <1>1, <1>7 DEF workflow, TypeOK, RowsAreValidated
<1> QED
  BY <1>4, <1>5, <1>6, <1>7 DEF Finish

LEMMA TickInductive ==
  ASSUME AdmissionInv, Tick
  PROVE  AdmissionInv'
<1> USE DEF AdmissionInv
<1>1. /\ clock' = clock + 1 /\ clock < Horizon /\ config' = config /\ lost' = lost
      /\ token' = token /\ inbox' = inbox
      /\ row' = row /\ stage' = stage /\ checker' = checker
      /\ clock \in Nat /\ Lifetime \in Nat
  BY TimeIsNatural DEF Tick, workflow, TypeOK
<1>2. TypeOK'
  BY <1>1, TimeIsNatural DEF TypeOK
<1>3. ClaimsWereHeld'
  <2>1. \A s \in Subjects : token[s] # NoToken => token[s].expires \in Nat
    BY TimeIsNatural DEF TypeOK
  <2> QED
    BY <1>1, <2>1 DEF ClaimsWereHeld
<1>4. InboxIsValidated'
  <2>1. \A m \in inbox : m.at \in Nat
    BY DEF TypeOK
  <2> QED
    BY <1>1, <2>1 DEF InboxIsValidated
<1>5. ConfigIsLoaded' /\ RowsAreValidated' /\ AuthorityIsRecent'
  BY <1>1 DEF ConfigIsLoaded, RowsAreValidated, AuthorityIsRecent, Honoured
<1> QED
  BY <1>2, <1>3, <1>4, <1>5

LEMMA AdmissionNext == AdmissionInv /\ [Next]_vars => AdmissionInv'
<1> SUFFICES ASSUME AdmissionInv, [Next]_vars PROVE AdmissionInv'
  OBVIOUS
<1>1. CASE UNCHANGED vars
  BY <1>1
  DEF vars, workflow, AdmissionInv, TypeOK, ConfigIsLoaded, ClaimsWereHeld, InboxIsValidated,
      RowsAreValidated, AuthorityIsRecent, Honoured
<1> QED
  BY <1>1, StartInductive, RevokeInductive, IssueInductive, AdmitInductive, FinishInductive,
     TickInductive DEF Next

THEOREM Invariance == Spec => []AdmissionInv
<1> QED
  BY AdmissionStarts, AdmissionNext, PTL DEF Spec

-------------------------------------------------------------------------------
(* Every variable keeps its type. *)
THEOREM TypeCorrect == Spec => []TypeOK
<1>1. AdmissionInv => TypeOK
  BY DEF AdmissionInv
<1> QED
  BY <1>1, Invariance, PTL

(* Nobody acts as an approver on a role he lost a token's lifetime ago. *)
THEOREM RecentAuthority == Spec => []AuthorityIsRecent
<1>1. AdmissionInv => AuthorityIsRecent
  BY DEF AdmissionInv
<1> QED
  BY <1>1, Invariance, PTL

(* A stored role has, as it is spelled, a group in the configuration under     *)
(* which it was accepted.                                                      *)
THEOREM AssignableRoles == Spec => []AcceptedRolesAreAssignable
<1>1. AdmissionInv => AcceptedRolesAreAssignable
  <2> SUFFICES ASSUME AdmissionInv, NEW r \in Requests, row[r] # NoRow,
                      NEW i \in DOMAIN row[r].roles
               PROVE  /\ ~row[r].roles[i].padded
                      /\ row[r].roles[i].name \in row[r].under.groups
                      /\ \A j \in DOMAIN row[r].roles :
                           row[r].roles[i] = row[r].roles[j] => i = j
    BY DEF AcceptedRolesAreAssignable
  <2>1. Accepted(row[r].roles, row[r].under.groups)
    BY DEF AdmissionInv, RowsAreValidated
  <2> QED
    BY <2>1 DEF Accepted, Names
<1> QED
  BY <1>1, Invariance, PTL

-------------------------------------------------------------------------------
(* Admission implements the lifecycle of onboarding. *)

LEMMA UnseenAdmission ==
  ASSUME UNCHANGED workflow
  PROVE  UNCHANGED Lifecycle!lifecycle
  BY DEF workflow, Lifecycle!lifecycle, MakerSeen, GrantSeen, CheckerSeen

LEMMA SubmitSeen ==
  ASSUME AdmissionInv, NEW m \in inbox, Submit(m)
  PROVE  Lifecycle!Submit(m.request)
<1> DEFINE r == m.request
           new == [requester |-> m.subject, roles |-> m.roles, under |-> config]
<1>1. /\ m.kind = "submit" /\ row[r] = NoRow /\ row' = [row EXCEPT ![r] = new]
      /\ stage' = [stage EXCEPT ![r] = "submitted"] /\ checker' = checker
  BY DEF Submit
<1>2. /\ r \in Requests /\ m.subject \in Spelled(Subjects) /\ m.roles \in Seq(Spelled(Roles))
      /\ config \in Config
  BY DEF AdmissionInv, TypeOK, ConfigIsLoaded
<1>3. new \in Row /\ new.requester = m.subject /\ new.roles = m.roles
  BY <1>2 DEF Row
<1>4. new # NoRow
  BY <1>3, NullIsNoRecord
<1>5. Accepted(m.roles, config.groups)
  BY <1>1 DEF AdmissionInv, InboxIsValidated
<1>6. Names(m.roles) \in (SUBSET Roles) \ {{}}
  <2>1. Names(m.roles) \subseteq Roles
    BY <1>2, <1>5 DEF Accepted, Config
  <2>2. m.roles # <<>> /\ m.roles \in Seq(Spelled(Roles))
    BY <1>2, <1>5 DEF Accepted
  <2>3. Len(m.roles) \in Nat /\ Len(m.roles) # 0 /\ DOMAIN m.roles = 1..Len(m.roles)
    BY <2>2
  <2>4. 1 \in DOMAIN m.roles
    BY <2>3
  <2> QED
    BY <2>1, <2>4 DEF Names
<1>7. m.subject.name \in Subjects
  BY <1>2 DEF Spelled
<1>8. stage[r] = "none"
  BY <1>1, <1>2 DEF AdmissionInv, RowsAreValidated
<1> HIDE DEF new, r
<1>9. row'[r] = new /\ \A q \in Requests : q # r => row'[q] = row[q]
  BY <1>1, <1>2 DEF AdmissionInv, TypeOK
<1>10. MakerSeen' = [MakerSeen EXCEPT ![r] = m.subject.name]
  BY <1>2, <1>3, <1>4, <1>9 DEF MakerSeen
<1>11. GrantSeen' = [GrantSeen EXCEPT ![r] = Names(m.roles)]
  <2>1. row'[r] # NoRow /\ row'[r].roles = m.roles
    BY <1>3, <1>4, <1>9
  <2> QED
    BY ONLY <1>2, <1>9, <2>1 DEF GrantSeen, Names
<1>12. CheckerSeen' = CheckerSeen
  BY <1>1 DEF CheckerSeen
<1> QED
  BY <1>1, <1>6, <1>7, <1>8, <1>10, <1>11, <1>12 DEF Lifecycle!Submit, r

LEMMA DecideSeen ==
  ASSUME AdmissionInv, NEW m \in inbox, Decide(m)
  PROVE  Lifecycle!Decide(m.request)
<1> DEFINE r == m.request
<1>1. /\ m.kind \in {"approved", "rejected"} /\ stage[r] = "submitted"
      /\ row[r].requester # m.subject
      /\ stage' = [stage EXCEPT ![r] = m.kind]
      /\ checker' = [checker EXCEPT ![r] = m.subject] /\ row' = row
  BY DEF Decide
<1>2. /\ r \in Requests /\ m.subject \in Spelled(Subjects)
  BY DEF AdmissionInv, TypeOK
<1>3. row[r] # NoRow /\ row[r] \in Row /\ row[r].requester \in Spelled(Subjects)
  BY <1>1, <1>2 DEF AdmissionInv, RowsAreValidated, TypeOK, Row
<1>4. ~m.subject.padded /\ ~row[r].requester.padded
  BY <1>2, <1>3 DEF AdmissionInv, InboxIsValidated, RowsAreValidated
<1>5. row[r].requester.name # m.subject.name
  BY <1>1, <1>2, <1>3, <1>4 DEF Spelled
<1>6. MakerSeen[r] = row[r].requester.name /\ m.subject.name \in Subjects
  BY <1>2, <1>3 DEF MakerSeen, Spelled
<1>7. m.subject # NoRow
  BY <1>2, NullIsNoRecord
<1>8. CheckerSeen' = [CheckerSeen EXCEPT ![r] = m.subject.name]
  BY <1>1, <1>2, <1>7 DEF CheckerSeen, AdmissionInv, TypeOK
<1>9. MakerSeen' = MakerSeen /\ GrantSeen' = GrantSeen
  BY <1>1 DEF MakerSeen, GrantSeen
<1> QED
  BY <1>1, <1>5, <1>6, <1>8, <1>9 DEF Lifecycle!Decide

LEMMA ClaimSeen ==
  ASSUME AdmissionInv, NEW m \in inbox, Claim(m)
  PROVE  Lifecycle!Claim(m.request, "provision")
<1>1. UNCHANGED <<MakerSeen, GrantSeen, CheckerSeen>>
  BY DEF Claim, MakerSeen, GrantSeen, CheckerSeen
<1> QED
  BY <1>1 DEF Claim, Lifecycle!Claim, Lifecycle!Claimable, Lifecycle!Claimed

(* One person under two spellings, with a token and behind the proxy, before   *)
(* and after a restart, is one person: no maker is his own checker.            *)
THEOREM Refinement == Spec => ImplementsLifecycle
<1>1. Init => Lifecycle!Init
  BY DEF Init, Lifecycle!Init, MakerSeen, GrantSeen, CheckerSeen
<1>2. AdmissionInv /\ [Next]_vars => [Lifecycle!Next]_(Lifecycle!lifecycle)
  <2> SUFFICES ASSUME AdmissionInv, [Next]_vars
               PROVE  Lifecycle!Next \/ UNCHANGED Lifecycle!lifecycle
    OBVIOUS
  <2>1. ASSUME NEW m \in inbox, Finish(m)
        PROVE  Lifecycle!Next \/ UNCHANGED Lifecycle!lifecycle
    <3>1. m.request \in Requests /\ "provision" \in Lifecycle!Kinds
      BY DEF AdmissionInv, TypeOK, Lifecycle!Kinds
    <3> QED
      BY <2>1, <3>1, SubmitSeen, DecideSeen, ClaimSeen, UnseenAdmission DEF Finish, Lifecycle!Next
  <2>2. CASE \/ \E env \in Environments : Start(env)
             \/ \E g \in Grants : Revoke(g)
             \/ \E s \in Subjects : Issue(s)
             \/ AdmitAny \/ Tick \/ UNCHANGED vars
    <3>1. UNCHANGED workflow
      BY <2>2 DEF Start, Revoke, Issue, AdmitAny, AdmitSubmission, AdmitApprover, Tick, vars
    <3> QED
      BY <3>1, UnseenAdmission
  <2> QED
    BY <2>1, <2>2 DEF Next
<1> QED
  BY <1>1, <1>2, Invariance, PTL DEF Spec, ImplementsLifecycle, Lifecycle!Spec

===============================================================================
