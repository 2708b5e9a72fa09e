-------------------------------- MODULE Privacy --------------------------------
(* The register of privacy processing activities: an activity is recorded as a *)
(* draft, attested by its owner, submitted by the owner for DPO review, and    *)
(* decided by somebody else.  Each step is one HTTP request that names the     *)
(* version it expects; it is validated on arrival and carried out later, in a  *)
(* transaction that locks the row, moves it one version on and writes one row  *)
(* of evidence.  Evidence digests, reasons and the approval conditions copied  *)
(* from a reason are payload and left out.                                     *)
EXTENDS Integers, Sequences, FiniteSets

CONSTANTS
  Activities,   \* activity keys (UNIQUE)
  Subjects,     \* authenticated principals
  Window,       \* the longest time to an approval's expiry (180 days)
  Horizon,      \* bound on the clock
  MaxInFlight,  \* bound on the requests being handled at once
  NoActivity,   \* the absence of a row
  Never         \* approval_expires_at IS NULL

ASSUME TimeIsNatural == Window \in Nat /\ Horizon \in Nat
ASSUME NeverIsNoTime == Never \notin Int

Verdicts == {"conditionally_approved", "approved", "rejected"}
Targets  == {"owner_attested", "dpo_review"} \cup Verdicts
Statuses == {"draft", "expired"} \cup Targets

(* The times the model can name: the clock's and those a window after them. *)
Times   == 0..(Horizon + Window)
Expiry  == Times \cup {Never}
Version == 1..4

Activity ==
  [requester: Subjects, owner: Subjects, status: Statuses, version: Nat \ {0},
   expires: Expiry]
Evidence ==
  [version: Nat, expires: Expiry, decision: Targets, actor: Subjects, at: Times]
Message ==
  [expires: Expiry, actor: Subjects, activity: Activities, target: Targets, expected: Nat]

ASSUME NoActivityIsNull == NoActivity \notin Activity

VARIABLES
  activity,  \* privacy_processing_activities
  evidence,  \* privacy_activity_decisions per activity, in commit order
  inbox,     \* validated requests whose transaction has not ended
  clock      \* time.Now() and now()

vars == <<activity, evidence, inbox, clock>>

-------------------------------------------------------------------------------
(* Mistakes this code could have made, each in place of the definition below    *)
(* whose name it starts with.                                                  *)

(* version BIGINT NOT NULL DEFAULT 0. *)
CreateUnversioned(a, requester, owner) ==
  /\ activity[a] = NoActivity
  /\ activity' = [activity EXCEPT ![a] =
       [requester |-> requester, owner |-> owner, status |-> "draft",
        version |-> 0, expires |-> Never]]
  /\ UNCHANGED <<evidence, inbox, clock>>

(* The window is not enforced. *)
ValidForever(target, expires) ==
  IF target = "conditionally_approved" THEN expires # Never /\ clock < expires
                                       ELSE expires = Never

(* Only the version is compared. *)
LoadedAtAnyStatus(m, status) ==
  /\ m \in inbox
  /\ activity[m.activity] # NoActivity
  /\ activity[m.activity].version = m.expected

-------------------------------------------------------------------------------
Init ==
  /\ activity = [a \in Activities |-> NoActivity]
  /\ evidence = [a \in Activities |-> <<>>]
  /\ inbox = {}
  /\ clock = 0

(* POST /privacy/activities: the requester names the owner, possibly himself.  *)
Create(a, requester, owner) ==
  /\ activity[a] = NoActivity
  /\ activity' = [activity EXCEPT ![a] =
       [requester |-> requester, owner |-> owner, status |-> "draft",
        version |-> 1, expires |-> Never]]
  /\ UNCHANGED <<evidence, inbox, clock>>

(* PrivacyDecisionInput.Validate: a conditional approval expires in the future *)
(* and within the window, as of now; nothing else expires.                     *)
Valid(target, expires) ==
  IF target = "conditionally_approved"
    THEN expires # Never /\ clock < expires /\ expires <= clock + Window
    ELSE expires = Never

(* A request to move an activity arrives and passes validation. *)
Arrive(m) ==
  /\ Cardinality(inbox) < MaxInFlight
  /\ Valid(m.target, m.expires)
  /\ inbox' = inbox \cup {m}
  /\ UNCHANGED <<activity, evidence, clock>>

(* getPrivacyActivityForUpdate and the optimistic version check. *)
Loaded(m, status) ==
  /\ m \in inbox
  /\ activity[m.activity] # NoActivity
  /\ activity[m.activity].status = status
  /\ activity[m.activity].version = m.expected

(* transitionPrivacyActivity: the row and its evidence, in one commit. *)
Transition(m) ==
  LET a == m.activity
      next == activity[a].version + 1
  IN  /\ activity' = [activity EXCEPT ![a] =
           [requester |-> @.requester, owner |-> @.owner, status |-> m.target,
            version |-> next, expires |-> m.expires]]
      /\ evidence' = [evidence EXCEPT ![a] = Append(@,
           [version |-> next, expires |-> m.expires, decision |-> m.target,
            actor |-> m.actor, at |-> clock])]
      /\ inbox' = inbox \ {m}
      /\ UNCHANGED clock

Attest(m) ==
  /\ m.target = "owner_attested"
  /\ Loaded(m, "draft")
  /\ m.actor = activity[m.activity].owner
  /\ Transition(m)

(* Anybody may submit for review (a mistake, as above). *)
SubmitDPOReviewByAnyone(m) ==
  /\ m.target = "dpo_review"
  /\ Loaded(m, "owner_attested")
  /\ Transition(m)

SubmitDPOReview(m) ==
  /\ m.target = "dpo_review"
  /\ Loaded(m, "owner_attested")
  /\ m.actor = activity[m.activity].owner
  /\ Transition(m)

(* The owner may decide (a mistake, as above). *)
DecideAsOwner(m) ==
  /\ m.target \in Verdicts
  /\ Loaded(m, "dpo_review")
  /\ m.actor # activity[m.activity].requester
  /\ Transition(m)

Decide(m) ==
  /\ m.target \in Verdicts
  /\ Loaded(m, "dpo_review")
  /\ m.actor # activity[m.activity].requester
  /\ m.actor # activity[m.activity].owner
  /\ Transition(m)

(* The transaction is refused or rolled back, or the process dies. *)
Refuse(m) ==
  /\ m \in inbox
  /\ inbox' = inbox \ {m}
  /\ UNCHANGED <<activity, evidence, clock>>

Tick ==
  /\ clock < Horizon
  /\ clock' = clock + 1
  /\ UNCHANGED <<activity, evidence, inbox>>

-------------------------------------------------------------------------------
CreateAny == \E a \in Activities, r, o \in Subjects : Create(a, r, o)
ArriveAny ==
  \E a \in Activities, t \in Targets, s \in Subjects, v \in Version, x \in Expiry :
    Arrive([expires |-> x, actor |-> s, activity |-> a, target |-> t, expected |-> v])

Next ==
  \/ CreateAny
  \/ ArriveAny
  \/ \E m \in inbox : Attest(m) \/ SubmitDPOReview(m) \/ Decide(m) \/ Refuse(m)
  \/ Tick

Spec == Init /\ [][Next]_vars

-------------------------------------------------------------------------------
(* Properties. *)

(* The columns of migration 0004. *)
RowTypes ==
  /\ activity \in [Activities -> Activity \cup {NoActivity}]
  /\ evidence \in [Activities -> Seq(Evidence)]
  /\ inbox \subseteq Message
  /\ clock \in 0..Horizon

Recorded == {a \in Activities : activity[a] # NoActivity}

(* Rows and requests have these types, and the version of a row never gets     *)
(* past the one its workflow ends with: the versions Arrive lets requests name *)
(* are all those a row can have.                                               *)
TypeOK == RowTypes /\ \A a \in Recorded : activity[a].version \in Version

(* The decisions that lead to each status, oldest first. *)
Trail(status) ==
  CASE status = "draft"          -> <<>>
    [] status = "owner_attested" -> <<status>>
    [] status = "dpo_review"     -> <<"owner_attested", status>>
    [] status \in Verdicts       -> <<"owner_attested", "dpo_review", status>>
    [] OTHER                     -> <<"never">>

(* However requests race, repeat and arrive late, the evidence of an activity  *)
(* is exactly the trail its status calls for, one row per version: no step is  *)
(* skipped, taken twice, or left without its evidence.                         *)
EvidenceIsTheTrail ==
  /\ \A a \in Recorded :
       /\ [i \in DOMAIN evidence[a] |-> evidence[a][i].decision] = Trail(activity[a].status)
       /\ activity[a].version = Len(evidence[a]) + 1
       /\ \A i \in DOMAIN evidence[a] : evidence[a][i].version = i + 1
  /\ \A a \in Activities \ Recorded : evidence[a] = <<>>

(* An activity that was decided carries two signatures of its owner and the    *)
(* third of somebody who neither requested nor owns it: four eyes, whatever    *)
(* one person sent to several endpoints.                                       *)
FourEyes ==
  \A a \in Recorded : activity[a].status \in Verdicts =>
    /\ evidence[a][1].actor = activity[a].owner
    /\ evidence[a][2].actor = activity[a].owner
    /\ evidence[a][3].actor \notin {activity[a].owner, activity[a].requester}

(* An approval's expiry is the one its evidence records, and no more than the  *)
(* window after the commit, although it was validated when the request         *)
(* arrived; an activity has an expiry only while it is approved conditionally  *)
(* (the CHECK of migration 0004).                                              *)
ApprovalIsBounded ==
  \A a \in Recorded :
    /\ activity[a].expires # Never <=> activity[a].status = "conditionally_approved"
    /\ activity[a].expires # Never =>
         /\ evidence[a][3].expires = activity[a].expires
         /\ activity[a].expires <= evidence[a][3].at + Window

(* The first decision stands: nothing that arrives after it, a rival verdict   *)
(* included, changes the activity or adds evidence.                            *)
DecidedForGood ==
  [][\A a \in Recorded : activity[a].status \in Verdicts =>
       activity'[a] = activity[a] /\ evidence'[a] = evidence[a]]_vars

(* What an observer of the register sees of the two tables. *)
Column(a) == [i \in DOMAIN evidence[a] |-> <<evidence[a][i].decision, evidence[a][i].actor>>]
Seen(a, none, column) == IF activity[a] = NoActivity THEN none ELSE column

Register == INSTANCE PrivacyRegister WITH
  Nobody <- NoActivity,
  stage      <- [a \in Activities |-> Seen(a, "none", activity[a].status)],
  requester  <- [a \in Activities |-> Seen(a, NoActivity, activity[a].requester)],
  owner      <- [a \in Activities |-> Seen(a, NoActivity, activity[a].owner)],
  signatures <- [a \in Activities |-> Column(a)]

(* Versions, validation, racing transactions and the evidence table implement  *)
(* the register: however often requests are repeated and overtake each other,  *)
(* every change an observer sees is one signature, in order, by a person who   *)
(* may give it.                                                                *)
ImplementsRegister == Register!Spec

===============================================================================
