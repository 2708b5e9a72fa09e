---------------------------- MODULE PrivacyProofs ----------------------------
(* Theorems about Privacy, for all sets of activities and people, any window,  *)
(* and any number of requests in flight.                                       *)
EXTENDS Privacy, TLAPS, SequenceTheorems

-------------------------------------------------------------------------------
(* The inductive invariant. *)

(* Who signed what: the owner twice, then neither owner nor requester. *)
Signatures ==
  \A a \in Recorded : \A i \in DOMAIN evidence[a] :
    /\ i \in {1, 2} => evidence[a][i].actor = activity[a].owner
    /\ i = 3 => evidence[a][i].actor \notin {activity[a].owner, activity[a].requester}

(* A request was valid when it arrived, which was not after now. *)
InboxWasValid ==
  \A m \in inbox :
    /\ m.expires # Never <=> m.target = "conditionally_approved"
    /\ m.expires # Never => m.expires <= clock + Window

RegisterInv ==
  /\ RowTypes
  /\ EvidenceIsTheTrail
  /\ Signatures
  /\ InboxWasValid
  /\ ApprovalIsBounded

-------------------------------------------------------------------------------
LEMMA RegisterInit == Init => RegisterInv
<1> SUFFICES ASSUME Init PROVE RegisterInv
  OBVIOUS
<1> USE DEF Init
<1>1. RowTypes
  BY TimeIsNatural DEF RowTypes
<1>2. Recorded = {}
  BY DEF Recorded
<1>3. InboxWasValid
  BY DEF InboxWasValid
<1> QED
  BY <1>1, <1>2, <1>3
  DEF RegisterInv, EvidenceIsTheTrail, Signatures, ApprovalIsBounded

(* What the stand-ins are not. *)
LEMMA Distinct ==
  /\ \A x \in Activity : x # NoActivity
  /\ \A t \in Times : t # Never /\ t \in Nat
  BY NoActivityIsNull, NeverIsNoTime, TimeIsNatural DEF Times

(* What a committed transaction does to the two tables. *)
Changed(m, from, a) ==
  /\ a \in Recorded /\ a \in Activities /\ activity[a] \in Activity
  /\ activity[a].status = from /\ activity[a].version = m.expected
  /\ \A b \in Activities : b # a => /\ activity'[b] = activity[b]
                                    /\ evidence'[b] = evidence[b]
  /\ activity'[a] = [requester |-> activity[a].requester,
                     owner |-> activity[a].owner, status |-> m.target,
                     version |-> activity[a].version + 1,
                     expires |-> m.expires]
  /\ activity'[a] \in Activity
  /\ evidence[a] \in Seq(Evidence) /\ Len(evidence[a]) \in Nat
  /\ DOMAIN evidence[a] = 1..Len(evidence[a])
  /\ evidence'[a] \in Seq(Evidence)
  /\ DOMAIN evidence'[a] = 1..(Len(evidence[a]) + 1)
  /\ Len(evidence'[a]) = Len(evidence[a]) + 1
  /\ \A i \in 1..Len(evidence[a]) : evidence'[a][i] = evidence[a][i]
  /\ evidence'[a][Len(evidence[a]) + 1] =
       [version |-> activity[a].version + 1, expires |-> m.expires,
        decision |-> m.target, actor |-> m.actor, at |-> clock]
  /\ Recorded' = Recorded /\ clock' = clock /\ inbox' = inbox \ {m}

LEMMA StepShape ==
  ASSUME RowTypes, NEW m \in inbox, NEW from, Loaded(m, from), Transition(m),
         NEW a, a = m.activity
  PROVE  Changed(m, from, a)
<1> DEFINE new == [requester |-> activity[a].requester, owner |-> activity[a].owner,
                   status |-> m.target, version |-> activity[a].version + 1,
                   expires |-> m.expires]
           e == [version |-> activity[a].version + 1, expires |-> m.expires,
                 decision |-> m.target, actor |-> m.actor, at |-> clock]
<1>1. /\ m \in Message /\ a \in Activities /\ activity[a] \in Activity
      /\ a \in Recorded /\ activity[a].status = from
      /\ activity[a].version = m.expected
      /\ evidence[a] \in Seq(Evidence) /\ clock \in Times
  BY TimeIsNatural DEF RowTypes, Loaded, Message, Recorded, Times
<1>2. new \in Activity /\ e \in Evidence
  BY <1>1 DEF Activity, Evidence, Message, Statuses
<1>3. /\ evidence' = [evidence EXCEPT ![a] = Append(@, e)]
      /\ inbox' = inbox \ {m} /\ clock' = clock
  BY DEF Transition
<1>4. activity' = [activity EXCEPT ![a] = new]
  BY DEF Transition
<1> HIDE DEF new, e
<1>5. /\ activity'[a] = new /\ evidence'[a] = Append(evidence[a], e)
      /\ \A b \in Activities : b # a => /\ activity'[b] = activity[b]
                                        /\ evidence'[b] = evidence[b]
  BY <1>1, <1>3, <1>4 DEF RowTypes
<1>6. Recorded' = Recorded
  BY <1>1, <1>2, <1>5, Distinct DEF Recorded
<1>7. /\ Len(evidence[a]) \in Nat /\ DOMAIN evidence[a] = 1..Len(evidence[a])
      /\ evidence'[a] \in Seq(Evidence)
      /\ Len(evidence'[a]) = Len(evidence[a]) + 1
      /\ \A i \in 1..Len(evidence[a]) : evidence'[a][i] = evidence[a][i]
      /\ evidence'[a][Len(evidence[a]) + 1] = e
  BY <1>1, <1>2, <1>5, AppendProperties, LenProperties
<1>8. DOMAIN evidence'[a] = 1..(Len(evidence[a]) + 1)
  BY <1>7, LenProperties
<1> QED
  BY <1>1, <1>2, <1>3, <1>5, <1>6, <1>7, <1>8 DEF Changed, new, e

LEMMA Trails ==
  /\ Trail("draft") = <<>>
  /\ Trail("owner_attested") = <<"owner_attested">>
  /\ Trail("dpo_review") = <<"owner_attested", "dpo_review">>
  /\ \A v \in Verdicts : Trail(v) = <<"owner_attested", "dpo_review", v>>
<1>1. Trail("draft") = <<>>
  BY Zenon DEF Trail, Verdicts
<1>2. Trail("owner_attested") = <<"owner_attested">>
  BY Zenon DEF Trail, Verdicts
<1>3. Trail("dpo_review") = <<"owner_attested", "dpo_review">>
  BY Zenon DEF Trail, Verdicts
<1>4. ASSUME NEW v \in Verdicts PROVE Trail(v) = <<"owner_attested", "dpo_review", v>>
  BY Zenon DEF Trail, Verdicts
<1> QED
  BY <1>1, <1>2, <1>3, <1>4

LEMMA SameLength ==
  ASSUME NEW p \in Nat, NEW q \in Nat, 1..p = 1..q PROVE p = q
<1>1. p >= 1 => p \in 1..q
  OBVIOUS
<1>2. q >= 1 => q \in 1..p
  OBVIOUS
<1> QED
  BY <1>1, <1>2

(* One signature more on the trail of one status is the trail of the next. *)
LEMMA NextTrail ==
  ASSUME NEW from \in Statuses, NEW to \in Targets,
         \/ from = "draft" /\ to = "owner_attested"
         \/ from = "owner_attested" /\ to = "dpo_review"
         \/ from = "dpo_review" /\ to \in Verdicts
  PROVE  /\ Len(Trail(from)) \in 0..2
         /\ from = "draft" <=> Len(Trail(from)) = 0
         /\ from = "owner_attested" <=> Len(Trail(from)) = 1
         /\ from = "dpo_review" <=> Len(Trail(from)) = 2
         /\ \A i \in 1..Len(Trail(from)) : Trail(to)[i] = Trail(from)[i]
         /\ DOMAIN Trail(from) = 1..Len(Trail(from))
         /\ DOMAIN Trail(to) = 1..(Len(Trail(from)) + 1)
         /\ Trail(to)[Len(Trail(from)) + 1] = to
<1> DEFINE old == Trail(from)
           new == Trail(to)
<1> SUFFICES /\ Len(old) \in 0..2
             /\ from = "draft" <=> Len(old) = 0
             /\ from = "owner_attested" <=> Len(old) = 1
             /\ from = "dpo_review" <=> Len(old) = 2
             /\ \A i \in 1..Len(old) : new[i] = old[i]
             /\ DOMAIN old = 1..Len(old)
             /\ DOMAIN new = 1..(Len(old) + 1)
             /\ new[Len(old) + 1] = to
  OBVIOUS
<1>1. CASE from = "draft" /\ to = "owner_attested"
  <2>1. old = <<>> /\ new = <<"owner_attested">>
    BY <1>1, Trails
  <2> HIDE DEF old, new
  <2> QED
    BY <1>1, <2>1
<1>2. CASE from = "owner_attested" /\ to = "dpo_review"
  <2>1. old = <<"owner_attested">> /\ new = <<"owner_attested", "dpo_review">>
    BY <1>2, Trails
  <2> HIDE DEF old, new
  <2> QED
    BY <1>2, <2>1
<1>3. CASE from = "dpo_review" /\ to \in Verdicts
  <2>1. old = <<"owner_attested", "dpo_review">> /\ new = <<"owner_attested", "dpo_review", to>>
    BY <1>3, Trails
  <2> HIDE DEF old, new
  <2> QED
    BY <1>3, <2>1
<1> QED
  BY <1>1, <1>2, <1>3

(* Any of the three steps, by somebody who may take it. *)
Allowed(m, from) ==
  \/ from = "draft" /\ m.target = "owner_attested" /\ m.actor = activity[m.activity].owner
  \/ from = "owner_attested" /\ m.target = "dpo_review" /\ m.actor = activity[m.activity].owner
  \/ /\ from = "dpo_review" /\ m.target \in Verdicts
     /\ m.actor \notin {activity[m.activity].owner, activity[m.activity].requester}

LEMMA StepsAreAllowed ==
  ASSUME NEW m, Attest(m) \/ SubmitDPOReview(m) \/ Decide(m)
  PROVE  \E from \in Statuses : Loaded(m, from) /\ Allowed(m, from) /\ Transition(m)
<1>1. CASE Attest(m)
  BY <1>1 DEF Attest, Allowed, Statuses
<1>2. CASE SubmitDPOReview(m)
  BY <1>2 DEF SubmitDPOReview, Allowed, Statuses, Targets
<1>3. CASE Decide(m)
  <2>1. "dpo_review" \in Statuses
    BY DEF Statuses, Targets
  <2>2. m.actor \notin {activity[m.activity].owner, activity[m.activity].requester}
    BY <1>3 DEF Decide
  <2> QED
    BY <1>3, <2>1, <2>2 DEF Decide, Allowed
<1> QED
  BY <1>1, <1>2, <1>3

LEMMA StepInductive ==
  ASSUME RegisterInv, NEW m \in inbox, NEW from \in Statuses,
         Loaded(m, from), Allowed(m, from), Transition(m)
  PROVE  RegisterInv'
<1> DEFINE a == m.activity
           n == Len(evidence[a])
<1> USE DEF RegisterInv
<1>1. /\ a \in Recorded /\ a \in Activities /\ activity[a] \in Activity
      /\ activity[a].status = from /\ activity[a].version = m.expected
      /\ \A b \in Activities : b # a => /\ activity'[b] = activity[b]
                                        /\ evidence'[b] = evidence[b]
      /\ activity'[a] = [requester |-> activity[a].requester,
                         owner |-> activity[a].owner, status |-> m.target,
                         version |-> activity[a].version + 1,
                         expires |-> m.expires]
      /\ activity'[a] \in Activity
      /\ evidence[a] \in Seq(Evidence) /\ n \in Nat
      /\ DOMAIN evidence[a] = 1..n
      /\ evidence'[a] \in Seq(Evidence)
      /\ DOMAIN evidence'[a] = 1..(n + 1)
      /\ Len(evidence'[a]) = n + 1
      /\ \A i \in 1..n : evidence'[a][i] = evidence[a][i]
      /\ evidence'[a][n + 1] =
           [version |-> activity[a].version + 1, expires |-> m.expires,
            decision |-> m.target, actor |-> m.actor, at |-> clock]
      /\ Recorded' = Recorded /\ clock' = clock /\ inbox' = inbox \ {m}
  <2>1. Changed(m, from, a)
    BY StepShape
  <2> QED
    BY ONLY <2>1 DEF Changed
<1>2. m \in Message /\ clock \in 0..Horizon
  BY DEF RowTypes
<1>3. \/ from = "draft" /\ m.target = "owner_attested"
      \/ from = "owner_attested" /\ m.target = "dpo_review"
      \/ from = "dpo_review" /\ m.target \in Verdicts
  BY DEF Allowed
<1>4. m.target \in Targets
  BY <1>2 DEF Message
<1> DEFINE old == Trail(from)
           new == Trail(m.target)
<1>5. /\ Len(old) \in 0..2
      /\ from = "draft" <=> Len(old) = 0
      /\ from = "owner_attested" <=> Len(old) = 1
      /\ from = "dpo_review" <=> Len(old) = 2
      /\ \A i \in 1..Len(old) : new[i] = old[i]
      /\ DOMAIN old = 1..Len(old)
      /\ DOMAIN new = 1..(Len(old) + 1)
      /\ new[Len(old) + 1] = m.target
  BY <1>3, <1>4, NextTrail
<1>6. /\ [i \in DOMAIN evidence[a] |-> evidence[a][i].decision] = old
      /\ activity[a].version = n + 1
      /\ \A i \in DOMAIN evidence[a] : evidence[a][i].version = i + 1
  BY <1>1 DEF EvidenceIsTheTrail
<1> HIDE DEF old, new, a, n
<1>7. /\ n = Len(old) /\ n \in 0..2
      /\ \A i \in 1..n : evidence[a][i].decision = old[i]
  <2>1. DOMAIN old = 1..n
    BY <1>1, <1>6
  <2>2. \A i \in 1..n : evidence[a][i].decision = old[i]
    BY <1>1, <1>6
  <2>3. 1..n = 1..Len(old)
    BY ONLY <1>5, <2>1
  <2>a. n \in Nat /\ Len(old) \in Nat
    BY <1>1, <1>5
  <2>4. n = Len(old)
    BY ONLY <2>3, <2>a, SameLength
  <2> QED
    BY <1>5, <2>2, <2>4
<1>8. RowTypes'
  <2>1. activity' \in [Activities -> Activity \cup {NoActivity}]
    <3>1. \A b \in Activities : activity'[b] \in Activity \cup {NoActivity}
      BY <1>1 DEF RowTypes
    <3>2. activity' = [b \in Activities |-> activity'[b]]
      BY DEF RowTypes, Transition
    <3> QED
      BY <3>1, <3>2
  <2>2. evidence' \in [Activities -> Seq(Evidence)]
    <3>1. \A b \in Activities : evidence'[b] \in Seq(Evidence)
      BY <1>1 DEF RowTypes
    <3>2. evidence' = [b \in Activities |-> evidence'[b]]
      BY DEF RowTypes, Transition
    <3> QED
      BY <3>1, <3>2
  <2> QED
    BY <1>1, <1>2, <2>1, <2>2 DEF RowTypes
<1>9. EvidenceIsTheTrail'
  <2>1. /\ activity'[a].status = m.target
        /\ activity'[a].version = n + 2
    BY <1>1, <1>6
  <2>2. \A i \in 1..(n + 1) : evidence'[a][i].version = i + 1
    <3>1. \A i \in 1..n : evidence'[a][i].version = i + 1
      BY <1>1, <1>6
    <3>2. evidence'[a][n + 1].version = n + 2
      BY <1>1, <1>6
    <3> QED
      BY <1>7, <3>1, <3>2
  <2>3. \A i \in 1..(n + 1) : evidence'[a][i].decision = new[i]
    BY <1>1, <1>5, <1>7
  <2>4. [i \in DOMAIN evidence'[a] |-> evidence'[a][i].decision] = new
    <3>1. new = [i \in DOMAIN new |-> new[i]]
      <4>1. \/ new = <<"owner_attested">> \/ new = <<"owner_attested", "dpo_review">>
            \/ new = <<"owner_attested", "dpo_review", m.target>>
        BY <1>3, Trails DEF new
      <4> QED
        BY <4>1
    <3>2. DOMAIN new = 1..(n + 1)
      BY <1>5, <1>7
    <3> QED
      BY <1>1, <2>3, <3>1, <3>2
  <2>5. Trail(activity'[a].status) = new
    BY <2>1 DEF new
  <2>6. \A b \in Recorded : b # a =>
          /\ [i \in DOMAIN evidence'[b] |-> evidence'[b][i].decision] = Trail(activity'[b].status)
          /\ activity'[b].version = Len(evidence'[b]) + 1
          /\ \A i \in DOMAIN evidence'[b] : evidence'[b][i].version = i + 1
    <3> SUFFICES ASSUME NEW b \in Recorded, b # a
                 PROVE  /\ [i \in DOMAIN evidence'[b] |-> evidence'[b][i].decision] = Trail(activity'[b].status)
                        /\ activity'[b].version = Len(evidence'[b]) + 1
                        /\ \A i \in DOMAIN evidence'[b] : evidence'[b][i].version = i + 1
      OBVIOUS
    <3>1. activity'[b] = activity[b] /\ evidence'[b] = evidence[b]
      BY <1>1 DEF Recorded
    <3>2. /\ [i \in DOMAIN evidence[b] |-> evidence[b][i].decision] = Trail(activity[b].status)
          /\ activity[b].version = Len(evidence[b]) + 1
          /\ \A i \in DOMAIN evidence[b] : evidence[b][i].version = i + 1
      BY DEF EvidenceIsTheTrail
    <3> QED
      BY <3>1, <3>2
  <2>7. \A b \in Activities \ Recorded : evidence'[b] = <<>>
    BY <1>1 DEF EvidenceIsTheTrail
  <2>8. \A b \in Recorded :
          /\ [i \in DOMAIN evidence'[b] |-> evidence'[b][i].decision] = Trail(activity'[b].status)
          /\ activity'[b].version = Len(evidence'[b]) + 1
          /\ \A i \in DOMAIN evidence'[b] : evidence'[b][i].version = i + 1
    <3> SUFFICES ASSUME NEW b \in Recorded
                 PROVE  /\ [i \in DOMAIN evidence'[b] |-> evidence'[b][i].decision] = Trail(activity'[b].status)
                        /\ activity'[b].version = Len(evidence'[b]) + 1
                        /\ \A i \in DOMAIN evidence'[b] : evidence'[b][i].version = i + 1
      OBVIOUS
    <3>1. CASE b = a
      <4>1. /\ Len(evidence'[a]) = n + 1 /\ n \in Nat
            /\ DOMAIN evidence'[a] = 1..(n + 1)
        BY <1>1
      <4>2. activity'[a].version = Len(evidence'[a]) + 1
        BY <2>1, <4>1
      <4>3. [i \in DOMAIN evidence'[a] |-> evidence'[a][i].decision] = Trail(activity'[a].status)
        BY <2>4, <2>5
      <4> QED
        BY <2>2, <3>1, <4>1, <4>2, <4>3
    <3>2. CASE b # a
      BY <2>6, <3>2
    <3> QED
      BY <3>1, <3>2
  <2> QED
    BY <1>1, <2>7, <2>8 DEF EvidenceIsTheTrail
<1>10. Signatures'
  <2>1. \A i \in DOMAIN evidence'[a] :
          /\ i \in {1, 2} => evidence'[a][i].actor = activity'[a].owner
          /\ i = 3 => evidence'[a][i].actor \notin {activity'[a].owner, activity'[a].requester}
    <3> SUFFICES ASSUME NEW i \in 1..(n + 1)
                 PROVE  /\ i \in {1, 2} => evidence'[a][i].actor = activity'[a].owner
                        /\ i = 3 => evidence'[a][i].actor \notin {activity'[a].owner, activity'[a].requester}
      BY <1>1
    <3>1. activity'[a].owner = activity[a].owner /\ activity'[a].requester = activity[a].requester
      BY <1>1
    <3>2. CASE i \in 1..n
      BY <1>1, <3>1, <3>2 DEF Signatures
    <3>3. CASE i = n + 1
      <4>1. evidence'[a][i].actor = m.actor
        BY <1>1, <3>3
      <4>2. n = 0 \/ n = 1 => m.actor = activity[a].owner
        BY <1>5, <1>7 DEF Allowed, a
      <4>3. n = 2 => m.actor \notin {activity[a].owner, activity[a].requester}
        BY <1>5, <1>7 DEF Allowed, a
      <4> QED
        BY <1>7, <3>1, <3>3, <4>1, <4>2, <4>3
    <3> QED
      BY <1>1, <3>2, <3>3
  <2>2. \A b \in Recorded : b # a => activity'[b] = activity[b] /\ evidence'[b] = evidence[b]
    BY <1>1 DEF Recorded
  <2> QED
    BY <1>1, <2>1, <2>2 DEF Signatures
<1>11. InboxWasValid'
  BY <1>1 DEF InboxWasValid
<1>12. ApprovalIsBounded'
  <2>1. /\ m.expires # Never <=> m.target = "conditionally_approved"
        /\ m.expires # Never => m.expires <= clock + Window
    BY DEF InboxWasValid
  <2>2. /\ activity'[a].expires # Never <=> activity'[a].status = "conditionally_approved"
        /\ activity'[a].expires # Never =>
             /\ evidence'[a][3].expires = activity'[a].expires
             /\ activity'[a].expires <= evidence'[a][3].at + Window
    <3>1. activity'[a].expires = m.expires /\ activity'[a].status = m.target
      BY <1>1
    <3>2. m.target = "conditionally_approved" => n + 1 = 3
      BY <1>3, <1>5, <1>7
    <3>3. /\ evidence'[a][n + 1].expires = m.expires
          /\ evidence'[a][n + 1].at = clock
      BY <1>1
    <3> QED
      BY <2>1, <3>1, <3>2, <3>3
  <2>3. \A b \in Recorded : b # a => activity'[b] = activity[b] /\ evidence'[b] = evidence[b]
    BY <1>1 DEF Recorded
  <2> QED
    BY <1>1, <2>2, <2>3 DEF ApprovalIsBounded
<1> QED
  BY <1>8, <1>9, <1>10, <1>11, <1>12

LEMMA OtherInductive ==
  ASSUME RegisterInv,
         CreateAny \/ ArriveAny \/ (\E m \in inbox : Refuse(m)) \/ Tick \/ UNCHANGED vars
  PROVE  RegisterInv'
<1> USE DEF RegisterInv
<1>1. ASSUME NEW a \in Activities, NEW r \in Subjects, NEW o \in Subjects, Create(a, r, o)
      PROVE  RegisterInv'
  <2> DEFINE row == [requester |-> r, owner |-> o, status |-> "draft", version |-> 1,
                     expires |-> Never]
  <2>1. row \in Activity
    BY DEF Activity, Statuses, Expiry
  <2>2. /\ activity[a] = NoActivity /\ activity' = [activity EXCEPT ![a] = row]
        /\ evidence' = evidence /\ inbox' = inbox /\ clock' = clock
    BY <1>1 DEF Create
  <2>3. row.status = "draft" /\ row.version = 1 /\ row.expires = Never
    OBVIOUS
  <2> HIDE DEF row
  <2>4. /\ activity'[a] = row
        /\ \A b \in Activities : b # a => activity'[b] = activity[b]
    BY <2>2 DEF RowTypes
  <2>5. Recorded' = Recorded \cup {a} /\ a \notin Recorded
    BY <2>1, <2>2, <2>4, Distinct DEF Recorded
  <2>6. evidence[a] = <<>>
    BY <2>5 DEF EvidenceIsTheTrail
  <2>7. RowTypes'
    BY <2>1, <2>2 DEF RowTypes
  <2>8. EvidenceIsTheTrail'
    <3>1. /\ [i \in DOMAIN evidence[a] |-> evidence[a][i].decision] = Trail(activity'[a].status)
          /\ activity'[a].version = Len(evidence[a]) + 1
          /\ \A i \in DOMAIN evidence[a] : evidence[a][i].version = i + 1
      <4>1. Trail(activity'[a].status) = <<>>
        BY <2>3, <2>4, Trails
      <4> QED
        BY <2>3, <2>4, <2>6, <4>1
    <3> SUFFICES ASSUME NEW b \in Recorded'
                 PROVE  /\ [i \in DOMAIN evidence[b] |-> evidence[b][i].decision] = Trail(activity'[b].status)
                        /\ activity'[b].version = Len(evidence[b]) + 1
                        /\ \A i \in DOMAIN evidence[b] : evidence[b][i].version = i + 1
      BY <2>2, <2>5 DEF EvidenceIsTheTrail
    <3>2. CASE b = a
      BY <3>1, <3>2
    <3>3. CASE b # a
      <4>1. b \in Recorded /\ activity'[b] = activity[b]
        BY <2>4, <2>5, <3>3 DEF Recorded
      <4>2. /\ [i \in DOMAIN evidence[b] |-> evidence[b][i].decision] = Trail(activity[b].status)
            /\ activity[b].version = Len(evidence[b]) + 1
            /\ \A i \in DOMAIN evidence[b] : evidence[b][i].version = i + 1
        BY <4>1 DEF EvidenceIsTheTrail
      <4> QED
        BY <4>1, <4>2
    <3> QED
      BY <3>2, <3>3
  <2>9. Signatures'
    BY <2>2, <2>4, <2>5, <2>6 DEF Signatures, Recorded
  <2>10. InboxWasValid'
    BY <2>2 DEF InboxWasValid
  <2>11. ApprovalIsBounded'
    BY <2>2, <2>3, <2>4, <2>5 DEF ApprovalIsBounded, Recorded
  <2> QED
    BY <2>7, <2>8, <2>9, <2>10, <2>11
<1>2. ASSUME activity' = activity, evidence' = evidence, clock' = clock,
             inbox' \subseteq Message, InboxWasValid'
      PROVE  RegisterInv'
  <2>1. Recorded' = Recorded
    BY <1>2 DEF Recorded
  <2>2. RowTypes' /\ EvidenceIsTheTrail' /\ Signatures' /\ ApprovalIsBounded'
    BY <1>2, <2>1 DEF RowTypes, EvidenceIsTheTrail, Signatures, ApprovalIsBounded
  <2> QED
    BY <1>2, <2>2
<1>3. CASE CreateAny
  BY <1>1, <1>3 DEF CreateAny
<1>4. CASE ArriveAny
  <2> PICK a \in Activities, t \in Targets, s \in Subjects, v \in Version, x \in Expiry :
        Arrive([activity |-> a, target |-> t, actor |-> s, expected |-> v, expires |-> x])
    BY <1>4 DEF ArriveAny
  <2> DEFINE m == [activity |-> a, target |-> t, actor |-> s, expected |-> v, expires |-> x]
  <2>1. m \in Message /\ m.target = t /\ m.expires = x
    BY DEF Message, Version
  <2>2. /\ Valid(t, x) /\ inbox' = inbox \cup {m}
        /\ activity' = activity /\ evidence' = evidence /\ clock' = clock
    BY DEF Arrive
  <2> HIDE DEF m
  <2>3. (x # Never <=> t = "conditionally_approved") /\ (x # Never => x <= clock + Window)
    BY <2>2 DEF Valid
  <2>4. InboxWasValid'
    BY <2>1, <2>2, <2>3 DEF InboxWasValid
  <2>5. inbox' \subseteq Message
    BY <2>1, <2>2 DEF RowTypes
  <2> QED
    BY <1>2, <2>2, <2>4, <2>5
<1>5. CASE \E m \in inbox : Refuse(m)
  <2> PICK m \in inbox : Refuse(m)
    BY <1>5
  <2>1. InboxWasValid' /\ inbox' \subseteq Message
    BY DEF Refuse, InboxWasValid, RowTypes
  <2> QED
    BY <1>2, <2>1 DEF Refuse
<1>6. CASE Tick
  <2>1. Recorded' = Recorded
    BY <1>6 DEF Tick, Recorded
  <2>2. RowTypes' /\ EvidenceIsTheTrail' /\ Signatures' /\ ApprovalIsBounded'
    BY <1>6, <2>1, TimeIsNatural DEF Tick, RowTypes, EvidenceIsTheTrail, Signatures, ApprovalIsBounded
  <2>3. InboxWasValid'
    <3> SUFFICES ASSUME NEW m \in inbox, m.expires # Never
                 PROVE  m.expires <= clock + 1 + Window
      BY <1>6 DEF Tick, InboxWasValid
    <3>1. m.expires <= clock + Window /\ m.expires \in Nat /\ clock \in Nat
      BY Distinct DEF InboxWasValid, RowTypes, Message, Expiry
    <3> QED
      BY <3>1, TimeIsNatural
  <2> QED
    BY <2>2, <2>3
<1>7. CASE UNCHANGED vars
  <2>1. /\ activity' = activity /\ evidence' = evidence /\ clock' = clock /\ inbox' = inbox
    BY <1>7 DEF vars
  <2>2. InboxWasValid' /\ inbox' \subseteq Message
    BY <2>1 DEF InboxWasValid, RowTypes
  <2> QED
    BY <1>2, <2>1, <2>2
<1> QED
  BY <1>3, <1>4, <1>5, <1>6, <1>7

LEMMA RegisterNext == RegisterInv /\ [Next]_vars => RegisterInv'
<1> SUFFICES ASSUME RegisterInv, [Next]_vars PROVE RegisterInv'
  OBVIOUS
<1>1. ASSUME NEW m \in inbox, Attest(m) \/ SubmitDPOReview(m) \/ Decide(m) PROVE RegisterInv'
  BY <1>1, StepsAreAllowed, StepInductive
<1> QED
  BY <1>1, OtherInductive DEF Next

THEOREM Invariance == Spec => []RegisterInv
<1> QED
  BY RegisterInit, RegisterNext, PTL DEF Spec

-------------------------------------------------------------------------------
(* The columns keep their types, expiries among the times there are, and no    *)
(* row ever gets past the version its workflow ends with.                      *)
THEOREM TypeCorrect == Spec => []TypeOK
<1>1. RegisterInv => TypeOK
  <2> SUFFICES ASSUME RegisterInv, NEW a \in Recorded
               PROVE  activity[a].version \in Version
    BY DEF RegisterInv, TypeOK
  <2>1. activity[a].status \in Statuses
    BY DEF RegisterInv, RowTypes, Recorded, Activity
  <2> DEFINE trail == Trail(activity[a].status)
  <2>2. DOMAIN trail = 1..Len(trail) /\ Len(trail) \in 0..3
    <3>1. CASE activity[a].status = "expired"
      <4>1. trail = <<"never">>
        BY <3>1, Zenon DEF Trail, Verdicts
      <4> QED
        BY <4>1
    <3>2. CASE activity[a].status # "expired"
      BY <2>1, <3>2, Trails DEF Statuses, Targets, Verdicts
    <3> QED
      BY <3>1, <3>2
  <2>3. /\ evidence[a] \in Seq(Evidence)
        /\ [i \in DOMAIN evidence[a] |-> evidence[a][i].decision] = trail
        /\ activity[a].version = Len(evidence[a]) + 1
    BY DEF RegisterInv, RowTypes, EvidenceIsTheTrail, Recorded
  <2> HIDE DEF trail
  <2>4. DOMAIN evidence[a] = 1..Len(evidence[a]) /\ Len(evidence[a]) \in Nat
    BY <2>3
  <2>5. DOMAIN evidence[a] = DOMAIN trail
    BY <2>3
  <2>6. Len(evidence[a]) = Len(trail)
    BY <2>2, <2>4, <2>5, SameLength
  <2>7. activity[a].version = Len(trail) + 1
    BY <2>3, <2>6
  <2> DEFINE n == Len(trail)
  <2>8. n \in 0..3 /\ activity[a].version = n + 1
    BY <2>2, <2>7
  <2> HIDE DEF n
  <2>9. n + 1 \in 1..4
    BY <2>8
  <2> QED
    BY <2>8, <2>9 DEF Version
<1> QED
  BY <1>1, Invariance, PTL

(* However requests race and repeat, status, version and evidence agree. *)
THEOREM TrailIsKept == Spec => []EvidenceIsTheTrail
<1>1. RegisterInv => EvidenceIsTheTrail
  BY DEF RegisterInv
<1> QED
  BY <1>1, Invariance, PTL

(* A decided activity carries two signatures of its owner and one of somebody  *)
(* who neither owns nor requested it.                                          *)
THEOREM FourEyesAlways == Spec => []FourEyes
<1>1. RegisterInv => FourEyes
  <2> SUFFICES ASSUME RegisterInv, NEW a \in Recorded, activity[a].status \in Verdicts
               PROVE  /\ evidence[a][1].actor = activity[a].owner
                      /\ evidence[a][2].actor = activity[a].owner
                      /\ evidence[a][3].actor \notin {activity[a].owner, activity[a].requester}
    BY DEF FourEyes
  <2>1. [i \in DOMAIN evidence[a] |-> evidence[a][i].decision]
          = <<"owner_attested", "dpo_review", activity[a].status>>
    BY Trails DEF RegisterInv, EvidenceIsTheTrail
  <2>2. DOMAIN evidence[a] = 1..3
    BY <2>1
  <2>3. 1 \in DOMAIN evidence[a] /\ 2 \in DOMAIN evidence[a] /\ 3 \in DOMAIN evidence[a]
    BY <2>2
  <2> QED
    BY <2>3 DEF RegisterInv, Signatures
<1> QED
  BY <1>1, Invariance, PTL

(* An approval never runs longer than the window after its commit. *)
THEOREM BoundedApproval == Spec => []ApprovalIsBounded
<1>1. RegisterInv => ApprovalIsBounded
  BY DEF RegisterInv
<1> QED
  BY <1>1, Invariance, PTL

(* The first decision stands, whatever arrives later. *)
THEOREM DecisionStands == Spec => DecidedForGood
<1>1. RegisterInv /\ [Next]_vars =>
        [\A a \in Recorded : activity[a].status \in Verdicts =>
           activity'[a] = activity[a] /\ evidence'[a] = evidence[a]]_vars
  <2> SUFFICES ASSUME RegisterInv, Next, NEW b \in Recorded, activity[b].status \in Verdicts
               PROVE  activity'[b] = activity[b] /\ evidence'[b] = evidence[b]
    OBVIOUS
  <2>1. b \in Activities /\ activity[b] # NoActivity
    BY DEF Recorded
  <2>2. CASE CreateAny
    BY <2>1, <2>2 DEF CreateAny, Create, RegisterInv, RowTypes
  <2>3. ASSUME NEW m \in inbox, Attest(m) \/ SubmitDPOReview(m) \/ Decide(m)
        PROVE  activity'[b] = activity[b] /\ evidence'[b] = evidence[b]
    <3> PICK from \in Statuses : Loaded(m, from) /\ Allowed(m, from) /\ Transition(m)
      BY <2>3, StepsAreAllowed
    <3>1. from \notin Verdicts
      BY DEF Allowed, Verdicts
    <3>2. b # m.activity
      BY <3>1 DEF Loaded
    <3>3. \A c \in Activities : c # m.activity => /\ activity'[c] = activity[c]
                                                  /\ evidence'[c] = evidence[c]
      <4>1. RowTypes
        BY DEF RegisterInv
      <4>2. Changed(m, from, m.activity)
        BY <4>1, StepShape
      <4> QED
        BY ONLY <4>2 DEF Changed
    <3> QED
      BY <2>1, <3>2, <3>3
  <2>4. CASE ArriveAny \/ (\E m \in inbox : Refuse(m)) \/ Tick
    BY <2>4 DEF ArriveAny, Arrive, Refuse, Tick
  <2> QED
    BY <2>2, <2>3, <2>4 DEF Next
<1> QED
  BY <1>1, Invariance, PTL DEF Spec, DecidedForGood

-------------------------------------------------------------------------------
(* The register implements its abstraction. *)

LEMMA ColumnGrows ==
  ASSUME RegisterInv, NEW m \in inbox, NEW from \in Statuses,
         Loaded(m, from), Transition(m), NEW a, a = m.activity
  PROVE  Column(a)' = Append(Column(a), <<m.target, m.actor>>)
<1> DEFINE n == Len(evidence[a])
           pair == <<m.target, m.actor>>
           X == Targets \X Subjects
<1>1. /\ evidence[a] \in Seq(Evidence) /\ n \in Nat
      /\ DOMAIN evidence[a] = 1..n
      /\ DOMAIN evidence'[a] = 1..(n + 1)
      /\ \A i \in 1..n : evidence'[a][i] = evidence[a][i]
      /\ evidence'[a][n + 1].decision = m.target
      /\ evidence'[a][n + 1].actor = m.actor
  <2>1. RowTypes
    BY DEF RegisterInv
  <2>2. Changed(m, from, a)
    BY <2>1, StepShape
  <2> QED
    BY ONLY <2>2 DEF Changed
<1>2. pair \in X
  BY DEF RegisterInv, RowTypes, Message
<1>3. \A i \in 1..n : evidence[a][i] \in Evidence
  BY <1>1
<1> DEFINE old == Column(a)
           new == [i \in 1..(n + 1) |-> <<evidence'[a][i].decision, evidence'[a][i].actor>>]
<1>4. old = [i \in 1..n |-> <<evidence[a][i].decision, evidence[a][i].actor>>]
  BY <1>1 DEF Column
<1>5. Column(a)' = new
  BY <1>1 DEF Column
<1> HIDE DEF n, pair, X
<1>6. /\ \A i \in 1..n : old[i] \in X /\ new[i] = old[i]
      /\ new[n + 1] = pair
  BY <1>1, <1>3, <1>4 DEF Evidence, X, pair
<1>7. DOMAIN old = 1..n /\ old = [i \in 1..n |-> old[i]]
  BY <1>4
<1>8. DOMAIN new = 1..(n + 1) /\ new = [i \in 1..(n + 1) |-> new[i]]
  OBVIOUS
<1> HIDE DEF old, new
<1>9. old \in Seq(X) /\ Len(old) = n
  <2>1. n \in Nat /\ old \in [1..n -> X]
    BY <1>1, <1>6, <1>7
  <2>2. old \in Seq(X)
    BY ONLY <2>1, SeqDef
  <2>3. Len(old) \in Nat /\ 1..Len(old) = 1..n
    BY ONLY <1>7, <2>2, LenProperties
  <2>4. Len(old) = n
    BY ONLY <2>1, <2>3, SameLength
  <2> QED
    BY <2>2, <2>4
<1>10. new \in Seq(X) /\ Len(new) = n + 1
  <2>1. \A i \in 1..(n + 1) : new[i] \in X
    <3>1. n \in Nat
      BY <1>1
    <3>2. \A i \in 1..(n + 1) : i \in 1..n \/ i = n + 1
      BY ONLY <3>1
    <3> QED
      BY ONLY <1>2, <1>6, <3>2
  <2>2. n + 1 \in Nat /\ new \in [1..(n + 1) -> X]
    BY <1>1, <1>8, <2>1
  <2>3. new \in Seq(X)
    BY ONLY <2>2, SeqDef
  <2>4. Len(new) \in Nat /\ 1..Len(new) = 1..(n + 1)
    BY ONLY <1>8, <2>3, LenProperties
  <2>5. Len(new) = n + 1
    BY ONLY <2>2, <2>4, SameLength
  <2> QED
    BY <2>3, <2>5
<1>11. /\ Append(old, pair) \in Seq(X) /\ Len(Append(old, pair)) = n + 1
       /\ \A i \in 1..n : Append(old, pair)[i] = old[i]
       /\ Append(old, pair)[n + 1] = pair
  BY <1>2, <1>9, AppendProperties
<1>12. \A i \in 1..(n + 1) : new[i] = Append(old, pair)[i]
  BY <1>1, <1>6, <1>11
<1>13. new = Append(old, pair)
  BY <1>10, <1>11, <1>12, SeqEqual
<1> QED
  BY <1>5, <1>13 DEF old, pair

LEMMA RegisterStarts == Init => Register!Init
<1> SUFFICES ASSUME Init PROVE Register!Init
  OBVIOUS
<1>1. \A a \in Activities : Column(a) = <<>> /\ activity[a] = NoActivity
  BY DEF Init, Column
<1> QED
  BY <1>1 DEF Register!Init, Seen

LEMMA UnseenRegister ==
  ASSUME activity' = activity, evidence' = evidence
  PROVE  UNCHANGED Register!register
  BY DEF Register!register, Seen, Column

LEMMA RecordSeen ==
  ASSUME RegisterInv, NEW a \in Activities, NEW r \in Subjects, NEW o \in Subjects,
         Create(a, r, o)
  PROVE  Register!Record(a)
<1> DEFINE row == [requester |-> r, owner |-> o, status |-> "draft", version |-> 1,
                   expires |-> Never]
<1>1. /\ activity[a] = NoActivity /\ activity' = [activity EXCEPT ![a] = row]
      /\ evidence' = evidence
  BY DEF Create
<1>2. row \in Activity
  BY DEF Activity, Statuses, Expiry
<1>3. row # NoActivity /\ row.status = "draft" /\ row.requester = r /\ row.owner = o
  BY <1>2, Distinct
<1> HIDE DEF row
<1>4. activity'[a] = row /\ \A b \in Activities : b # a => activity'[b] = activity[b]
  BY <1>1 DEF RegisterInv, RowTypes
<1>5. /\ Seen(a, "none", activity[a].status) = "none"
      /\ Seen(a, "none", activity[a].status)' = "draft"
      /\ Seen(a, NoActivity, activity[a].requester)' = r
      /\ Seen(a, NoActivity, activity[a].owner)' = o
  BY <1>1, <1>3, <1>4 DEF Seen
<1>6. \A b \in Activities : b # a =>
        /\ Seen(b, "none", activity[b].status)' = Seen(b, "none", activity[b].status)
        /\ Seen(b, NoActivity, activity[b].requester)' = Seen(b, NoActivity, activity[b].requester)
        /\ Seen(b, NoActivity, activity[b].owner)' = Seen(b, NoActivity, activity[b].owner)
  BY <1>4 DEF Seen
<1>7. [b \in Activities |-> Seen(b, "none", activity[b].status)]'
        = [[b \in Activities |-> Seen(b, "none", activity[b].status)] EXCEPT ![a] = "draft"]
  BY <1>5, <1>6
<1>8. [b \in Activities |-> Seen(b, NoActivity, activity[b].requester)]'
        = [[b \in Activities |-> Seen(b, NoActivity, activity[b].requester)] EXCEPT ![a] = r]
  BY <1>5, <1>6
<1>9. [b \in Activities |-> Seen(b, NoActivity, activity[b].owner)]'
        = [[b \in Activities |-> Seen(b, NoActivity, activity[b].owner)] EXCEPT ![a] = o]
  BY <1>5, <1>6
<1>10. [b \in Activities |-> Column(b)]' = [b \in Activities |-> Column(b)]
  BY <1>1 DEF Column
<1> QED
  BY <1>5, <1>7, <1>8, <1>9, <1>10 DEF Register!Record

LEMMA SignSeen ==
  ASSUME RegisterInv, NEW m \in inbox, NEW from \in Statuses,
         Loaded(m, from), Allowed(m, from), Transition(m)
  PROVE  \E a \in Activities :
           Register!Attest(a) \/ Register!Submit(a) \/ Register!Decide(a)
<1> DEFINE a == m.activity
<1>1. /\ a \in Recorded /\ a \in Activities /\ activity[a] \in Activity
      /\ activity[a].status = from
      /\ \A b \in Activities : b # a => activity'[b] = activity[b] /\ evidence'[b] = evidence[b]
      /\ activity'[a] \in Activity
      /\ activity'[a].requester = activity[a].requester
      /\ activity'[a].owner = activity[a].owner
      /\ activity'[a].status = m.target
  <2>1. RowTypes
    BY DEF RegisterInv
  <2>2. Changed(m, from, a)
    BY <2>1, StepShape
  <2> QED
    BY ONLY <2>2 DEF Changed
<1>2. activity[a] # NoActivity /\ activity'[a] # NoActivity
  BY <1>1, Distinct
<1>3. Column(a)' = Append(Column(a), <<m.target, m.actor>>)
  BY ColumnGrows
<1>4. m.actor \in Subjects
  BY DEF RegisterInv, RowTypes, Message
<1>5. ASSUME NEW S, m.actor \in S PROVE Register!Sign(a, from, m.target, S)
  <2>1. \A b \in Activities : b # a => Column(b)' = Column(b)
    BY <1>1 DEF Column
  <2>2. [b \in Activities |-> Column(b)]'
          = [[b \in Activities |-> Column(b)] EXCEPT ![a] = Append(@, <<m.target, m.actor>>)]
    BY <1>1, <1>3, <2>1
  <2>3. [b \in Activities |-> Seen(b, "none", activity[b].status)]'
          = [[b \in Activities |-> Seen(b, "none", activity[b].status)] EXCEPT ![a] = m.target]
    BY <1>1, <1>2 DEF Seen
  <2>4. [b \in Activities |-> Seen(b, "none", activity[b].status)][a] = from
    BY <1>1, <1>2 DEF Seen
  <2>5. /\ [b \in Activities |-> Seen(b, NoActivity, activity[b].requester)]'
             = [b \in Activities |-> Seen(b, NoActivity, activity[b].requester)]
        /\ [b \in Activities |-> Seen(b, NoActivity, activity[b].owner)]'
             = [b \in Activities |-> Seen(b, NoActivity, activity[b].owner)]
    BY <1>1, <1>2 DEF Seen
  <2> QED
    BY <1>5, <2>2, <2>3, <2>4, <2>5 DEF Register!Sign
<1>6. /\ [b \in Activities |-> Seen(b, NoActivity, activity[b].owner)][a] = activity[a].owner
      /\ [b \in Activities |-> Seen(b, NoActivity, activity[b].requester)][a] = activity[a].requester
  BY <1>1, <1>2 DEF Seen
<1>7. Register!Verdicts = Verdicts
  BY DEF Register!Verdicts, Verdicts
<1> HIDE DEF a
<1>8. CASE from = "draft" /\ m.target = "owner_attested" /\ m.actor = activity[a].owner
  BY <1>1, <1>5, <1>6, <1>8 DEF Register!Attest
<1>9. CASE from = "owner_attested" /\ m.target = "dpo_review" /\ m.actor = activity[a].owner
  BY <1>1, <1>5, <1>6, <1>9 DEF Register!Submit
<1>10. CASE /\ from = "dpo_review" /\ m.target \in Verdicts
            /\ m.actor \notin {activity[a].owner, activity[a].requester}
  BY <1>1, <1>4, <1>5, <1>6, <1>7, <1>10 DEF Register!Decide
<1> QED
  BY <1>8, <1>9, <1>10 DEF Allowed, a

(* Versions, validation, repeated and racing requests show an observer nothing *)
(* but signatures, each given once, in order and by whom it may be.            *)
THEOREM Refinement == Spec => ImplementsRegister
<1>1. Init => Register!Init
  BY RegisterStarts
<1>2. RegisterInv /\ [Next]_vars => [Register!Next]_(Register!register)
  <2> SUFFICES ASSUME RegisterInv, [Next]_vars
               PROVE  Register!Next \/ UNCHANGED Register!register
    OBVIOUS
  <2>1. CASE CreateAny
    BY <2>1, RecordSeen DEF CreateAny, Register!Next
  <2>2. ASSUME NEW m \in inbox, Attest(m) \/ SubmitDPOReview(m) \/ Decide(m)
        PROVE  Register!Next
    BY <2>2, StepsAreAllowed, SignSeen DEF Register!Next
  <2>3. CASE ArriveAny \/ (\E m \in inbox : Refuse(m)) \/ Tick \/ UNCHANGED vars
    BY <2>3, UnseenRegister DEF ArriveAny, Arrive, Refuse, Tick, vars
  <2> QED
    BY <2>1, <2>2, <2>3 DEF Next
<1> QED
  BY <1>1, <1>2, Invariance, PTL DEF Spec, ImplementsRegister, Register!Spec

===============================================================================
