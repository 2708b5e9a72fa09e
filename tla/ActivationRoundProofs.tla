------------------------- MODULE ActivationRoundProofs -------------------------
(* The fan-out of an activation is what Onboarding takes the calls of one      *)
(* claimed operation to be: for every list of distinct roles, every limit and  *)
(* every set of mapped roles, its states fit there and its steps are steps     *)
(* there.                                                                      *)
EXTENDS ActivationRound, GroupAssignmentProofs

-------------------------------------------------------------------------------
(* What the invariant of GroupAssignment says about the calls of the job. *)

(* Keycloak adds to a group only for a role that was started. *)
MembersWereStarted == \A r \in members : put[r] # "none"

RoundInv == FanOutInv /\ MembersWereStarted

LEMMA RoundNext == RoundInv /\ [Next]_vars => RoundInv'
<1> SUFFICES ASSUME RoundInv, [Next]_vars PROVE RoundInv'
  OBVIOUS
<1>1. FanOutInv'
  BY FanOutNext DEF RoundInv
<1>2. MembersWereStarted'
  <2> SUFFICES ASSUME NEW r \in members' PROVE put'[r] # "none"
    BY DEF MembersWereStarted
  <2>1. r \in Roles
    BY <1>1 DEF FanOutInv, TypeOK
  <2>2. put[r] # "none"
    <3>1. CASE r \in members
      BY <3>1 DEF RoundInv, MembersWereStarted
    <3>2. CASE r \notin members
      BY <3>2 DEF Next, Loop, Token, Start, Unmapped, AllStarted, Finish, Goroutine, Send,
                  FailUnsent, Abandon, Keycloak, Process, Answer, Expire, vars
    <3> QED
      BY <3>1, <3>2
  <2> QED
    BY <2>1, <2>2 DEF RoundInv, FanOutInv, TypeOK, Next, Loop, Token, Start, Unmapped,
         AllStarted, Finish, Goroutine, Send, FailUnsent, Abandon, Keycloak, Process,
         Answer, Expire, vars
<1> QED
  BY <1>1, <1>2 DEF RoundInv

LEMMA RoundInvariance == Spec => []RoundInv
<1>1. Init => RoundInv
  BY FanOutStarts DEF Init, RoundInv, MembersWereStarted
<1> QED
  BY <1>1, RoundNext, PTL DEF Spec

(* While the fan-out runs, a call that is over was processed or noted as an    *)
(* error; a fan-out that has returned without an error has them all processed. *)
LEMMA NothingForgotten ==
  ASSUME RoundInv, ~Job.failed, NEW r \in Roles \ (Job.todo \cup Job.waiting)
  PROVE  r \in members
<1> USE DEF RoundInv, FanOutInv
<1>1. failed = {} /\ result # "error"
  BY DEF Job
<1>2. CASE pc = "returned"
  <2>1. result = "nil"
    BY <1>1, <1>2 DEF NilIsFinal, TypeOK
  <2> QED
    BY <1>2, <2>1, HonestFanOut DEF HonestResult
<1>3. CASE pc # "returned"
  <2>1. put[r] \notin {"none", "started", "sent"}
    BY <1>3 DEF Job, Pending
  <2> QED
    BY <1>1, <2>1 DEF EndsAreAccountedFor, TypeOK, Phases
<1> QED
  BY <1>2, <1>3

-------------------------------------------------------------------------------
(* The state. *)

LEMMA JobIsTyped ==
  ASSUME RoundInv
  PROVE  /\ Job \in Onboarding!Job
         /\ Job # NoJob
<1>1. Roles \subseteq Onboarding!Calls
  BY DEF Onboarding!Calls
<1>2. Job \in Onboarding!Job
  BY <1>1 DEF Job, Pending, Onboarding!Job, Onboarding!Kinds
<1> QED
  BY <1>2, NullsAreDistinct

LEMMA TheRow ==
  /\ Roles # {}
  /\ [email |-> Email, requester |-> Requester, roles |-> Roles] \in Onboarding!Row
  /\ [email |-> Email, requester |-> Requester, roles |-> Roles] # NoRow
<1>1. Roles # {}
  BY SomeRoleIsRequested, OrderIsASequence DEF Roles
<1>2. [email |-> Email, requester |-> Requester, roles |-> Roles] \in Onboarding!Row
  BY <1>1 DEF Onboarding!Row
<1> QED
  BY <1>1, <1>2, NullsAreDistinct

LEMMA FitsType == RoundInv => Onboarding!TypeOK
<1> SUFFICES ASSUME RoundInv PROVE Onboarding!TypeOK
  OBVIOUS
<1>1. <<Evidence("approved"), Evidence("invited")>> \in Seq(Onboarding!Decision)
  <2>1. Evidence("approved") \in Onboarding!Decision /\ Evidence("invited") \in Onboarding!Decision
    BY DEF Evidence, Onboarding!Decision, Onboarding!Statuses, Onboarding!Actors
  <2> QED
    BY <2>1
<1>2. Roles \subseteq Calls
  BY DEF Calls
<1> QED
  BY <1>1, <1>2, TheRow, JobIsTyped
  DEF Onboarding!TypeOK, Onboarding!Statuses, Onboarding!Kinds, Onboarding!Calls, Calls

LEMMA FitsTables == Onboarding!TablesAgree
<1>1. Onboarding!Column(<<Evidence("approved"), Evidence("invited")>>)
        = <<"approved", "invited">>
  BY DEF Onboarding!Column, Evidence
<1>2. Onboarding!OperationsOf("activating") =
        [k \in {"provision", "activate"} |-> IF k = "provision" THEN "succeeded" ELSE "running"]
  BY DEF Onboarding!OperationsOf, Onboarding!Kinds, Onboarding!Expected,
         Onboarding!Achieved, Onboarding!Ambiguous
<1>3. Onboarding!History("activating") = <<"approved", "invited">>
  BY DEF Onboarding!History
<1> QED
  BY <1>1, <1>2, <1>3 DEF Onboarding!TablesAgree

(* What Keycloak has of a call. *)
LEMMA FitsReached ==
  ASSUME RoundInv
  PROVE  /\ \A r \in Roles : Onboarding!Reached(Request, r) <=> put[r] # "none"
         /\ Onboarding!Reached(Request, Invite)
BY InviteIsNoRole DEF Onboarding!Reached, RoundInv, MembersWereStarted, Calls

LEMMA FitsOwner == RoundInv => Onboarding!HandlersOwnOperations
<1> SUFFICES ASSUME RoundInv PROVE Onboarding!Owns(Handler)
  BY DEF Onboarding!HandlersOwnOperations
<1>1. Onboarding!CallsOf(Request, "activate") = Roles
  BY DEF Onboarding!CallsOf
<1>2. Job.todo \cup Job.waiting \subseteq Roles
  BY DEF Job, Pending
<1>3. ASSUME NEW c \in Job.todo PROVE ~Onboarding!Reached(Request, c)
  BY <1>3, FitsReached DEF Job, Pending
<1>4. ASSUME ~Job.failed, NEW c \in Roles \ (Job.todo \cup Job.waiting)
      PROVE  c \in members
  BY <1>4, NothingForgotten
<1>5. Job.request = Request /\ Job.kind = "activate"
  BY DEF Job
<1> QED
  BY <1>1, <1>2, <1>3, <1>4, <1>5 DEF Onboarding!Owns, Calls

LEMMA FitsBooks ==
  RoundInv => /\ Onboarding!Bookkeeping
              /\ Onboarding!CallsReachKeycloakAtMostOnce
              /\ Onboarding!RecordedSuccessIsReal
<1> SUFFICES ASSUME RoundInv
             PROVE  /\ Onboarding!Bookkeeping
                    /\ Onboarding!CallsReachKeycloakAtMostOnce
                    /\ Onboarding!RecordedSuccessIsReal
  OBVIOUS
<1>1. Onboarding!Bookkeeping
  <2>1. ASSUME NEW c \in Onboarding!Calls
        PROVE  \E k \in Onboarding!Kinds : c \in Onboarding!CallsOf(Request, k)
    BY DEF Onboarding!Calls, Onboarding!Kinds, Onboarding!CallsOf
  <2> QED
    BY <2>1, TheRow, ApproverIsNotRequester DEF Onboarding!Bookkeeping, Onboarding!Kinds, Evidence
<1>2. Onboarding!CallsReachKeycloakAtMostOnce
  BY InviteIsNoRole DEF Onboarding!CallsReachKeycloakAtMostOnce, Onboarding!Calls, Calls
<1>3. Onboarding!RecordedSuccessIsReal
  BY DEF Onboarding!RecordedSuccessIsReal, Calls
<1> QED
  BY <1>1, <1>2, <1>3

(* Whatever the goroutines do and however the call ends, the fan-out is in a   *)
(* state of the onboarding workflow: the handler owns its operation, what it   *)
(* still has to send Keycloak has not seen, no group is asked for twice.       *)
THEOREM Fits == Spec => []FitsOnboarding
<1>1. RoundInv => FitsOnboarding
  BY FitsType, FitsTables, FitsOwner, FitsBooks DEF FitsOnboarding, Onboarding!IndInv
<1> QED
  BY <1>1, RoundInvariance, PTL

-------------------------------------------------------------------------------
(* The steps. *)

(* Keycloak, its messages and the job are all that Onboarding sees change.     *)
Unseen ==
  /\ Job' = Job /\ members' = members
  /\ \A r \in Roles : put'[r] = "none" <=> put[r] = "none"

LEMMA UnseenStutters == ASSUME Unseen PROVE UNCHANGED Onboarding!vars
<1>1. {x \in Roles : put'[x] # "none"} = {x \in Roles : put[x] # "none"}
  BY DEF Unseen
<1> QED
  BY <1>1 DEF Unseen, Onboarding!vars, Calls

(* The job of the handler, and what the updates of Onboarding make of it. *)
JobWith(T, W, F) ==
  [request |-> Request, kind |-> "activate", operator |-> Operator,
   todo |-> T, waiting |-> W, failed |-> F]

FailedWith(T, W) == JobWith(T, W, TRUE)

AsHandler(J) == [h \in {Handler} |-> J]

Sending(J, c) ==
  [AsHandler(J) EXCEPT ![Handler].todo = @ \ {c}, ![Handler].waiting = @ \cup {c}]
Answered(J, c) == [AsHandler(J) EXCEPT ![Handler].waiting = @ \ {c}]
Failed(J, C) ==
  [AsHandler(J) EXCEPT ![Handler].todo = @ \ C, ![Handler].waiting = @ \ C,
                       ![Handler].failed = TRUE]

LEMMA JobFields ==
  /\ Job = JobWith(Job.todo, Job.waiting, Job.failed)
  /\ Job.request = Request
  /\ Job.todo = Pending({"none"})
  /\ Job.waiting = Pending({"started", "sent"})
BY DEF Job, JobWith

LEMMA SendUpdates ==
  ASSUME NEW T, NEW W, NEW F, NEW c
  PROVE  Sending(JobWith(T, W, F), c) = AsHandler(JobWith(T \ {c}, W \cup {c}, F))
<1> DEFINE H == AsHandler(JobWith(T, W, F))
           G == AsHandler(JobWith(T \ {c}, W, F))
           E == AsHandler(JobWith(T \ {c}, W \cup {c}, F))
<1>1. H[Handler].todo = T /\ H[Handler].waiting = W
  BY DEF AsHandler, JobWith
<1>2. [H EXCEPT ![Handler].todo = T \ {c}] = G
  BY DEF AsHandler, JobWith
<1>3. [G EXCEPT ![Handler].waiting = W \cup {c}] = E
  BY DEF AsHandler, JobWith
<1> HIDE DEF E, G, H
<1>4. [H EXCEPT ![Handler].todo = @ \ {c}, ![Handler].waiting = @ \cup {c}] = E
  BY <1>1, <1>2, <1>3
<1> QED
  BY <1>4 DEF E, H, Sending

LEMMA AnswerUpdates ==
  ASSUME NEW T, NEW W, NEW F, NEW c
  PROVE  Answered(JobWith(T, W, F), c) = AsHandler(JobWith(T, W \ {c}, F))
<1> DEFINE I == JobWith(T, W, F)
           J == JobWith(T, W \ {c}, F)
<1>1. [I EXCEPT !.waiting = @ \ {c}] = J
  BY DEF JobWith
<1> HIDE DEF I, J
<1>2. [AsHandler(I) EXCEPT ![Handler].waiting = @ \ {c}] = AsHandler(J)
  BY <1>1 DEF AsHandler
<1> QED
  BY <1>2 DEF I, J, Answered

LEMMA FailUpdates ==
  ASSUME NEW T, NEW W, NEW F, NEW C
  PROVE  Failed(JobWith(T, W, F), C) = AsHandler(FailedWith(T \ C, W \ C))
<1> DEFINE H == AsHandler(JobWith(T, W, F))
           G == AsHandler(JobWith(T \ C, W, F))
           E == AsHandler(JobWith(T \ C, W \ C, F))
           D(X) == AsHandler(JobWith(T \ C, W \ C, X))
<1>1. H[Handler].todo = T /\ H[Handler].waiting = W
  BY DEF AsHandler, JobWith
<1>2. [H EXCEPT ![Handler].todo = T \ C] = G
  BY DEF AsHandler, JobWith
<1>3. [G EXCEPT ![Handler].waiting = W \ C] = E
  BY DEF AsHandler, JobWith
<1>4. ASSUME NEW X PROVE [E EXCEPT ![Handler].failed = X] = D(X)
  BY DEF AsHandler, JobWith
<1> HIDE DEF D, E, G, H
<1>5. [E EXCEPT ![Handler].failed = TRUE] = D(TRUE)
  BY <1>4, Zenon
<1>6. [H EXCEPT ![Handler].todo = @ \ C, ![Handler].waiting = @ \ C,
                ![Handler].failed = TRUE] = D(TRUE)
  BY <1>1, <1>2, <1>3, <1>5
<1> QED
  BY <1>6 DEF D, H, Failed, FailedWith

(* The handler fails the calls C, sent or not, and sends nothing. *)
FailsIn(C) ==
  /\ C # {} /\ C \subseteq Job.todo \cup Job.waiting
  /\ Job' = FailedWith(Job.todo \ C, Job.waiting \ C)
  /\ members' = members
  /\ \A r \in Roles : put'[r] = "none" <=> put[r] = "none"

LEMMA Failing ==
  ASSUME RoundInv, NEW C \in SUBSET Roles, FailsIn(C)
  PROVE  Onboarding!Next
<1>1. {x \in Roles : put'[x] # "none"} = {x \in Roles : put[x] # "none"}
  BY DEF FailsIn
<1>2. AsHandler(Job') = Failed(Job, C)
  <2> PICK T, W, F : T = Job.todo /\ W = Job.waiting /\ F = Job.failed
    OBVIOUS
  <2>1. Job = JobWith(T, W, F) /\ Job' = FailedWith(T \ C, W \ C)
    BY JobFields DEF FailsIn
  <2> QED
    BY <2>1, FailUpdates
<1>3. Onboarding!CallsFail(Handler, C)
  BY <1>1, <1>2, JobIsTyped
  DEF Onboarding!CallsFail, FailsIn, Failed, AsHandler, Onboarding!table, Calls
<1>4. C \subseteq Onboarding!Calls
  BY DEF Onboarding!Calls
<1> QED
  BY <1>3, <1>4 DEF Onboarding!Next, Onboarding!Work

Mapped == Onboarding!Next \/ UNCHANGED Onboarding!vars

(* The early returns fail at once what has not ended, the call that starts a   *)
(* goroutine is the one that is sent, and nothing else of the loop shows.      *)
LEMMA LoopMaps == ASSUME RoundInv, Loop PROVE Mapped
<1> USE DEF RoundInv, FanOutInv, TypeOK
<1>1. ASSUME pc' = "returned", result' = "error", pc # "returned", result # "error",
             UNCHANGED <<put, failed, members>>,
             NEW o \in Roles, put[o] = "none"
      PROVE  Mapped
  <2> DEFINE C == Job.todo \cup Job.waiting
  <2>1. o \in C /\ C \subseteq Roles
    BY <1>1 DEF Job, Pending
  <2>2. Job' = FailedWith({}, {})
    BY <1>1 DEF Job, FailedWith, JobWith, Pending
  <2>3. FailsIn(C)
    BY <1>1, <2>1, <2>2 DEF FailsIn
  <2> QED
    BY <2>1, <2>3, Failing DEF Mapped
<1>2. CASE Token
  <2>1. CASE pc' = "returned"
    <3>1. 1 \in DOMAIN Order /\ Order[1] \in Roles
      BY OrderFacts, SomeRoleIsRequested, OrderIsASequence
    <3>2. put[Order[1]] = "none"
      BY <1>2, <3>1 DEF Token, LoopStarted
    <3> QED
      BY <1>1, <1>2, <2>1, <3>1, <3>2 DEF Token, NilIsFinal
  <2>2. CASE pc' = "loop"
    <3>1. Unseen
      BY <1>2, <2>2 DEF Token, Unseen, Job, Pending
    <3> QED
      BY <3>1, UnseenStutters DEF Mapped
  <2> QED
    BY <1>2, <2>1, <2>2 DEF Token
<1>3. CASE Unmapped
  <2>1. next \in DOMAIN Order /\ Order[next] \in Roles
    BY <1>3, OrderFacts DEF Unmapped
  <2>2. put[Order[next]] = "none"
    BY <2>1, OrderFacts DEF LoopStarted
  <2> QED
    BY <1>1, <1>3, <2>1, <2>2 DEF Unmapped, NilIsFinal
<1>4. CASE AllStarted
  <2>1. Unseen
    BY <1>4 DEF AllStarted, Unseen, Job, Pending
  <2> QED
    BY <2>1, UnseenStutters DEF Mapped
<1>5. CASE Finish
  <2>1. Job.todo = {} /\ Job.waiting = {}
    <3>1. ASSUME NEW r \in Roles PROVE put[r] # "none"
      BY <1>5, OrderFacts DEF Finish, LoopStarted
    <3> QED
      BY <1>5, <3>1 DEF Finish, Job, Pending, Running
  <2>2. Unseen
    BY <1>5, <2>1 DEF Finish, Unseen, Job, Pending, NilIsFinal
  <2> QED
    BY <2>2, UnseenStutters DEF Mapped
<1>6. CASE Start
  <2> PICK o : o = Order[next]
    OBVIOUS
  <2>1. /\ pc = "loop" /\ next \in DOMAIN Order /\ o \in Roles
        /\ put' = [put EXCEPT ![o] = "started"]
        /\ pc' = pc /\ failed' = failed /\ result' = result /\ members' = members
    BY <1>6, OrderFacts DEF Start
  <2>2. put[o] = "none" /\ o \notin members
    BY <2>1, OrderFacts DEF LoopStarted, MembersWereStarted
  <2>3. put'[o] = "started" /\ \A q \in Roles : q # o => put'[q] = put[q]
    BY <2>1
  <2>4. /\ o \in Job.todo
        /\ AsHandler(Job') = Sending(Job, o)
    <3>1. Pending({"none"})' = Pending({"none"}) \ {o} /\ o \in Pending({"none"})
      BY <2>1, <2>2, <2>3 DEF Pending
    <3>2. Pending({"started", "sent"})' = Pending({"started", "sent"}) \cup {o}
      BY <2>1, <2>2, <2>3 DEF Pending
    <3> PICK T, W, F : T = Job.todo /\ W = Job.waiting /\ F = Job.failed
      OBVIOUS
    <3>3. Job = JobWith(T, W, F) /\ Job' = JobWith(T \ {o}, W \cup {o}, F)
      BY <2>1, <3>1, <3>2 DEF Job, JobWith
    <3>4. AsHandler(Job') = Sending(Job, o)
      BY <3>3, SendUpdates
    <3> QED
      BY <3>1, <3>4, JobFields
  <2>5. {<<Request, r>> : r \in {x \in Roles : put'[x] # "none"} \ members'}
          = {<<Request, r>> : r \in {x \in Roles : put[x] # "none"} \ members}
              \cup {<<Request, o>>}
    <3>1. {x \in Roles : put'[x] # "none"} \ members'
            = ({x \in Roles : put[x] # "none"} \ members) \cup {o}
      BY <2>1, <2>2, <2>3
    <3> QED
      BY <3>1
  <2>6. Onboarding!Send(Handler, o)
    BY <2>1, <2>4, <2>5, JobIsTyped, JobFields DEF Onboarding!Send, Onboarding!table, Calls, Sending, AsHandler
  <2>7. o \in Onboarding!Calls
    BY <2>1 DEF Onboarding!Calls
  <2> QED
    BY <2>6, <2>7 DEF Mapped, Onboarding!Next, Onboarding!Work
<1> QED
  BY <1>2, <1>3, <1>4, <1>5, <1>6 DEF Loop

(* A goroutine that fails fails its call, unless nobody listens any more. *)
LEMMA EndMaps ==
  ASSUME RoundInv, NEW r \in Roles, put[r] \in {"started", "sent"},
         NEW p \in {"ended", "abandoned"}, put' = [put EXCEPT ![r] = p],
         failed' = failed \cup {r},
         UNCHANGED <<pc, result, members>>
  PROVE  Mapped
<1> USE DEF RoundInv, FanOutInv, TypeOK
<1>1. put'[r] = p /\ \A q \in Roles : q # r => put'[q] = put[q]
  OBVIOUS
<1>2. \A q \in Roles : put'[q] = "none" <=> put[q] = "none"
  BY <1>1
<1>3. CASE pc = "returned"
  <2>1. result = "error"
    BY <1>3 DEF NilIsFinal, Running
  <2>2. Unseen
    BY <1>2, <1>3, <2>1 DEF Unseen, Job, Pending
  <2> QED
    BY <2>2, UnseenStutters DEF Mapped
<1>4. CASE pc # "returned"
  <2>1. Pending({"none"})' = Pending({"none"}) \ {r}
    BY <1>1, <1>4 DEF Pending
  <2>2. Pending({"started", "sent"})' = Pending({"started", "sent"}) \ {r}
    BY <1>1, <1>4 DEF Pending
  <2>3. r \in Pending({"none"}) \cup Pending({"started", "sent"})
    BY <1>4 DEF Pending
  <2>4. Job' = FailedWith(Job.todo \ {r}, Job.waiting \ {r})
    <3>1. Job' = FailedWith(Pending({"none"})', Pending({"started", "sent"})')
      BY DEF Job, FailedWith, JobWith
    <3> QED
      BY <2>1, <2>2, <3>1, JobFields
  <2>5. FailsIn({r})
    BY <1>2, <2>3, <2>4, JobFields DEF FailsIn
  <2> QED
    BY <2>5, Failing DEF Mapped
<1> QED
  BY <1>3, <1>4

LEMMA GoroutineMaps ==
  ASSUME RoundInv, NEW r \in Roles, Goroutine(r) \/ Keycloak(r)
  PROVE  Mapped
<1> USE DEF RoundInv, FanOutInv, TypeOK
<1>1. CASE Send(r)
  <2>1. Unseen
    BY <1>1 DEF Send, Unseen, Job, Pending
  <2> QED
    BY <2>1, UnseenStutters DEF Mapped
<1>2. CASE FailUnsent(r)
  BY <1>2, EndMaps DEF FailUnsent
<1>3. CASE Abandon(r)
  BY <1>3, EndMaps DEF Abandon
<1>4. CASE Answer(r, FALSE)
  BY <1>4, EndMaps DEF Answer
<1>5. CASE Answer(r, TRUE)
  <2>1. /\ put[r] = "sent" /\ r \in members /\ put' = [put EXCEPT ![r] = "ended"]
        /\ UNCHANGED <<pc, failed, result, members>>
    BY <1>5 DEF Answer
  <2>2. put'[r] = "ended" /\ \A q \in Roles : q # r => put'[q] = put[q]
    BY <2>1
  <2>3. CASE pc = "returned"
    <3>1. Unseen
      BY <2>1, <2>2, <2>3 DEF Unseen, Job, Pending
    <3> QED
      BY <3>1, UnseenStutters DEF Mapped
  <2>4. CASE pc # "returned"
    <3>1. /\ r \in Job.waiting
          /\ AsHandler(Job') = Answered(Job, r)
      <4>1. /\ Pending({"none"})' = Pending({"none"})
            /\ Pending({"started", "sent"})' = Pending({"started", "sent"}) \ {r}
            /\ r \in Pending({"started", "sent"})
        BY <2>1, <2>2, <2>4 DEF Pending
      <4> PICK T, W, F : T = Job.todo /\ W = Job.waiting /\ F = Job.failed
        OBVIOUS
      <4>2. Job = JobWith(T, W, F) /\ Job' = JobWith(T, W \ {r}, F)
        BY <2>1, <4>1 DEF Job, JobWith
      <4>3. AsHandler(Job') = Answered(Job, r)
        BY <4>2, AnswerUpdates
      <4> QED
        BY <4>1, <4>3, JobFields
    <3>2. {x \in Roles : put'[x] # "none"} = {x \in Roles : put[x] # "none"}
      BY <2>1, <2>2
    <3>3. Onboarding!CallSucceeds(Handler, r)
      BY <2>1, <3>1, <3>2, JobIsTyped, JobFields
      DEF Onboarding!CallSucceeds, Onboarding!table, Calls, Answered, AsHandler
    <3> QED
      BY <3>3 DEF Mapped, Onboarding!Next, Onboarding!Work, Onboarding!Calls
  <2> QED
    BY <2>3, <2>4
<1>6. CASE Process(r)
  <2>1. /\ put[r] # "none" /\ r \notin members /\ members' = members \cup {r}
        /\ UNCHANGED <<put, pc, failed, result>>
    BY <1>6 DEF Process
  <2>2. Job' = Job
    BY <2>1 DEF Job, Pending
  <2>3. Onboarding!Deliver(Request, r)
    <3> DEFINE D == [c \in Calls |-> IF c = Invite \/ c \in members THEN 1 ELSE 0]
    <3>1. D' = [D EXCEPT ![r] = @ + 1]
      <4>1. r \in Calls /\ D[r] + 1 = 1
        BY <2>1, InviteIsNoRole DEF Calls
      <4>2. D' = [c \in Calls |-> IF c = r THEN 1 ELSE D[c]]
        BY <2>1
      <4>3. D = [c \in Calls |-> D[c]]
        OBVIOUS
      <4> HIDE DEF D
      <4> QED
        BY <4>1, <4>2, <4>3
    <3>2. {<<Request, x>> : x \in {y \in Roles : put'[y] # "none"} \ members'}
            = {<<Request, x>> : x \in {y \in Roles : put[y] # "none"} \ members}
                \ {<<Request, r>>}
      <4>1. {y \in Roles : put'[y] # "none"} \ members'
              = ({y \in Roles : put[y] # "none"} \ members) \ {r}
        BY <2>1
      <4> QED
        BY <4>1
    <3> HIDE DEF D
    <3> QED
      BY <2>1, <2>2, <3>1, <3>2 DEF Onboarding!Deliver, Onboarding!table, D
  <2> QED
    BY <2>3 DEF Mapped, Onboarding!Next, Onboarding!Network, Onboarding!Calls
<1> QED
  BY <1>1, <1>2, <1>3, <1>4, <1>5, <1>6 DEF Goroutine, Keycloak

(* Every step of the fan-out is one Onboarding allows: a call sent once, an    *)
(* answer only for what Keycloak processed, a failure noted, and after the     *)
(* return nothing but Keycloak working off what is still on the wire.          *)
THEOREM Steps == Spec => StepsAreOnboardings
<1>1. RoundInv /\ [Next]_vars => [Onboarding!Next]_(Onboarding!vars)
  <2> SUFFICES ASSUME RoundInv, [Next]_vars PROVE Mapped
    BY DEF Mapped
  <2>1. CASE Expire \/ UNCHANGED vars
    <3>1. Unseen
      BY <2>1 DEF Expire, vars, Unseen, Job, Pending
    <3> QED
      BY <3>1, UnseenStutters DEF Mapped
  <2> QED
    BY <2>1, LoopMaps, GoroutineMaps DEF Next
<1> QED
  BY <1>1, RoundInvariance, PTL DEF Spec, StepsAreOnboardings

===============================================================================
