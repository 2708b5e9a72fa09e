--------------------------- MODULE OnboardingProofs ---------------------------
(* Theorems about Onboarding, for every value of its constants. *)
EXTENDS Onboarding, TLAPS, SequenceTheorems

-------------------------------------------------------------------------------
(* Type correctness. *)

LEMMA TypeInit == Init => TypeOK
  BY DEF Init, TypeOK, Kinds

(* The second components of the job a claim creates are sets of calls. *)
LEMMA CallsOfType ==
  ASSUME TypeOK, NEW r \in Requests, NEW k \in Kinds, row[r] # NoRow
  PROVE  CallsOf(r, k) \subseteq Calls /\ row[r] \in Row
  BY DEF TypeOK, CallsOf, Calls, Row

LEMMA TypeNext == TypeOK /\ Bookkeeping /\ [Next]_vars => TypeOK'
<1> SUFFICES ASSUME TypeOK, Bookkeeping, [Next]_vars PROVE TypeOK'
  OBVIOUS
<1>1. ASSUME NEW r \in Requests, NEW s \in Subjects, NEW e \in Emails,
             NEW R \in SUBSET Roles, Submit(r, s, e, R)
      PROVE  TypeOK'
  <2>1. [email |-> e, requester |-> s, roles |-> R] \in Row
    BY <1>1 DEF TypeOK, Submit, Row
  <2>2. row' \in [Requests -> Row \cup {NoRow}]
    <3> DEFINE new == [email |-> e, requester |-> s, roles |-> R]
    <3>1. row' = [row EXCEPT ![r] = new]
      BY <1>1 DEF Submit
    <3> HIDE DEF new
    <3> QED
      BY <2>1, <3>1 DEF TypeOK, new
  <2>3. status' \in [Requests -> Statuses \cup {"none"}]
    BY <1>1 DEF TypeOK, Submit, Statuses
  <2> QED
    BY <1>1, <2>2, <2>3 DEF TypeOK, Submit
<1>2. ASSUME NEW r \in Requests, NEW s \in Approvers,
             NEW v \in {"approved", "rejected"}, Decide(r, s, v)
      PROVE  TypeOK'
  <2>1. Evidence(v, s) \in Decision /\ v \in Statuses
    BY <1>2, ApproversAreSubjects DEF TypeOK, Evidence, Decision, Actors, Statuses
  <2>2. status' \in [Requests -> Statuses \cup {"none"}]
    BY <1>2, <2>1 DEF TypeOK, Decide
  <2>3. decisions' \in [Requests -> Seq(Decision)]
    <3> DEFINE new == Append(decisions[r], Evidence(v, s))
    <3>1. new \in Seq(Decision)
      BY <2>1 DEF TypeOK
    <3>2. decisions' = [decisions EXCEPT ![r] = new]
      BY <1>2 DEF Decide
    <3> HIDE DEF new
    <3> QED
      BY <3>1, <3>2 DEF TypeOK
  <2> QED
    BY <1>2, <2>2, <2>3 DEF TypeOK, Decide
<1>3. ASSUME NEW h \in Handlers, NEW r \in Requests, NEW s \in Approvers,
             NEW k \in Kinds, NEW a \in BOOLEAN, Claim(h, r, s, k, a)
      PROVE  TypeOK'
  <2>1. Expected(k) \in Statuses
    BY DEF TypeOK, Expected, Statuses
  <2>2. status' \in [Requests -> Statuses \cup {"none"}]
    BY <1>3, <2>1 DEF TypeOK, Claim
  <2>3. op' \in [Requests -> [Kinds -> {"none", "running", "succeeded", "ambiguous"}]]
    BY <1>3 DEF TypeOK, Claim
  <2>4. row[r] # NoRow
    BY <1>3 DEF TypeOK, Claim, Claimable, Bookkeeping
  <2>5. [request |-> r, kind |-> k, operator |-> s, todo |-> CallsOf(r, k),
         waiting |-> {}, failed |-> FALSE] \in Job
    BY <2>4, CallsOfType DEF TypeOK, Job
  <2>6. handler' \in [Handlers -> Job \cup {NoJob}]
    BY <1>3, <2>5 DEF TypeOK, Claim
  <2> QED
    BY <1>3, <2>2, <2>3, <2>6 DEF TypeOK, Claim
<1>4. ASSUME NEW h \in Handlers, NEW c \in Calls, Send(h, c)
      PROVE  TypeOK'
  <2>1. handler[h] \in Job
    BY <1>4 DEF TypeOK, Send
  <2>2. handler' \in [Handlers -> Job \cup {NoJob}]
    BY <1>4, <2>1 DEF TypeOK, Send, Job
  <2>3. wire' \subseteq Requests \X Calls
    BY <1>4, <2>1 DEF TypeOK, Send, Job
  <2> QED
    BY <1>4, <2>2, <2>3 DEF TypeOK, Send, table
<1>5. ASSUME NEW h \in Handlers, NEW c \in Calls, CallSucceeds(h, c)
      PROVE  TypeOK'
  <2>1. handler[h] \in Job
    BY <1>5 DEF TypeOK, CallSucceeds
  <2>2. handler' \in [Handlers -> Job \cup {NoJob}]
    BY <1>5, <2>1 DEF TypeOK, CallSucceeds, Job
  <2> QED
    BY <1>5, <2>2 DEF TypeOK, CallSucceeds, table
<1>6. ASSUME NEW h \in Handlers, NEW C \in SUBSET Calls, CallsFail(h, C)
      PROVE  TypeOK'
  <2>1. handler[h] \in Job
    BY <1>6 DEF TypeOK, CallsFail
  <2>2. handler' \in [Handlers -> Job \cup {NoJob}]
    BY <1>6, <2>1 DEF TypeOK, CallsFail, Job
  <2> QED
    BY <1>6, <2>2 DEF TypeOK, CallsFail, table
<1>7. ASSUME NEW h \in Handlers, RecordResult(h)
      PROVE  TypeOK'
  <2> DEFINE r == handler[h].request
             k == handler[h].kind
             text == IF handler[h].failed THEN Ambiguous(k) ELSE Achieved(k)
             outcome == IF handler[h].failed THEN "ambiguous" ELSE "succeeded"
  <2>1. handler[h] \in Job
    BY <1>7 DEF TypeOK, RecordResult, CallsReturned
  <2>2. r \in Requests /\ k \in Kinds /\ text \in Statuses
    BY <2>1 DEF TypeOK, Job, Ambiguous, Achieved, Statuses
  <2>3. Evidence(text, handler[h].operator) \in Decision
    BY <2>1, <2>2, ApproversAreSubjects DEF TypeOK, Evidence, Decision, Actors, Job
  <2>4. op' = [op EXCEPT ![r][k] = outcome]
    BY <1>7 DEF TypeOK, RecordResult
  <2>5. status' = [status EXCEPT ![r] = text]
    BY <1>7 DEF TypeOK, RecordResult
  <2>6. decisions' = [decisions EXCEPT ![r] =
                       Append(@, Evidence(text, handler[h].operator))]
    BY <1>7 DEF TypeOK, RecordResult
  <2>7. overdue' \subseteq overdue /\ handler' = [handler EXCEPT ![h] = NoJob]
        /\ UNCHANGED <<row, wire, delivered>>
    BY <1>7 DEF TypeOK, RecordResult
  <2>8. op' \in [Requests -> [Kinds -> {"none", "running", "succeeded", "ambiguous"}]]
    BY <2>2, <2>4 DEF TypeOK
  <2>9. decisions' \in [Requests -> Seq(Decision)]
    <3> DEFINE new == Append(decisions[r], Evidence(text, handler[h].operator))
    <3>1. new \in Seq(Decision)
      BY <2>2, <2>3 DEF TypeOK
    <3>2. decisions' = [decisions EXCEPT ![r] = new]
      BY <2>6
    <3> HIDE DEF new
    <3> QED
      BY <2>2, <3>1, <3>2 DEF TypeOK
  <2>10. status' \in [Requests -> Statuses \cup {"none"}]
    BY <2>2, <2>5 DEF TypeOK
  <2> QED
    BY <2>7, <2>8, <2>9, <2>10 DEF TypeOK
<1>8. ASSUME NEW h \in Handlers, RecordFails(h)
      PROVE  TypeOK'
  BY <1>8 DEF TypeOK, RecordFails, table
<1>9. ASSUME NEW r \in Requests, NEW c \in Calls, Deliver(r, c)
      PROVE  TypeOK'
  <2>1. delivered' \in [Requests -> [Calls -> Nat]]
    BY <1>9 DEF TypeOK, Deliver
  <2> QED
    BY <1>9, <2>1 DEF TypeOK, Deliver, table
<1>10. ASSUME NEW r \in Requests, NEW c \in Calls, Lose(r, c)
       PROVE  TypeOK'
  BY <1>10 DEF TypeOK, Lose, table
<1>11. ASSUME NEW r \in Requests, NEW k \in Kinds, LeaseRunsOut(r, k)
       PROVE  TypeOK'
  <2>1. overdue' \subseteq Requests \X Kinds
    BY <1>11 DEF TypeOK, LeaseRunsOut
  <2> QED
    BY <1>11, <2>1 DEF TypeOK, LeaseRunsOut
<1>12. ASSUME NEW S \in SUBSET overdue, Reap(S)
       PROVE  TypeOK'
  <2>1. \A r : Verdict(S, r) \in Statuses
    BY DEF TypeOK, Verdict, Ambiguous, Statuses
  <2>2. \A r : Evidence(Verdict(S, r), ServiceActor) \in Decision
    BY <2>1 DEF TypeOK, Evidence, Decision, Actors
  <2>3. op' \in [Requests -> [Kinds -> {"none", "running", "succeeded", "ambiguous"}]]
    BY <1>12 DEF TypeOK, Reap
  <2>4. status' \in [Requests -> Statuses \cup {"none"}]
    BY <1>12, <2>1 DEF TypeOK, Reap
  <2>5. decisions' \in [Requests -> Seq(Decision)]
    <3>1. \A r \in Requests : decisions[r] \in Seq(Decision)
      BY DEF TypeOK
    <3>2. \A r \in Requests : Append(decisions[r], Evidence(Verdict(S, r), ServiceActor))
                                \in Seq(Decision)
      BY <3>1, <2>2 DEF TypeOK
    <3> QED
      BY <1>12, <3>1, <3>2 DEF TypeOK, Reap
  <2>6. overdue' \subseteq overdue /\ UNCHANGED <<row, handler, wire, delivered>>
    BY <1>12 DEF TypeOK, Reap
  <2> QED
    BY <2>3, <2>4, <2>5, <2>6 DEF TypeOK
<1>13. CASE Crash
  BY <1>13 DEF TypeOK, Crash, table
<1>14. CASE UNCHANGED vars
  BY <1>14 DEF TypeOK, vars
<1> QED
  BY <1>1, <1>2, <1>3, <1>4, <1>5, <1>6, <1>7, <1>8, <1>9, <1>10, <1>11, <1>12,
     <1>13, <1>14
  DEF Next, SubmitAny, DecideAny, ClaimAny, Work, Network, Expiry, ReapAny

-------------------------------------------------------------------------------
(* How the history and the operations change along the lifecycle. *)

LEMMA ColumnAppend ==
  ASSUME NEW d \in Seq(Decision), NEW t \in Statuses, NEW a \in Actors
  PROVE  Column(Append(d, Evidence(t, a))) = Append(Column(d), t)
<1> DEFINE new == Evidence(t, a)
           e == Append(d, new)
<1>1. new \in Decision /\ new.decision = t
  BY DEF Evidence, Decision
<1> HIDE DEF new
<1>2. Len(d) \in Nat /\ DOMAIN d = 1..Len(d) /\ \A i \in 1..Len(d) : d[i] \in Decision
  OBVIOUS
<1>3. /\ e \in Seq(Decision) /\ Len(e) = Len(d) + 1 /\ DOMAIN e = 1..(Len(d) + 1)
      /\ \A i \in 1..Len(d) : e[i] = d[i]
      /\ e[Len(d) + 1] = new
  BY <1>1, AppendProperties, LenProperties
<1>4. \A n \in Nat : \A f \in [1..n -> Statuses] : f \in Seq(Statuses) /\ Len(f) = n
  OBVIOUS
<1>5. Column(d) \in [1..Len(d) -> Statuses]
  BY <1>2 DEF Column, Decision
<1>6. Column(d) \in Seq(Statuses) /\ Len(Column(d)) = Len(d)
  BY <1>2, <1>4, <1>5
<1>7. Column(e) \in [1..(Len(d) + 1) -> Statuses]
  BY <1>1, <1>2, <1>3 DEF Column, Decision
<1>8. Column(e) \in Seq(Statuses) /\ Len(Column(e)) = Len(d) + 1
  BY <1>2, <1>4, <1>7
<1>9. /\ Append(Column(d), t) \in Seq(Statuses)
      /\ Len(Append(Column(d), t)) = Len(d) + 1
      /\ Append(Column(d), t)[Len(d) + 1] = t
      /\ \A i \in 1..Len(d) : Append(Column(d), t)[i] = Column(d)[i]
  <2> DEFINE c == Column(d)
  <2>1. c \in Seq(Statuses) /\ Len(c) = Len(d)
    BY <1>6
  <2> HIDE DEF c
  <2>2. /\ Append(c, t) \in Seq(Statuses)
        /\ Len(Append(c, t)) = Len(c) + 1
        /\ Append(c, t)[Len(c) + 1] = t
        /\ \A i \in 1..Len(c) : Append(c, t)[i] = c[i]
    BY <2>1, AppendProperties
  <2> QED
    BY <2>1, <2>2 DEF c
<1>10. ASSUME NEW i \in 1..(Len(d) + 1)
       PROVE  Column(e)[i] = Append(Column(d), t)[i]
  <2> HIDE DEF e
  <2>1. Column(e)[i] = e[i].decision
    BY <1>3 DEF Column
  <2>2. CASE i = Len(d) + 1
    BY <1>1, <1>2, <1>3, <1>9, <2>1, <2>2
  <2>3. CASE i \in 1..Len(d)
    <3>1. Column(d)[i] = d[i].decision
      BY <1>2, <2>3 DEF Column
    <3>2. Append(Column(d), t)[i] = Column(d)[i]
      BY <1>9, <2>3
    <3> QED
      BY <1>3, <2>1, <2>3, <3>1, <3>2
  <2>4. i = Len(d) + 1 \/ i \in 1..Len(d)
    BY <1>2
  <2> QED
    BY <2>2, <2>3, <2>4
<1> DEFINE f == Column(e)
           g == Append(Column(d), t)
<1>11. /\ f \in Seq(Statuses) /\ g \in Seq(Statuses)
       /\ Len(f) = Len(d) + 1 /\ Len(g) = Len(d) + 1
       /\ \A i \in 1..(Len(d) + 1) : f[i] = g[i]
  BY <1>8, <1>9, <1>10
<1> HIDE DEF f, g
<1>12. f = g
  BY <1>11, SeqEqual
<1> QED
  BY <1>12 DEF f, g, new

LEMMA AppendToPair ==
  ASSUME NEW T, NEW u \in T, NEW v \in T, NEW w \in T
  PROVE  /\ Append(<<>>, u) = <<u>>
         /\ Append(<<u>>, v) = <<u, v>>
         /\ Append(<<u, v>>, w) = <<u, v, w>>
<1>1. Append(<<>>, u) = <<u>>
  OBVIOUS
<1>2. Append(<<u>>, v) = <<u, v>>
  <2> DEFINE e == Append(<<u>>, v)
             f == <<u, v>>
  <2>1. f \in Seq(T) /\ Len(f) = 2 /\ f[1] = u /\ f[2] = v
    OBVIOUS
  <2>2. e \in Seq(T) /\ Len(e) = 2 /\ e[1] = u /\ e[2] = v
    OBVIOUS
  <2> HIDE DEF e, f
  <2>3. \A i \in 1..Len(e) : e[i] = f[i]
    BY <2>1, <2>2
  <2>4. e = f
    BY <2>1, <2>2, <2>3, SeqEqual
  <2> QED
    BY <2>4 DEF e, f
<1>3. Append(<<u, v>>, w) = <<u, v, w>>
  <2> DEFINE e == Append(<<u, v>>, w)
             f == <<u, v, w>>
  <2>1. f \in Seq(T) /\ Len(f) = 3 /\ f[1] = u /\ f[2] = v /\ f[3] = w
    OBVIOUS
  <2>2. e \in Seq(T) /\ Len(e) = 3 /\ e[1] = u /\ e[2] = v /\ e[3] = w
    OBVIOUS
  <2> HIDE DEF e, f
  <2>3. \A i \in 1..Len(e) : e[i] = f[i]
    BY <2>1, <2>2
  <2>4. e = f
    BY <2>1, <2>2, <2>3, SeqEqual
  <2> QED
    BY <2>4 DEF e, f
<1> QED
  BY <1>1, <1>2, <1>3

LEMMA HistorySteps ==
  /\ History("none") = <<>>
  /\ History("submitted") = <<>>
  /\ \A v \in {"approved", "rejected"} : Append(History("submitted"), v) = History(v)
  /\ \A k \in Kinds : /\ History(Expected(k)) = History(Claimable(k))
                      /\ Append(History(Expected(k)), Achieved(k)) = History(Achieved(k))
                      /\ Append(History(Expected(k)), Ambiguous(k)) = History(Ambiguous(k))
<1>1. History("none") = <<>> /\ History("submitted") = <<>>
  BY DEF History
<1>2. History("approved") = <<"approved">> /\ History("rejected") = <<"rejected">>
  BY DEF History
<1>3. History("provisioning") = <<"approved">>
  BY DEF History
<1>4. History("provisioning_ambiguous") = <<"approved", "provisioning_ambiguous">>
  BY DEF History
<1>5. /\ History("invited") = <<"approved", "invited">>
      /\ History("activating") = <<"approved", "invited">>
  BY DEF History
<1>6. /\ History("active") = <<"approved", "invited", "active">>
      /\ History("activation_ambiguous") = <<"approved", "invited", "activation_ambiguous">>
  BY DEF History
<1>7. \A v \in Statuses :
        /\ Append(<<>>, v) = <<v>>
        /\ Append(<<"approved">>, v) = <<"approved", v>>
        /\ Append(<<"approved", "invited">>, v) = <<"approved", "invited", v>>
  <2>1. "approved" \in Statuses /\ "invited" \in Statuses
    BY DEF Statuses
  <2> QED
    BY <2>1, AppendToPair
<1>8. /\ {"approved", "rejected"} \subseteq Statuses
      /\ \A k \in Kinds : Achieved(k) \in Statuses /\ Ambiguous(k) \in Statuses
  BY DEF Statuses, Kinds, Achieved, Ambiguous
<1> QED
  BY <1>1, <1>2, <1>3, <1>4, <1>5, <1>6, <1>7, <1>8
  DEF Kinds, Expected, Claimable, Achieved, Ambiguous

LEMMA OperationsTable ==
  /\ \A st : OperationsOf(st) = [k \in Kinds |-> OperationsOf(st)[k]]
  /\ \A v \in {"none", "submitted", "approved", "rejected"} :
       OperationsOf(v)["provision"] = "none" /\ OperationsOf(v)["activate"] = "none"
  /\ OperationsOf("provisioning")["provision"] = "running"
  /\ OperationsOf("provisioning")["activate"] = "none"
  /\ OperationsOf("provisioning_ambiguous")["provision"] = "ambiguous"
  /\ OperationsOf("provisioning_ambiguous")["activate"] = "none"
  /\ OperationsOf("invited")["provision"] = "succeeded"
  /\ OperationsOf("invited")["activate"] = "none"
  /\ \A v \in {"activating", "active", "activation_ambiguous"} :
       OperationsOf(v)["provision"] = "succeeded"
  /\ OperationsOf("activating")["activate"] = "running"
  /\ OperationsOf("active")["activate"] = "succeeded"
  /\ OperationsOf("activation_ambiguous")["activate"] = "ambiguous"
<1>1. \A st : OperationsOf(st) = [k \in Kinds |-> OperationsOf(st)[k]]
  BY DEF OperationsOf
<1> QED
  BY <1>1 DEF OperationsOf, Kinds, Expected, Achieved, Ambiguous

LEMMA OperationsSteps ==
  /\ OperationsOf("none") = [k \in Kinds |-> "none"]
  /\ \A v \in {"submitted", "approved", "rejected"} :
       OperationsOf(v) = OperationsOf("none")
  /\ \A k \in Kinds :
       /\ OperationsOf(Expected(k)) = [OperationsOf(Claimable(k)) EXCEPT ![k] = "running"]
       /\ OperationsOf(Achieved(k)) = [OperationsOf(Expected(k)) EXCEPT ![k] = "succeeded"]
       /\ OperationsOf(Ambiguous(k)) = [OperationsOf(Expected(k)) EXCEPT ![k] = "ambiguous"]
<1>1. \A v \in {"none", "submitted", "approved", "rejected"} :
        OperationsOf(v) = [k \in Kinds |-> "none"]
  BY OperationsTable DEF Kinds
<1>2. ASSUME NEW k \in Kinds
      PROVE OperationsOf(Expected(k)) = [OperationsOf(Claimable(k)) EXCEPT ![k] = "running"]
  BY OperationsTable DEF Kinds, Expected, Claimable
<1>3. ASSUME NEW k \in Kinds
      PROVE OperationsOf(Achieved(k)) = [OperationsOf(Expected(k)) EXCEPT ![k] = "succeeded"]
  BY OperationsTable DEF Kinds, Expected, Achieved
<1>4. ASSUME NEW k \in Kinds
      PROVE OperationsOf(Ambiguous(k)) = [OperationsOf(Expected(k)) EXCEPT ![k] = "ambiguous"]
  BY OperationsTable DEF Kinds, Expected, Ambiguous
<1> QED
  BY <1>1, <1>2, <1>3, <1>4

(* A running operation and the status of its request determine each other. *)
LEMMA RunningMeansExpected ==
  ASSUME TypeOK, TablesAgree, NEW r \in Requests, NEW k \in Kinds
  PROVE  op[r][k] = "running" <=> status[r] = Expected(k)
<1>1. op[r] = OperationsOf(status[r])
  BY DEF TablesAgree
<1> QED
  BY <1>1 DEF OperationsOf, Kinds, Expected, Achieved, Ambiguous

-------------------------------------------------------------------------------
(* The tables agree after every transaction. *)

(* What one transaction does to the three tables of request r: it moves the    *)
(* status to st, the operations to o and adds at most one decision; if the     *)
(* history and the operations of st are those, the tables still agree.         *)
LEMMA OneRowMoves ==
  ASSUME TypeOK, TablesAgree, NEW r \in Requests, NEW st, NEW o, NEW d,
         status' = [status EXCEPT ![r] = st],
         op' = [op EXCEPT ![r] = o],
         decisions' = [decisions EXCEPT ![r] = d],
         Column(d) = History(st),
         o = OperationsOf(st)
  PROVE  TablesAgree'
<1> SUFFICES ASSUME NEW q \in Requests
             PROVE  /\ Column(decisions'[q]) = History(status'[q])
                    /\ op'[q] = OperationsOf(status'[q])
  BY DEF TablesAgree
<1>1. CASE q = r
  BY <1>1 DEF TypeOK
<1>2. CASE q # r
  <2>1. status'[q] = status[q] /\ op'[q] = op[q] /\ decisions'[q] = decisions[q]
    BY <1>2 DEF TypeOK
  <2> QED
    BY <2>1 DEF TablesAgree
<1> QED
  BY <1>1, <1>2

LEMMA QuietTables ==
  ASSUME TablesAgree, UNCHANGED <<status, op, decisions>>
  PROVE  TablesAgree'
  BY DEF TablesAgree

LEMMA SubmitTables ==
  ASSUME IndInv, NEW r \in Requests, NEW s \in Subjects, NEW e \in Emails,
         NEW R \in SUBSET Roles, Submit(r, s, e, R)
  PROVE  TablesAgree'
<1>1. status[r] = "none" /\ Column(decisions[r]) = <<>>
      /\ op[r] = OperationsOf("none")
  BY HistorySteps DEF IndInv, Submit, Bookkeeping, TablesAgree
<1>2. op' = [op EXCEPT ![r] = op[r]] /\ decisions' = [decisions EXCEPT ![r] = decisions[r]]
  BY DEF IndInv, TypeOK, Submit
<1>3. Column(decisions[r]) = History("submitted") /\ op[r] = OperationsOf("submitted")
  BY <1>1, HistorySteps, OperationsSteps
<1>4. status' = [status EXCEPT ![r] = "submitted"]
  BY DEF Submit
<1> QED
  BY <1>2, <1>3, <1>4, OneRowMoves DEF IndInv

LEMMA DecideTables ==
  ASSUME IndInv, NEW r \in Requests, NEW s \in Approvers,
         NEW v \in {"approved", "rejected"}, Decide(r, s, v)
  PROVE  TablesAgree'
<1> DEFINE d == Append(decisions[r], Evidence(v, s))
<1>1. status[r] = "submitted" /\ Column(decisions[r]) = History("submitted")
      /\ op[r] = OperationsOf("submitted")
  BY DEF IndInv, Decide, TablesAgree
<1>2. v \in Statuses /\ s \in Actors
  BY ApproversAreSubjects DEF Statuses, Actors
<1>3. decisions[r] \in Seq(Decision)
  BY DEF IndInv, TypeOK
<1>4. Column(d) = Append(Column(decisions[r]), v)
  BY <1>2, <1>3, ColumnAppend
<1>5. Column(d) = History(v)
  BY <1>1, <1>4, HistorySteps
<1>6. op[r] = OperationsOf(v)
  BY <1>1, OperationsSteps
<1>7. /\ op' = [op EXCEPT ![r] = op[r]]
      /\ decisions' = [decisions EXCEPT ![r] = d]
      /\ status' = [status EXCEPT ![r] = v]
  BY DEF IndInv, TypeOK, Decide
<1> HIDE DEF d
<1> QED
  BY <1>5, <1>6, <1>7, OneRowMoves DEF IndInv

LEMMA ClaimTables ==
  ASSUME IndInv, NEW h \in Handlers, NEW r \in Requests, NEW s \in Approvers,
         NEW k \in Kinds, NEW a \in BOOLEAN, Claim(h, r, s, k, a)
  PROVE  TablesAgree'
<1> DEFINE o == [op[r] EXCEPT ![k] = "running"]
<1>1. status[r] = Claimable(k) /\ Column(decisions[r]) = History(Claimable(k))
      /\ op[r] = OperationsOf(Claimable(k))
  BY DEF IndInv, Claim, TablesAgree
<1>2. o = OperationsOf(Expected(k)) /\ Column(decisions[r]) = History(Expected(k))
  BY <1>1, HistorySteps, OperationsSteps
<1>3. /\ op' = [op EXCEPT ![r] = o]
      /\ decisions' = [decisions EXCEPT ![r] = decisions[r]]
      /\ status' = [status EXCEPT ![r] = Expected(k)]
  BY DEF IndInv, TypeOK, Claim
<1> HIDE DEF o
<1> QED
  BY <1>2, <1>3, OneRowMoves DEF IndInv

LEMMA RecordTables ==
  ASSUME IndInv, NEW h \in Handlers, RecordResult(h)
  PROVE  TablesAgree'
<1> DEFINE r == handler[h].request
           k == handler[h].kind
           text == IF handler[h].failed THEN Ambiguous(k) ELSE Achieved(k)
           outcome == IF handler[h].failed THEN "ambiguous" ELSE "succeeded"
           d == Append(decisions[r], Evidence(text, handler[h].operator))
           o == [op[r] EXCEPT ![k] = outcome]
<1>1. handler[h] \in Job
  BY DEF IndInv, TypeOK, RecordResult, CallsReturned
<1>2. /\ r \in Requests /\ k \in Kinds /\ handler[h].operator \in Actors
      /\ text \in Statuses
  BY <1>1, ApproversAreSubjects DEF Job, Actors, Statuses, Ambiguous, Achieved
<1>3. /\ op' = [op EXCEPT ![r][k] = outcome]
      /\ status' = [status EXCEPT ![r] = text]
      /\ decisions' = [decisions EXCEPT ![r] = d]
      /\ status[r] = Expected(k)
  BY DEF RecordResult
<1>4. op' = [op EXCEPT ![r] = o]
  BY <1>2, <1>3 DEF IndInv, TypeOK
<1>5. decisions[r] \in Seq(Decision)
  BY <1>2 DEF IndInv, TypeOK
<1>6. Column(d) = Append(History(Expected(k)), text)
  BY <1>2, <1>3, <1>5, ColumnAppend DEF IndInv, TablesAgree
<1>7. op[r] = OperationsOf(Expected(k))
  BY <1>2, <1>3 DEF IndInv, TablesAgree
<1>8. Column(d) = History(text)
  BY <1>2, <1>6, HistorySteps
<1>9. o = OperationsOf(text)
  BY <1>2, <1>7, OperationsSteps
<1>10. TypeOK /\ TablesAgree
  BY DEF IndInv
<1> HIDE DEF d, o, text, r
<1> QED
  BY <1>2, <1>3, <1>4, <1>8, <1>9, <1>10, OneRowMoves

(* The operations a batch of the reconciler settles are running ones, so each  *)
(* request has at most one in the batch, and stands where that kind runs.      *)
LEMMA BatchIsRunning ==
  ASSUME IndInv, NEW S \in SUBSET overdue, NEW r \in Batched(S)
  PROVE  \E k \in Kinds : /\ <<r, k>> \in S
                          /\ \A j \in Kinds : <<r, j>> \in S => j = k
                          /\ status[r] = Expected(k)
                          /\ Verdict(S, r) = Ambiguous(k)
<1>1. PICK k \in Kinds : <<r, k>> \in S
  BY DEF Batched
<1>2. r \in Requests
  BY DEF Batched
<1>3. \A j \in Kinds : <<r, j>> \in S => status[r] = Expected(j)
  BY <1>2, RunningMeansExpected DEF IndInv, Bookkeeping
<1>4. \A j \in Kinds : <<r, j>> \in S => j = k
  BY <1>1, <1>3 DEF Kinds, Expected
<1>5. Verdict(S, r) = Ambiguous(k)
  BY <1>1, <1>4 DEF Verdict, Kinds
<1> QED
  BY <1>1, <1>3, <1>4, <1>5

LEMMA ReapTables ==
  ASSUME IndInv, NEW S \in SUBSET overdue, Reap(S)
  PROVE  TablesAgree'
<1> SUFFICES ASSUME NEW r \in Requests
             PROVE  /\ Column(decisions'[r]) = History(status'[r])
                    /\ op'[r] = OperationsOf(status'[r])
  BY DEF TablesAgree
<1>1. CASE r \in Batched(S)
  <2>1. PICK k \in Kinds : /\ <<r, k>> \in S
                           /\ \A j \in Kinds : <<r, j>> \in S => j = k
                           /\ status[r] = Expected(k)
                           /\ Verdict(S, r) = Ambiguous(k)
    BY <1>1, BatchIsRunning
  <2>2. status'[r] = Ambiguous(k)
    BY <1>1, <2>1 DEF Reap, Expected
  <2>3. decisions[r] \in Seq(Decision) /\ Ambiguous(k) \in Statuses
        /\ ServiceActor \in Actors
    BY DEF IndInv, TypeOK, Ambiguous, Statuses, Actors
  <2>4. decisions'[r] = Append(decisions[r], Evidence(Ambiguous(k), ServiceActor))
    BY <1>1, <2>1 DEF Reap
  <2>5. Column(decisions'[r]) = Append(History(Expected(k)), Ambiguous(k))
    BY <2>1, <2>3, <2>4, ColumnAppend DEF IndInv, TablesAgree
  <2>6. op'[r] = [op[r] EXCEPT ![k] = "ambiguous"]
    BY <2>1 DEF Reap, IndInv, TypeOK
  <2>7. op[r] = OperationsOf(Expected(k))
    BY <2>1 DEF IndInv, TablesAgree
  <2> QED
    BY <2>2, <2>5, <2>6, <2>7, HistorySteps, OperationsSteps
<1>2. CASE r \notin Batched(S)
  <2>1. status'[r] = status[r] /\ decisions'[r] = decisions[r]
    BY <1>2 DEF Reap
  <2>2. op'[r] = op[r]
    BY <1>2 DEF Reap, Batched, IndInv, TypeOK
  <2> QED
    BY <2>1, <2>2 DEF IndInv, TablesAgree
<1> QED
  BY <1>1, <1>2

LEMMA TablesNext == IndInv /\ [Next]_vars => TablesAgree'
<1> SUFFICES ASSUME IndInv, [Next]_vars PROVE TablesAgree'
  OBVIOUS
<1>1. TablesAgree
  BY DEF IndInv
<1>2. CASE UNCHANGED <<status, op, decisions>>
  BY <1>1, <1>2, QuietTables
<1>3. ASSUME NEW h \in Handlers, Work(h), ~RecordResult(h)
      PROVE  UNCHANGED <<status, op, decisions>>
  BY <1>3 DEF Work, Send, CallSucceeds, CallsFail, RecordFails, table
<1>4. Network \/ Expiry \/ Crash \/ UNCHANGED vars => UNCHANGED <<status, op, decisions>>
  BY DEF Network, Deliver, Lose, Expiry, LeaseRunsOut, Crash, table, vars
<1>5. CASE SubmitAny
  BY <1>5, SubmitTables DEF SubmitAny
<1>6. CASE DecideAny
  BY <1>6, DecideTables DEF DecideAny
<1>7. CASE ClaimAny
  BY <1>7, ClaimTables DEF ClaimAny
<1>8. CASE ReapAny
  BY <1>8, ReapTables DEF ReapAny
<1>9. ASSUME NEW h \in Handlers, RecordResult(h) PROVE TablesAgree'
  BY <1>9, RecordTables
<1> QED
  BY <1>2, <1>3, <1>4, <1>5, <1>6, <1>7, <1>8, <1>9 DEF Next

-------------------------------------------------------------------------------
(* Facts about the operations and calls that several proofs use. *)

(* A request with an operation has a row. *)
LEMMA OperationHasRow ==
  ASSUME IndInv, NEW r \in Requests, NEW k \in Kinds, op[r][k] # "none"
  PROVE  row[r] # NoRow /\ row[r] \in Row
<1>1. op[r] = OperationsOf(status[r])
  BY DEF IndInv, TablesAgree
<1>2. status[r] # "none"
  BY <1>1, OperationsSteps
<1> QED
  BY <1>2 DEF IndInv, Bookkeeping, TypeOK

(* The calls of the two kinds of operation are different calls. *)
LEMMA CallsOfKinds ==
  ASSUME NEW r \in Requests, row[r] \in Row
  PROVE  /\ \A k \in Kinds : CallsOf(r, k) \subseteq Calls
         /\ \A j, k \in Kinds : j # k => CallsOf(r, j) \cap CallsOf(r, k) = {}
  BY InviteIsNoRole DEF CallsOf, Kinds, Calls, Row

(* What the job of a handler in flight refers to. *)
LEMMA HandlerJob ==
  ASSUME IndInv, NEW h \in Handlers, handler[h] # NoJob
  PROVE  /\ handler[h] \in Job
         /\ handler[h].request \in Requests
         /\ handler[h].kind \in Kinds
         /\ op[handler[h].request][handler[h].kind] # "none"
         /\ row[handler[h].request] \in Row
<1>1. handler[h] \in Job
  BY DEF IndInv, TypeOK
<1>2. op[handler[h].request][handler[h].kind] # "none"
  BY DEF IndInv, HandlersOwnOperations, Owns
<1> QED
  BY <1>1, <1>2, OperationHasRow DEF Job

-------------------------------------------------------------------------------
(* Each handler keeps owning its operation. *)

(* A step in which handlers only end, operations only advance and no call      *)
(* reaches Keycloak that had not before. *)
LEMMA HandlersOnlyEnd ==
  ASSUME IndInv, UNCHANGED row,
         \A h \in Handlers : handler'[h] \in {handler[h], NoJob},
         \A r \in Requests, k \in Kinds : op[r][k] # "none" => op'[r][k] # "none",
         \A r \in Requests, c \in Calls : Reached(r, c)' => Reached(r, c),
         \A r \in Requests, c \in Calls : delivered[r][c] > 0 => delivered'[r][c] > 0
  PROVE  HandlersOwnOperations'
<1> SUFFICES ASSUME NEW h \in Handlers, handler'[h] # NoJob
             PROVE  Owns(h)'
  BY DEF HandlersOwnOperations
<1> DEFINE r == handler[h].request
           k == handler[h].kind
<1>1. handler'[h] = handler[h] /\ handler[h] # NoJob
  OBVIOUS
<1>2. r \in Requests /\ k \in Kinds /\ row[r] \in Row
      /\ handler[h].todo \subseteq Calls
  BY <1>1, HandlerJob DEF Job
<1>3. CallsOf(r, k)' = CallsOf(r, k) /\ CallsOf(r, k) \subseteq Calls
  BY <1>1, <1>2, CallsOfKinds DEF CallsOf
<1>4. Owns(h)
  BY <1>1 DEF IndInv, HandlersOwnOperations
<1>5. \A g \in Handlers : handler'[g] # NoJob => handler'[g] = handler[g]
  OBVIOUS
<1> QED
  BY <1>1, <1>2, <1>3, <1>4, <1>5 DEF Owns

LEMMA SubmitHandlers ==
  ASSUME IndInv, NEW r \in Requests, NEW s \in Subjects, NEW e \in Emails,
         NEW R \in SUBSET Roles, Submit(r, s, e, R)
  PROVE  HandlersOwnOperations'
<1> SUFFICES ASSUME NEW h \in Handlers, handler'[h] # NoJob
             PROVE  Owns(h)'
  BY DEF HandlersOwnOperations
<1>1. handler' = handler /\ UNCHANGED <<op, wire, delivered>>
  BY DEF Submit
<1>2. /\ handler[h].request \in Requests
      /\ row[handler[h].request] \in Row
  BY <1>1, HandlerJob
<1>3. row'[handler[h].request] = row[handler[h].request]
  BY <1>2, NullsAreDistinct DEF Submit, IndInv, TypeOK
<1>4. Owns(h)
  BY <1>1 DEF IndInv, HandlersOwnOperations
<1> QED
  BY <1>1, <1>3, <1>4 DEF Owns, CallsOf, Reached

(* No call of a kind that was never claimed is in Keycloak's hands. *)
LEMMA UnclaimedIsUnreached ==
  ASSUME IndInv, NEW r \in Requests, NEW k \in Kinds, row[r] \in Row,
         op[r][k] = "none"
  PROVE  \A c \in CallsOf(r, k) : ~Reached(r, c)
<1> SUFFICES ASSUME NEW c \in CallsOf(r, k), Reached(r, c) PROVE FALSE
  OBVIOUS
<1>1. c \in Calls
  BY CallsOfKinds
<1>2. PICK j \in Kinds : c \in CallsOf(r, j) /\ op[r][j] # "none"
  BY <1>1 DEF IndInv, Bookkeeping
<1>3. j # k
  BY <1>2
<1> QED
  BY <1>2, <1>3, CallsOfKinds

LEMMA ClaimHandlers ==
  ASSUME IndInv, NEW h \in Handlers, NEW r \in Requests, NEW s \in Approvers,
         NEW k \in Kinds, NEW a \in BOOLEAN, Claim(h, r, s, k, a)
  PROVE  HandlersOwnOperations'
<1> SUFFICES ASSUME NEW g \in Handlers, handler'[g] # NoJob
             PROVE  Owns(g)'
  BY DEF HandlersOwnOperations
<1>1. /\ UNCHANGED <<row, wire, delivered>>
      /\ op[r][k] = "none"
      /\ op'[r][k] = "running"
      /\ \A q \in Requests, j \in Kinds : op[q][j] # "none" => op'[q][j] = op[q][j]
  BY DEF Claim, IndInv, TypeOK
<1>2. \A f \in Handlers \ {h} : handler'[f] = handler[f]
  BY DEF Claim, IndInv, TypeOK
<1>3. row[r] \in Row
  <2>1. status[r] # "none"
    BY DEF Claim, Claimable
  <2> QED
    BY <2>1 DEF IndInv, Bookkeeping, TypeOK
<1>4. ASSUME NEW f \in Handlers, handler[f] # NoJob
      PROVE  handler[f].request # r \/ handler[f].kind # k
  BY <1>1, <1>4 DEF IndInv, HandlersOwnOperations, Owns
<1>5. CASE g = h
  <2>1. /\ handler'[h].request = r /\ handler'[h].kind = k
        /\ handler'[h].todo = CallsOf(r, k) /\ handler'[h].waiting = {}
        /\ handler[h] = NoJob
    BY <1>5 DEF Claim, IndInv, TypeOK
  <2>2. \A c \in CallsOf(r, k) : ~Reached(r, c)
    BY <1>1, <1>3, UnclaimedIsUnreached
  <2>3. CallsOf(r, k)' = CallsOf(r, k)
    BY <1>1 DEF CallsOf
  <2>4. \A c : Reached(r, c)' = Reached(r, c)
    BY <1>1 DEF Reached
  <2> QED
    BY <1>1, <1>2, <1>4, <1>5, <2>1, <2>2, <2>3, <2>4 DEF Owns
<1>6. CASE g # h
  <2>1. handler'[g] = handler[g] /\ Owns(g)
    BY <1>2, <1>6 DEF IndInv, HandlersOwnOperations
  <2>2. handler[g].request \in Requests /\ handler[g].kind \in Kinds
    BY <2>1, HandlerJob
  <2>3. handler'[h] = NoJob \/ (handler'[h].request = r /\ handler'[h].kind = k)
    BY DEF Claim, IndInv, TypeOK
  <2>4. \A f \in Handlers \ {g} : handler'[f] # NoJob =>
          handler'[f].request # handler[g].request \/ handler'[f].kind # handler[g].kind
    BY <1>2, <1>4, <2>1, <2>3 DEF Owns
  <2> QED
    BY <1>1, <2>1, <2>2, <2>4 DEF Owns, CallsOf, Reached
<1> QED
  BY <1>5, <1>6

LEMMA SendHandlers ==
  ASSUME IndInv, NEW h \in Handlers, NEW c \in Calls, Send(h, c)
  PROVE  HandlersOwnOperations'
<1> SUFFICES ASSUME NEW g \in Handlers, handler'[g] # NoJob
             PROVE  Owns(g)'
  BY DEF HandlersOwnOperations
<1> DEFINE r == handler[h].request
           k == handler[h].kind
<1>1. handler[h] # NoJob /\ handler[h] \in Job /\ c \in handler[h].todo
      /\ r \in Requests /\ k \in Kinds /\ row[r] \in Row
  BY HandlerJob DEF Send
<1>2. Owns(h)
  BY <1>1 DEF IndInv, HandlersOwnOperations
<1>3. /\ handler'[h].request = r /\ handler'[h].kind = k
      /\ handler'[h].failed = handler[h].failed
      /\ handler'[h].todo = handler[h].todo \ {c}
      /\ handler'[h].waiting = handler[h].waiting \cup {c}
      /\ \A f \in Handlers \ {h} : handler'[f] = handler[f]
      /\ handler'[h] # NoJob
  <2>1. handler'[h] \in Job
    BY <1>1 DEF Send, IndInv, TypeOK, Job
  <2>2. handler'[h] # NoJob
    BY <2>1, NullsAreDistinct
  <2> QED
    BY <1>1, <2>2 DEF Send, IndInv, TypeOK, Job
<1>4. UNCHANGED <<row, op, delivered>> /\ wire' = wire \cup {<<r, c>>}
  BY DEF Send, table
<1>5. \A q, d : Reached(q, d)' <=> (Reached(q, d) \/ (q = r /\ d = c))
  BY <1>4 DEF Reached
<1>6. CASE g = h
  <2>1. \A d \in handler'[h].todo : ~Reached(r, d)'
    BY <1>2, <1>3, <1>5 DEF Owns
  <2>2. handler'[h].todo \cup handler'[h].waiting = handler[h].todo \cup handler[h].waiting
    BY <1>1, <1>3
  <2>3. CallsOf(r, k)' = CallsOf(r, k)
    BY <1>3, <1>4 DEF CallsOf
  <2> QED
    BY <1>2, <1>3, <1>4, <1>6, <2>1, <2>2, <2>3 DEF Owns
<1>7. CASE g # h
  <2>1. handler'[g] = handler[g] /\ handler[g] # NoJob /\ Owns(g)
    BY <1>3, <1>7 DEF IndInv, HandlersOwnOperations
  <2>2. handler[g].request \in Requests /\ handler[g].kind \in Kinds
    BY <2>1, HandlerJob
  <2>3. handler[g].request = r => c \notin handler[g].todo
    <3>1. SUFFICES ASSUME handler[g].request = r, c \in handler[g].todo PROVE FALSE
      OBVIOUS
    <3>2. c \in CallsOf(r, k) /\ c \in CallsOf(r, handler[g].kind)
      BY <1>1, <1>2, <2>1, <3>1 DEF Owns
    <3>3. handler[g].kind # k
      BY <1>2, <1>7, <2>1, <3>1 DEF Owns
    <3> QED
      BY <1>1, <2>2, <3>2, <3>3, CallsOfKinds
  <2>4. \A d \in handler[g].todo : ~Reached(handler[g].request, d)'
    BY <1>5, <2>1, <2>3 DEF Owns
  <2>5. CallsOf(handler[g].request, handler[g].kind)'
          = CallsOf(handler[g].request, handler[g].kind)
    BY <1>4, <2>1 DEF CallsOf
  <2>6. \A f \in Handlers : /\ handler'[f] # NoJob <=> handler[f] # NoJob
                            /\ handler'[f].request = handler[f].request
                            /\ handler'[f].kind = handler[f].kind
    BY <1>1, <1>3
  <2> QED
    BY <1>4, <2>1, <2>4, <2>5, <2>6 DEF Owns
<1> QED
  BY <1>6, <1>7

LEMMA CallSucceedsHandlers ==
  ASSUME IndInv, NEW h \in Handlers, NEW c \in Calls, CallSucceeds(h, c)
  PROVE  HandlersOwnOperations'
<1> SUFFICES ASSUME NEW g \in Handlers, handler'[g] # NoJob
             PROVE  Owns(g)'
  BY DEF HandlersOwnOperations
<1>1. handler[h] # NoJob /\ handler[h] \in Job /\ c \in handler[h].waiting
      /\ delivered[handler[h].request][c] > 0
  BY HandlerJob DEF CallSucceeds
<1>2. /\ handler'[h].request = handler[h].request
      /\ handler'[h].kind = handler[h].kind
      /\ handler'[h].failed = handler[h].failed
      /\ handler'[h].todo = handler[h].todo
      /\ handler'[h].waiting = handler[h].waiting \ {c}
      /\ \A f \in Handlers \ {h} : handler'[f] = handler[f]
  BY <1>1 DEF CallSucceeds, IndInv, TypeOK, Job
<1>3. UNCHANGED <<row, op, wire, delivered>>
  BY DEF CallSucceeds, table
<1>4. handler[g] # NoJob /\ Owns(g)
  BY <1>1, <1>2 DEF IndInv, HandlersOwnOperations
<1>5. \A f \in Handlers : /\ handler'[f] # NoJob => handler[f] # NoJob
                          /\ handler'[f].request = handler[f].request
                          /\ handler'[f].kind = handler[f].kind
                          /\ handler'[f].todo = handler[f].todo
                          /\ handler'[f].failed = handler[f].failed
  BY <1>1, <1>2
<1>6. \A d : d \in handler[g].waiting =>
        d \in handler'[g].waiting \/ delivered[handler[g].request][d] > 0
  BY <1>1, <1>2
<1>7. handler'[g].waiting \subseteq handler[g].waiting
  BY <1>1, <1>2
<1>8. CallsOf(handler[g].request, handler[g].kind)'
        = CallsOf(handler[g].request, handler[g].kind)
  BY <1>3, <1>5 DEF CallsOf
<1> QED
  BY <1>3, <1>4, <1>5, <1>6, <1>7, <1>8 DEF Owns, Reached

LEMMA CallsFailHandlers ==
  ASSUME IndInv, NEW h \in Handlers, NEW C \in SUBSET Calls, CallsFail(h, C)
  PROVE  HandlersOwnOperations'
<1> SUFFICES ASSUME NEW g \in Handlers, handler'[g] # NoJob
             PROVE  Owns(g)'
  BY DEF HandlersOwnOperations
<1>1. handler[h] # NoJob /\ handler[h] \in Job
  BY HandlerJob DEF CallsFail
<1>2. /\ handler'[h].request = handler[h].request
      /\ handler'[h].kind = handler[h].kind
      /\ handler'[h].failed = TRUE
      /\ handler'[h].todo = handler[h].todo \ C
      /\ handler'[h].waiting = handler[h].waiting \ C
      /\ \A f \in Handlers \ {h} : handler'[f] = handler[f]
  BY <1>1 DEF CallsFail, IndInv, TypeOK, Job
<1>3. UNCHANGED <<row, op, wire, delivered>>
  BY DEF CallsFail, table
<1>4. handler[g] # NoJob /\ Owns(g)
  BY <1>1, <1>2 DEF IndInv, HandlersOwnOperations
<1>5. \A f \in Handlers : /\ handler'[f] # NoJob => handler[f] # NoJob
                          /\ handler'[f].request = handler[f].request
                          /\ handler'[f].kind = handler[f].kind
  BY <1>1, <1>2
<1>6. /\ handler'[g].todo \subseteq handler[g].todo
      /\ handler'[g].waiting \subseteq handler[g].waiting
      /\ handler'[g].failed \/ handler'[g] = handler[g]
  BY <1>2
<1>7. CallsOf(handler[g].request, handler[g].kind)'
        = CallsOf(handler[g].request, handler[g].kind)
  BY <1>3, <1>5 DEF CallsOf
<1> QED
  BY <1>3, <1>4, <1>5, <1>6, <1>7 DEF Owns, Reached

LEMMA HandlersNext == IndInv /\ [Next]_vars => HandlersOwnOperations'
<1> SUFFICES ASSUME IndInv, [Next]_vars PROVE HandlersOwnOperations'
  OBVIOUS
<1>1. ASSUME NEW r \in Requests, NEW s \in Approvers,
             NEW v \in {"approved", "rejected"}, Decide(r, s, v)
      PROVE  HandlersOwnOperations'
  BY <1>1, HandlersOnlyEnd DEF Decide, Reached
<1>2. ASSUME NEW r \in Requests, NEW c \in Calls, Deliver(r, c)
      PROVE  HandlersOwnOperations'
  <2>1. \A q \in Requests, d \in Calls :
          delivered'[q][d] = delivered[q][d] + (IF q = r /\ d = c THEN 1 ELSE 0)
    BY <1>2 DEF Deliver, IndInv, TypeOK
  <2>2. \A q \in Requests, d \in Calls : delivered[q][d] \in Nat
    BY DEF IndInv, TypeOK
  <2>3. \A q \in Requests, d \in Calls : Reached(q, d)' => Reached(q, d)
    BY <1>2, <2>1, <2>2 DEF Deliver, Reached
  <2>4. \A q \in Requests, d \in Calls : delivered[q][d] > 0 => delivered'[q][d] > 0
    BY <2>1, <2>2
  <2>5. UNCHANGED <<row, op, handler>>
    BY <1>2 DEF Deliver, table
  <2> QED
    BY <2>3, <2>4, <2>5, HandlersOnlyEnd
<1>3. ASSUME NEW r \in Requests, NEW c \in Calls, Lose(r, c)
      PROVE  HandlersOwnOperations'
  BY <1>3, HandlersOnlyEnd DEF Lose, Reached, table
<1>4. ASSUME NEW h \in Handlers, RecordResult(h)
      PROVE  HandlersOwnOperations'
  <2>1. handler[h].request \in Requests /\ handler[h].kind \in Kinds
    BY <1>4, HandlerJob DEF RecordResult, CallsReturned
  <2>2. \A q \in Requests, j \in Kinds : op[q][j] # "none" => op'[q][j] # "none"
    BY <1>4, <2>1 DEF RecordResult, IndInv, TypeOK
  <2>3. \A g \in Handlers : handler'[g] \in {handler[g], NoJob}
    BY <1>4 DEF RecordResult, IndInv, TypeOK
  <2>4. UNCHANGED <<row, wire, delivered>>
    BY <1>4 DEF RecordResult
  <2> QED
    BY <2>2, <2>3, <2>4, HandlersOnlyEnd DEF Reached
<1>5. ASSUME NEW h \in Handlers, RecordFails(h)
      PROVE  HandlersOwnOperations'
  BY <1>5, HandlersOnlyEnd DEF RecordFails, table, Reached, IndInv, TypeOK
<1>6. ASSUME NEW r \in Requests, NEW k \in Kinds, LeaseRunsOut(r, k)
      PROVE  HandlersOwnOperations'
  BY <1>6, HandlersOnlyEnd DEF LeaseRunsOut, Reached
<1>7. ASSUME NEW S \in SUBSET overdue, Reap(S)
      PROVE  HandlersOwnOperations'
  <2>1. \A q \in Requests, j \in Kinds : op[q][j] # "none" => op'[q][j] # "none"
    BY <1>7 DEF Reap
  <2>2. UNCHANGED <<row, handler, wire, delivered>>
    BY <1>7 DEF Reap
  <2> QED
    BY <2>1, <2>2, HandlersOnlyEnd DEF Reached
<1>8. CASE Crash
  BY <1>8, HandlersOnlyEnd DEF Crash, table, Reached
<1>9. CASE UNCHANGED vars
  BY <1>9, HandlersOnlyEnd DEF vars, Reached
<1>10. SubmitAny \/ ClaimAny => HandlersOwnOperations'
  BY SubmitHandlers, ClaimHandlers DEF SubmitAny, ClaimAny
<1>11. ASSUME NEW h \in Handlers, Work(h)
       PROVE  HandlersOwnOperations'
  BY <1>4, <1>5, <1>11, SendHandlers, CallSucceedsHandlers, CallsFailHandlers DEF Work
<1> QED
  BY <1>1, <1>2, <1>3, <1>6, <1>7, <1>8, <1>9, <1>10, <1>11
  DEF Next, DecideAny, Network, Expiry, ReapAny

-------------------------------------------------------------------------------
(* Bookkeeping is preserved. *)

LEMMA ColumnEmpty ==
  ASSUME NEW d \in Seq(Decision), Column(d) = <<>>
  PROVE  d = <<>>
<1>1. DOMAIN Column(d) = DOMAIN d
  BY DEF Column
<1>2. Len(d) = 0
  BY <1>1
<1> QED
  BY <1>2

LEMMA AppendFirst ==
  ASSUME NEW d \in Seq(Decision), NEW e \in Decision
  PROVE  Append(d, e) # <<>> /\ Append(d, e)[1] = IF d = <<>> THEN e ELSE d[1]
<1>1. CASE d = <<>>
  BY <1>1
<1>2. CASE d # <<>>
  BY <1>2
<1> QED
  BY <1>1, <1>2

LEMMA UndecidedIsEmpty ==
  ASSUME IndInv, NEW r \in Requests, status[r] \in {"none", "submitted"}
  PROVE  decisions[r] = <<>>
  BY HistorySteps, ColumnEmpty DEF IndInv, TypeOK, TablesAgree

(* Once claimed, a request has evidence of its approval. *)
LEMMA ClaimedIsDecided ==
  ASSUME IndInv, NEW r \in Requests, NEW k \in Kinds, op[r][k] # "none"
  PROVE  /\ Len(decisions[r]) >= 1
         /\ decisions[r][1].decision = "approved"
         /\ k = "activate" => /\ Len(decisions[r]) >= 2
                              /\ decisions[r][2].decision = "invited"
<1>1. op[r] = OperationsOf(status[r]) /\ Column(decisions[r]) = History(status[r])
  BY DEF IndInv, TablesAgree
<1>2. status[r] \in Statuses \cup {"none"} /\ decisions[r] \in Seq(Decision)
  BY DEF IndInv, TypeOK
<1>3. status[r] \in {"provisioning", "provisioning_ambiguous", "invited",
                     "activating", "active", "activation_ambiguous"}
  BY <1>1, <1>2 DEF OperationsOf, Kinds, Expected, Achieved, Ambiguous
<1>4. k = "activate" => status[r] \in {"activating", "active", "activation_ambiguous"}
  BY <1>1, <1>2 DEF OperationsOf, Kinds, Expected, Achieved, Ambiguous
<1> DEFINE c == History(status[r])
<1>5. DOMAIN c = 1..Len(c) /\ Len(c) >= 1 /\ c[1] = "approved"
  <2>1. \/ c = <<"approved">>
        \/ c = <<"approved", "invited">>
        \/ c = <<"approved", "provisioning_ambiguous">>
        \/ c = <<"approved", "invited", "active">>
        \/ c = <<"approved", "invited", "activation_ambiguous">>
    BY <1>3 DEF History
  <2> HIDE DEF c
  <2> QED
    BY <2>1
<1>6. k = "activate" => Len(c) >= 2 /\ c[2] = "invited"
  BY <1>4 DEF History
<1>7. DOMAIN c = DOMAIN decisions[r] /\ \A i \in DOMAIN c : c[i] = decisions[r][i].decision
  BY <1>1 DEF Column
<1>8. Len(decisions[r]) \in Nat /\ DOMAIN decisions[r] = 1..Len(decisions[r])
  BY <1>2
<1>9. Len(c) \in Nat
  BY <1>3 DEF History
<1>10. Len(c) = Len(decisions[r])
  BY <1>5, <1>7, <1>8, <1>9
<1> HIDE DEF c
<1>11. 1 \in DOMAIN c /\ (k = "activate" => 2 \in DOMAIN c)
  BY <1>5, <1>6, <1>9
<1>12. decisions[r][1].decision = "approved"
  BY <1>5, <1>7, <1>11
<1>13. k = "activate" => decisions[r][2].decision = "invited"
  BY <1>6, <1>7, <1>11
<1> QED
  BY <1>5, <1>6, <1>10, <1>12, <1>13

(* A step that leaves rows, statuses and evidence alone, settles nothing and   *)
(* puts no new call in Keycloak's hands.                                       *)
LEMMA QuietBookkeeping ==
  ASSUME IndInv, UNCHANGED <<row, status, op, decisions>>,
         \A r \in Requests, k \in Kinds : <<r, k>> \in overdue' => op[r][k] = "running",
         \A r \in Requests, c \in Calls : Reached(r, c)' => Reached(r, c)
  PROVE  Bookkeeping'
<1>1. Bookkeeping
  BY DEF IndInv
<1>2. \A r \in Requests, k \in Kinds : CallsOf(r, k)' = CallsOf(r, k)
  BY DEF CallsOf
<1> QED
  BY <1>1, <1>2 DEF Bookkeeping

LEMMA SubmitBookkeeping ==
  ASSUME IndInv, NEW r \in Requests, NEW s \in Subjects, NEW e \in Emails,
         NEW R \in SUBSET Roles, Submit(r, s, e, R)
  PROVE  Bookkeeping'
<1> DEFINE new == [email |-> e, requester |-> s, roles |-> R]
<1>1. Bookkeeping /\ row[r] = NoRow /\ status[r] = "none" /\ decisions[r] = <<>>
  BY UndecidedIsEmpty DEF IndInv, Submit, Bookkeeping
<1>2. new \in Row
  BY DEF Submit, Row
<1>3. row' = [row EXCEPT ![r] = new] /\ status' = [status EXCEPT ![r] = "submitted"]
      /\ UNCHANGED <<op, overdue, decisions, wire, delivered>>
  BY DEF Submit
<1> HIDE DEF new
<1>4. row'[r] # NoRow /\ status'[r] = "submitted"
      /\ \A q \in Requests \ {r} : row'[q] = row[q] /\ status'[q] = status[q]
  BY <1>2, <1>3, NullsAreDistinct DEF IndInv, TypeOK
<1>5. \A q \in Requests : row'[q] = NoRow <=> status'[q] = "none"
  BY <1>1, <1>4 DEF Bookkeeping
<1>6. \A q \in Requests : decisions'[q] # <<>> =>
        decisions'[q][1].actor \in Approvers \ {row'[q].requester}
  BY <1>1, <1>3, <1>4 DEF Bookkeeping
<1>7. ASSUME NEW q \in Requests, NEW c \in Calls, Reached(q, c)'
      PROVE  \E k \in Kinds : c \in CallsOf(q, k)' /\ op'[q][k] # "none"
  <2>1. PICK k \in Kinds : c \in CallsOf(q, k) /\ op[q][k] # "none"
    BY <1>1, <1>3, <1>7 DEF Reached, Bookkeeping
  <2>2. q # r
    BY <1>1, <2>1, OperationHasRow
  <2> QED
    BY <1>3, <1>4, <2>1, <2>2 DEF CallsOf
<1> QED
  BY <1>1, <1>3, <1>5, <1>6, <1>7 DEF Bookkeeping

LEMMA DecideBookkeeping ==
  ASSUME IndInv, NEW r \in Requests, NEW s \in Approvers,
         NEW v \in {"approved", "rejected"}, Decide(r, s, v)
  PROVE  Bookkeeping'
<1>1. Bookkeeping /\ status[r] = "submitted" /\ row[r].requester # s
      /\ UNCHANGED <<row, op, overdue, wire, delivered>>
  BY DEF IndInv, Decide
<1>2. decisions[r] = <<>>
  BY <1>1, UndecidedIsEmpty
<1>3. Evidence(v, s) \in Decision /\ Evidence(v, s).actor = s
  BY ApproversAreSubjects DEF Evidence, Decision, Statuses, Actors
<1>4. decisions'[r] = Append(decisions[r], Evidence(v, s))
      /\ \A q \in Requests \ {r} : decisions'[q] = decisions[q]
  BY DEF Decide, IndInv, TypeOK
<1>5. decisions'[r][1] = Evidence(v, s)
  BY <1>2, <1>3, <1>4, AppendFirst DEF IndInv, TypeOK
<1>6. \A q \in Requests : decisions'[q] # <<>> =>
        decisions'[q][1].actor \in Approvers \ {row'[q].requester}
  BY <1>1, <1>3, <1>4, <1>5 DEF Bookkeeping
<1>7. \A q \in Requests : row'[q] = NoRow <=> status'[q] = "none"
  BY <1>1 DEF Decide, Bookkeeping, IndInv, TypeOK
<1>8. \A q \in Requests, c \in Calls : Reached(q, c)' =>
        \E k \in Kinds : c \in CallsOf(q, k)' /\ op'[q][k] # "none"
  BY <1>1 DEF Bookkeeping, Reached, CallsOf
<1> QED
  BY <1>1, <1>6, <1>7, <1>8 DEF Bookkeeping

LEMMA ClaimBookkeeping ==
  ASSUME IndInv, NEW h \in Handlers, NEW r \in Requests, NEW s \in Approvers,
         NEW k \in Kinds, NEW a \in BOOLEAN, Claim(h, r, s, k, a)
  PROVE  Bookkeeping'
<1>1. Bookkeeping /\ UNCHANGED <<row, overdue, decisions, wire, delivered>>
      /\ status[r] # "none"
  BY DEF IndInv, Claim, Claimable
<1>2. \A q \in Requests, j \in Kinds :
        op'[q][j] = IF q = r /\ j = k THEN "running" ELSE op[q][j]
  BY DEF Claim, IndInv, TypeOK
<1>3. \A q \in Requests : status'[q] = IF q = r THEN Expected(k) ELSE status[q]
  BY DEF Claim, IndInv, TypeOK
<1>4. \A q \in Requests : row'[q] = NoRow <=> status'[q] = "none"
  BY <1>1, <1>3 DEF Bookkeeping, Expected
<1>5. \A q \in Requests, c \in Calls : Reached(q, c)' =>
        \E j \in Kinds : c \in CallsOf(q, j)' /\ op'[q][j] # "none"
  BY <1>1, <1>2 DEF Bookkeeping, Reached, CallsOf
<1>6. \A q \in Requests, j \in Kinds : <<q, j>> \in overdue' => op'[q][j] = "running"
  BY <1>1, <1>2 DEF Bookkeeping
<1> QED
  BY <1>1, <1>4, <1>5, <1>6 DEF Bookkeeping

LEMMA SendBookkeeping ==
  ASSUME IndInv, NEW h \in Handlers, NEW c \in Calls, Send(h, c)
  PROVE  Bookkeeping'
<1> DEFINE r == handler[h].request
           k == handler[h].kind
<1>1. Bookkeeping /\ UNCHANGED <<row, status, op, overdue, decisions, delivered>>
      /\ wire' = wire \cup {<<r, c>>}
  BY DEF IndInv, Send, table
<1>2. handler[h] # NoJob /\ c \in handler[h].todo /\ k \in Kinds
  BY HandlerJob DEF Send
<1>3. c \in CallsOf(r, k) /\ op[r][k] # "none"
  BY <1>2 DEF IndInv, HandlersOwnOperations, Owns
<1> HIDE DEF r, k
<1>4. \A q \in Requests, d \in Calls : Reached(q, d)' =>
        \E j \in Kinds : d \in CallsOf(q, j) /\ op[q][j] # "none"
  BY <1>1, <1>2, <1>3 DEF Reached, Bookkeeping
<1>5. \A q \in Requests, j \in Kinds : CallsOf(q, j)' = CallsOf(q, j)
  BY <1>1 DEF CallsOf
<1> QED
  BY <1>1, <1>4, <1>5 DEF Bookkeeping

LEMMA RecordBookkeeping ==
  ASSUME IndInv, NEW h \in Handlers, RecordResult(h)
  PROVE  Bookkeeping'
<1> DEFINE r == handler[h].request
           k == handler[h].kind
           text == IF handler[h].failed THEN Ambiguous(k) ELSE Achieved(k)
           outcome == IF handler[h].failed THEN "ambiguous" ELSE "succeeded"
           new == Evidence(text, handler[h].operator)
<1>1. r \in Requests /\ k \in Kinds /\ handler[h] \in Job
  BY HandlerJob DEF RecordResult, CallsReturned
<1>2. /\ Bookkeeping
      /\ op' = [op EXCEPT ![r][k] = outcome]
      /\ status' = [status EXCEPT ![r] = text]
      /\ decisions' = [decisions EXCEPT ![r] = Append(@, new)]
      /\ overdue' = overdue \ {<<r, k>>}
      /\ UNCHANGED <<row, wire, delivered>>
      /\ status[r] = Expected(k)
  BY DEF RecordResult, IndInv
<1>3. text \in Statuses /\ text # "none" /\ outcome # "none"
  BY DEF Ambiguous, Achieved, Statuses
<1>4. new \in Decision
  BY <1>1, <1>3, ApproversAreSubjects DEF Evidence, Decision, Actors, Job
<1>5. decisions[r] # <<>>
  <2>1. op[r][k] # "none"
    BY HandlerJob DEF RecordResult, CallsReturned
  <2>2. Len(decisions[r]) >= 1
    BY <1>1, <2>1, ClaimedIsDecided
  <2> QED
    BY <2>2
<1> HIDE DEF r, k, text, outcome, new
<1>6. \A q \in Requests : row'[q] = NoRow <=> status'[q] = "none"
  <2>1. status[r] # "none"
    BY <1>2 DEF Expected
  <2> QED
    BY <1>1, <1>2, <1>3, <2>1 DEF Bookkeeping, IndInv, TypeOK
<1>7. \A q \in Requests, j \in Kinds :
        op'[q][j] = IF q = r /\ j = k THEN outcome ELSE op[q][j]
  BY <1>1, <1>2 DEF IndInv, TypeOK
<1>8. \A q \in Requests, j \in Kinds : <<q, j>> \in overdue' => op'[q][j] = "running"
  BY <1>2, <1>7 DEF Bookkeeping
<1>9. \A q \in Requests : decisions'[q] # <<>> =>
        decisions'[q][1].actor \in Approvers \ {row'[q].requester}
  <2>1. decisions'[r][1] = decisions[r][1]
    BY <1>1, <1>2, <1>4, <1>5, AppendFirst DEF IndInv, TypeOK
  <2>2. \A q \in Requests \ {r} : decisions'[q] = decisions[q]
    BY <1>2 DEF IndInv, TypeOK
  <2> QED
    BY <1>1, <1>2, <1>5, <2>1, <2>2 DEF Bookkeeping
<1>10. \A q \in Requests, c \in Calls : Reached(q, c)' =>
         \E j \in Kinds : c \in CallsOf(q, j)' /\ op'[q][j] # "none"
  BY <1>2, <1>3, <1>7 DEF Bookkeeping, Reached, CallsOf
<1> QED
  BY <1>6, <1>8, <1>9, <1>10 DEF Bookkeeping

LEMMA ReapBookkeeping ==
  ASSUME IndInv, NEW S \in SUBSET overdue, Reap(S)
  PROVE  Bookkeeping'
<1>1. Bookkeeping /\ UNCHANGED <<row, wire, delivered>> /\ overdue' = overdue \ S
  BY DEF IndInv, Reap
<1>2. \A q \in Requests : row'[q] = NoRow <=> status'[q] = "none"
  <2>1. \A q : Verdict(S, q) # "none"
    BY DEF Verdict, Ambiguous
  <2> QED
    BY <1>1, <2>1 DEF Reap, Bookkeeping
<1>3. \A q \in Requests, j \in Kinds :
        op'[q][j] = IF <<q, j>> \in S THEN "ambiguous" ELSE op[q][j]
  BY DEF Reap
<1>4. \A q \in Requests, j \in Kinds : <<q, j>> \in overdue' => op'[q][j] = "running"
  BY <1>1, <1>3 DEF Bookkeeping
<1>5. ASSUME NEW q \in Requests, decisions'[q] # <<>>
      PROVE  decisions'[q][1].actor \in Approvers \ {row'[q].requester}
  <2>1. CASE q \in Batched(S)
    <3>1. PICK k \in Kinds : <<q, k>> \in S
      BY <2>1 DEF Batched
    <3>2. op[q][k] # "none"
      BY <1>1, <3>1 DEF Bookkeeping
    <3>3. Len(decisions[q]) >= 1 /\ decisions[q] \in Seq(Decision)
      BY <3>2, ClaimedIsDecided DEF IndInv, TypeOK
    <3>4. Evidence(Verdict(S, q), ServiceActor) \in Decision
      BY DEF Evidence, Verdict, Ambiguous, Decision, Statuses, Actors
    <3>5. decisions'[q] = Append(decisions[q], Evidence(Verdict(S, q), ServiceActor))
      BY <2>1 DEF Reap
    <3>6. decisions[q] # <<>>
      BY <3>3
    <3>7. decisions'[q][1] = decisions[q][1]
      BY <3>3, <3>4, <3>5, <3>6, AppendFirst
    <3> QED
      BY <1>1, <3>6, <3>7 DEF Bookkeeping
  <2>2. CASE q \notin Batched(S)
    BY <1>1, <1>5, <2>2 DEF Reap, Bookkeeping
  <2> QED
    BY <2>1, <2>2
<1>6. \A q \in Requests, c \in Calls : Reached(q, c)' =>
        \E j \in Kinds : c \in CallsOf(q, j)' /\ op'[q][j] # "none"
  <2>1. \A q \in Requests, j \in Kinds : op[q][j] # "none" => op'[q][j] # "none"
    BY <1>3
  <2>2. \A q, c : Reached(q, c)' => Reached(q, c)
    BY <1>1 DEF Reached
  <2>3. \A q, j : CallsOf(q, j)' = CallsOf(q, j)
    BY <1>1 DEF CallsOf
  <2> QED
    BY <1>1, <2>1, <2>2, <2>3 DEF Bookkeeping
<1>7. \A q \in Requests : decisions'[q] # <<>> =>
        decisions'[q][1].actor \in Approvers \ {row'[q].requester}
  BY <1>5
<1> QED
  BY <1>2, <1>4, <1>6, <1>7 DEF Bookkeeping

LEMMA BookkeepingNext == IndInv /\ [Next]_vars => Bookkeeping'
<1> SUFFICES ASSUME IndInv, [Next]_vars PROVE Bookkeeping'
  OBVIOUS
<1>1. \A r \in Requests, k \in Kinds : <<r, k>> \in overdue => op[r][k] = "running"
  BY DEF IndInv, Bookkeeping
<1>2. ASSUME NEW r \in Requests, NEW c \in Calls, Deliver(r, c)
      PROVE  Bookkeeping'
  <2>1. \A q \in Requests, d \in Calls :
          delivered'[q][d] = delivered[q][d] + (IF q = r /\ d = c THEN 1 ELSE 0)
    BY <1>2 DEF Deliver, IndInv, TypeOK
  <2>2. \A q \in Requests, d \in Calls : delivered[q][d] \in Nat
    BY DEF IndInv, TypeOK
  <2>3. \A q \in Requests, d \in Calls : Reached(q, d)' => Reached(q, d)
    BY <1>2, <2>1, <2>2 DEF Deliver, Reached
  <2>4. UNCHANGED <<row, status, op, overdue, decisions>>
    BY <1>2 DEF Deliver, table
  <2> QED
    BY <1>1, <2>3, <2>4, QuietBookkeeping
<1>3. ASSUME NEW r \in Requests, NEW c \in Calls, Lose(r, c)
      PROVE  Bookkeeping'
  BY <1>1, <1>3, QuietBookkeeping DEF Lose, Reached, table
<1>4. ASSUME NEW r \in Requests, NEW k \in Kinds, LeaseRunsOut(r, k)
      PROVE  Bookkeeping'
  BY <1>1, <1>4, QuietBookkeeping DEF LeaseRunsOut, Reached
<1>5. ASSUME NEW h \in Handlers, Work(h), ~RecordResult(h), ~\E c \in Calls : Send(h, c)
      PROVE  Bookkeeping'
  <2>1. UNCHANGED <<row, status, op, overdue, decisions, wire, delivered>>
    BY <1>5 DEF Work, CallSucceeds, CallsFail, RecordFails, table
  <2> QED
    BY <1>1, <2>1, QuietBookkeeping DEF Reached
<1>6. Crash \/ UNCHANGED vars => Bookkeeping'
  BY <1>1, QuietBookkeeping DEF Crash, vars, table, Reached
<1>7. SubmitAny \/ DecideAny \/ ClaimAny \/ ReapAny => Bookkeeping'
  BY SubmitBookkeeping, DecideBookkeeping, ClaimBookkeeping, ReapBookkeeping
  DEF SubmitAny, DecideAny, ClaimAny, ReapAny
<1> QED
  BY <1>2, <1>3, <1>4, <1>5, <1>6, <1>7, SendBookkeeping, RecordBookkeeping
  DEF Next, Network, Expiry

-------------------------------------------------------------------------------
(* Each call is processed at most once, and recorded success is real. *)

LEMMA AtMostOnceNext == IndInv /\ [Next]_vars => CallsReachKeycloakAtMostOnce'
<1> SUFFICES ASSUME IndInv, [Next]_vars PROVE CallsReachKeycloakAtMostOnce'
  OBVIOUS
<1>1. /\ CallsReachKeycloakAtMostOnce
      /\ \A r \in Requests, c \in Calls : delivered[r][c] \in Nat
  BY DEF IndInv, TypeOK
<1>2. CASE UNCHANGED <<wire, delivered>>
  BY <1>1, <1>2 DEF CallsReachKeycloakAtMostOnce
<1>3. ASSUME NEW h \in Handlers, NEW c \in Calls, Send(h, c)
      PROVE  CallsReachKeycloakAtMostOnce'
  <2> DEFINE r == handler[h].request
  <2>1. handler[h] # NoJob /\ c \in handler[h].todo /\ r \in Requests
    BY <1>3, HandlerJob DEF Send
  <2>2. ~Reached(r, c)
    BY <2>1 DEF IndInv, HandlersOwnOperations, Owns
  <2>3. delivered[r][c] = 0
    BY <1>1, <2>1, <2>2 DEF Reached
  <2>4. wire' = wire \cup {<<r, c>>} /\ delivered' = delivered
    BY <1>3 DEF Send
  <2> HIDE DEF r
  <2> SUFFICES ASSUME NEW q \in Requests, NEW d \in Calls
               PROVE  delivered'[q][d] + (IF <<q, d>> \in wire' THEN 1 ELSE 0) <= 1
    BY DEF CallsReachKeycloakAtMostOnce
  <2>5. delivered[q][d] + (IF <<q, d>> \in wire THEN 1 ELSE 0) <= 1
        /\ delivered[q][d] \in Nat
    BY <1>1 DEF CallsReachKeycloakAtMostOnce
  <2>6. CASE q = r /\ d = c
    BY <2>3, <2>4, <2>6
  <2>7. CASE ~(q = r /\ d = c)
    <3>1. <<q, d>> \in wire' <=> <<q, d>> \in wire
      BY <2>4, <2>7
    <3> QED
      BY <2>4, <2>5, <3>1
  <2> QED
    BY <2>6, <2>7
<1>4. ASSUME NEW r \in Requests, NEW c \in Calls, Deliver(r, c)
      PROVE  CallsReachKeycloakAtMostOnce'
  <2>1. \A q \in Requests, d \in Calls :
          delivered'[q][d] = delivered[q][d] + (IF q = r /\ d = c THEN 1 ELSE 0)
    BY <1>4 DEF Deliver, IndInv, TypeOK
  <2>2. <<r, c>> \in wire /\ wire' = wire \ {<<r, c>>}
    BY <1>4 DEF Deliver
  <2> SUFFICES ASSUME NEW q \in Requests, NEW d \in Calls
               PROVE  delivered'[q][d] + (IF <<q, d>> \in wire' THEN 1 ELSE 0) <= 1
    BY DEF CallsReachKeycloakAtMostOnce
  <2>3. delivered[q][d] + (IF <<q, d>> \in wire THEN 1 ELSE 0) <= 1
        /\ delivered[q][d] \in Nat
    BY <1>1 DEF CallsReachKeycloakAtMostOnce
  <2>4. CASE q = r /\ d = c
    BY <2>1, <2>2, <2>3, <2>4
  <2>5. CASE ~(q = r /\ d = c)
    <3>1. <<q, d>> \in wire' <=> <<q, d>> \in wire
      BY <2>2, <2>5
    <3>2. delivered'[q][d] = delivered[q][d]
      BY <2>1, <2>3, <2>5
    <3> QED
      BY <2>3, <3>1, <3>2
  <2> QED
    BY <2>4, <2>5
<1>5. ASSUME NEW r \in Requests, NEW c \in Calls, Lose(r, c)
      PROVE  CallsReachKeycloakAtMostOnce'
  <2>1. wire' \subseteq wire /\ delivered' = delivered
    BY <1>5 DEF Lose
  <2> SUFFICES ASSUME NEW q \in Requests, NEW d \in Calls
               PROVE  delivered'[q][d] + (IF <<q, d>> \in wire' THEN 1 ELSE 0) <= 1
    BY DEF CallsReachKeycloakAtMostOnce
  <2>2. delivered[q][d] + (IF <<q, d>> \in wire THEN 1 ELSE 0) <= 1
        /\ delivered[q][d] \in Nat
    BY <1>1 DEF CallsReachKeycloakAtMostOnce
  <2>3. <<q, d>> \in wire' => <<q, d>> \in wire
    BY <2>1
  <2> QED
    BY <2>1, <2>2, <2>3
<1>6. ASSUME NEW h \in Handlers, Work(h), ~\E c \in Calls : Send(h, c)
      PROVE  UNCHANGED <<wire, delivered>>
  BY <1>6 DEF Work, CallSucceeds, CallsFail, RecordResult, RecordFails
<1>7. SubmitAny \/ DecideAny \/ ClaimAny \/ Expiry \/ ReapAny \/ Crash \/ UNCHANGED vars
        => UNCHANGED <<wire, delivered>>
  BY DEF SubmitAny, Submit, DecideAny, Decide, ClaimAny, Claim, Expiry, LeaseRunsOut,
         ReapAny, Reap, Crash, vars
<1> QED
  BY <1>2, <1>3, <1>4, <1>5, <1>6, <1>7 DEF Next, Network

(* What has been processed stays processed. *)
LEMMA DeliveredGrows ==
  ASSUME IndInv, [Next]_vars, NEW r \in Requests, NEW c \in Calls, delivered[r][c] > 0
  PROVE  delivered'[r][c] > 0
<1>1. delivered[r][c] \in Nat
  BY DEF IndInv, TypeOK
<1>2. ASSUME NEW q \in Requests, NEW d \in Calls, Deliver(q, d)
      PROVE  delivered'[r][c] > 0
  <2>1. delivered'[r][c] = delivered[r][c] + (IF r = q /\ c = d THEN 1 ELSE 0)
    BY <1>2 DEF Deliver, IndInv, TypeOK
  <2> QED
    BY <1>1, <2>1
<1>3. (\E q \in Requests, d \in Calls : Lose(q, d)) => delivered' = delivered
  BY DEF Lose
<1>4. (\E h \in Handlers : Work(h)) => delivered' = delivered
  BY DEF Work, Send, CallSucceeds, CallsFail, RecordResult, RecordFails
<1>5. SubmitAny \/ DecideAny \/ ClaimAny \/ Expiry \/ ReapAny \/ Crash \/ UNCHANGED vars
        => delivered' = delivered
  BY DEF SubmitAny, Submit, DecideAny, Decide, ClaimAny, Claim, Expiry, LeaseRunsOut,
         ReapAny, Reap, Crash, vars
<1> QED
  BY <1>2, <1>3, <1>4, <1>5 DEF Next, Network

(* How the status of a request can move. *)
LEMMA StatusSteps ==
  ASSUME IndInv, [Next]_vars, NEW r \in Requests
  PROVE  \/ status'[r] = status[r] /\ row'[r] = row[r]
         \/ status'[r] \in {"submitted", "approved", "rejected"}
         \/ \E k \in Kinds : /\ status[r] = Claimable(k) /\ status'[r] = Expected(k)
                             /\ row'[r] = row[r]
         \/ \E k \in Kinds : /\ status[r] = Expected(k) /\ status'[r] = Ambiguous(k)
                             /\ row'[r] = row[r]
         \/ \E k \in Kinds : /\ status[r] = Expected(k) /\ status'[r] = Achieved(k)
                             /\ row'[r] = row[r]
                             /\ \A c \in CallsOf(r, k) : delivered[r][c] > 0
<1>1. CASE SubmitAny
  BY <1>1 DEF SubmitAny, Submit, IndInv, TypeOK
<1>2. CASE DecideAny
  BY <1>2 DEF DecideAny, Decide, IndInv, TypeOK
<1>3. CASE ClaimAny
  BY <1>3 DEF ClaimAny, Claim, IndInv, TypeOK
<1>4. ASSUME NEW h \in Handlers, RecordResult(h)
      PROVE  \/ status'[r] = status[r] /\ row'[r] = row[r]
             \/ \E k \in Kinds : /\ status[r] = Expected(k) /\ status'[r] = Ambiguous(k)
                                 /\ row'[r] = row[r]
             \/ \E k \in Kinds : /\ status[r] = Expected(k) /\ status'[r] = Achieved(k)
                                 /\ row'[r] = row[r]
                                 /\ \A c \in CallsOf(r, k) : delivered[r][c] > 0
  <2> DEFINE q == handler[h].request
             k == handler[h].kind
             text == IF handler[h].failed THEN Ambiguous(k) ELSE Achieved(k)
  <2>1. handler[h] # NoJob /\ k \in Kinds /\ q \in Requests
        /\ handler[h].todo = {} /\ handler[h].waiting = {}
    BY <1>4, HandlerJob DEF RecordResult, CallsReturned
  <2>2. status[q] = Expected(k) /\ status' = [status EXCEPT ![q] = text] /\ row' = row
    BY <1>4 DEF RecordResult
  <2>3. handler[h].failed \/ \A c \in CallsOf(q, k) : delivered[q][c] > 0
    BY <2>1 DEF IndInv, HandlersOwnOperations, Owns
  <2>4. CASE r = q
    BY <2>1, <2>2, <2>3, <2>4 DEF IndInv, TypeOK
  <2>5. CASE r # q
    BY <2>2, <2>5 DEF IndInv, TypeOK
  <2> QED
    BY <2>4, <2>5
<1>5. ASSUME NEW S \in SUBSET overdue, Reap(S)
      PROVE  \/ status'[r] = status[r] /\ row'[r] = row[r]
             \/ \E k \in Kinds : /\ status[r] = Expected(k) /\ status'[r] = Ambiguous(k)
                                 /\ row'[r] = row[r]
  <2>1. CASE r \in Batched(S)
    BY <1>5, <2>1, BatchIsRunning DEF Reap, Expected
  <2>2. CASE r \notin Batched(S)
    BY <1>5, <2>2 DEF Reap
  <2> QED
    BY <2>1, <2>2
<1>6. ASSUME NEW h \in Handlers, Work(h), ~RecordResult(h)
      PROVE  UNCHANGED <<status, row>>
  BY <1>6 DEF Work, Send, CallSucceeds, CallsFail, RecordFails, table
<1>7. Network \/ Expiry \/ Crash \/ UNCHANGED vars => UNCHANGED <<status, row>>
  BY DEF Network, Deliver, Lose, Expiry, LeaseRunsOut, Crash, table, vars
<1> QED
  BY <1>1, <1>2, <1>3, <1>4, <1>5, <1>6, <1>7 DEF Next, ReapAny

LEMMA SuccessNext == IndInv /\ [Next]_vars => RecordedSuccessIsReal'
<1> SUFFICES ASSUME IndInv, [Next]_vars, NEW r \in Requests
             PROVE  /\ status'[r] \in {"invited", "activating", "active", "activation_ambiguous"}
                         => delivered'[r][Invite] > 0
                    /\ status'[r] = "active"
                         => \A c \in row'[r].roles : delivered'[r][c] > 0
  BY DEF RecordedSuccessIsReal
<1>1. /\ status[r] \in {"invited", "activating", "active", "activation_ambiguous"}
           => delivered[r][Invite] > 0
      /\ status[r] = "active" => \A c \in row[r].roles : delivered[r][c] > 0
  BY DEF IndInv, RecordedSuccessIsReal
<1>2. Invite \in Calls
  BY DEF Calls
<1>3. status[r] # "none" => row[r].roles \subseteq Calls
  BY DEF IndInv, Bookkeeping, TypeOK, Row, Calls
<1>4. status'[r] \in {"invited", "activating", "active", "activation_ambiguous"}
        => delivered[r][Invite] > 0
  BY <1>1, StatusSteps DEF Kinds, Claimable, Expected, Ambiguous, Achieved, CallsOf
<1>5. status'[r] = "active" => /\ \A c \in row[r].roles : delivered[r][c] > 0
                               /\ row'[r] = row[r] /\ status[r] # "none"
  BY <1>1, StatusSteps DEF Kinds, Claimable, Expected, Ambiguous, Achieved, CallsOf
<1> QED
  BY <1>2, <1>3, <1>4, <1>5, DeliveredGrows

-------------------------------------------------------------------------------
(* The invariant, and what follows from it. *)

LEMMA IndInvInit == Init => IndInv
<1> SUFFICES ASSUME Init PROVE IndInv
  OBVIOUS
<1>1. TypeOK
  BY TypeInit
<1>2. TablesAgree
  <2>1. Column(<<>>) = <<>>
    BY DEF Column
  <2> QED
    BY <2>1, HistorySteps, OperationsSteps DEF Init, TablesAgree
<1>3. HandlersOwnOperations
  BY DEF Init, HandlersOwnOperations
<1>4. Bookkeeping
  BY DEF Init, Bookkeeping, Reached
<1>5. CallsReachKeycloakAtMostOnce /\ RecordedSuccessIsReal
  BY DEF Init, CallsReachKeycloakAtMostOnce, RecordedSuccessIsReal
<1> QED
  BY <1>1, <1>2, <1>3, <1>4, <1>5 DEF IndInv

LEMMA IndInvNext == IndInv /\ [Next]_vars => IndInv'
<1>1. IndInv => TypeOK /\ Bookkeeping
  BY DEF IndInv
<1> QED
  BY <1>1, TypeNext, TablesNext, HandlersNext, BookkeepingNext, AtMostOnceNext, SuccessNext
  DEF IndInv

(* The inductive invariant of the onboarding workflow holds for any number of  *)
(* requests, roles, principals and handlers, whatever the decision CHECK       *)
(* admits and whichever way the driver behaves.                                *)
THEOREM Invariance == Spec => []IndInv
<1> QED
  BY IndInvInit, IndInvNext, PTL DEF Spec

(* Every variable keeps its type. *)
THEOREM TypeCorrect == Spec => []TypeOK
<1>1. IndInv => TypeOK
  BY DEF IndInv
<1> QED
  BY <1>1, Invariance, PTL

(* The three tables agree after every transaction. *)
THEOREM TablesAlwaysAgree == Spec => []TablesAgree
<1>1. IndInv => TablesAgree
  BY DEF IndInv
<1> QED
  BY <1>1, Invariance, PTL

(* Keycloak receives each call of a request at most once. *)
THEOREM AtMostOnce == Spec => []CallsReachKeycloakAtMostOnce
<1>1. IndInv => CallsReachKeycloakAtMostOnce
  BY DEF IndInv
<1> QED
  BY <1>1, Invariance, PTL

(* A recorded success happened. *)
THEOREM SuccessIsReal == Spec => []RecordedSuccessIsReal
<1>1. IndInv => RecordedSuccessIsReal
  BY DEF IndInv
<1> QED
  BY <1>1, Invariance, PTL

(* Keycloak is only asked for what an independent approver approved. *)
THEOREM MakerChecker == Spec => []EffectsAreApproved
<1>1. IndInv => EffectsAreApproved
  <2> SUFFICES ASSUME IndInv, NEW r \in Requests, NEW c \in Calls, Reached(r, c)
               PROVE  /\ row[r] # NoRow
                      /\ Len(decisions[r]) >= 1
                      /\ decisions[r][1].decision = "approved"
                      /\ decisions[r][1].actor \in Approvers \ {row[r].requester}
                      /\ c # Invite => /\ c \in row[r].roles
                                       /\ Len(decisions[r]) >= 2
                                       /\ decisions[r][2].decision = "invited"
    BY DEF EffectsAreApproved
  <2>1. PICK k \in Kinds : c \in CallsOf(r, k) /\ op[r][k] # "none"
    BY DEF IndInv, Bookkeeping
  <2>2. row[r] # NoRow
    BY <2>1, OperationHasRow
  <2>3. /\ Len(decisions[r]) >= 1
        /\ decisions[r][1].decision = "approved"
        /\ k = "activate" => /\ Len(decisions[r]) >= 2
                             /\ decisions[r][2].decision = "invited"
    BY <2>1, ClaimedIsDecided
  <2>4. decisions[r][1].actor \in Approvers \ {row[r].requester}
    BY <2>3 DEF IndInv, Bookkeeping, TypeOK
  <2>5. c # Invite => k = "activate" /\ c \in row[r].roles
    BY <2>1 DEF CallsOf, Kinds
  <2> QED
    BY <2>2, <2>3, <2>4, <2>5
<1> QED
  BY <1>1, Invariance, PTL

-------------------------------------------------------------------------------
(* What is settled stays settled. *)

LEMMA FinalStays ==
  ASSUME IndInv, [Next]_vars, NEW r \in Requests, status[r] \in Final
  PROVE  status'[r] = status[r] /\ decisions'[r] = decisions[r]
<1>1. CASE SubmitAny
  <2>1. \A q \in Requests : row[q] = NoRow => q # r
    BY DEF IndInv, Bookkeeping, Final
  <2> QED
    BY <1>1, <2>1 DEF SubmitAny, Submit, IndInv, TypeOK
<1>2. CASE DecideAny
  BY <1>2 DEF DecideAny, Decide, IndInv, TypeOK, Final
<1>3. CASE ClaimAny
  BY <1>3 DEF ClaimAny, Claim, Claimable, IndInv, TypeOK, Final
<1>4. ASSUME NEW h \in Handlers, RecordResult(h)
      PROVE  status'[r] = status[r] /\ decisions'[r] = decisions[r]
  <2>1. handler[h].request # r
    BY <1>4 DEF RecordResult, Expected, Final
  <2> QED
    BY <1>4, <2>1 DEF RecordResult, IndInv, TypeOK
<1>5. ASSUME NEW S \in SUBSET overdue, Reap(S)
      PROVE  status'[r] = status[r] /\ decisions'[r] = decisions[r]
  <2>1. r \notin Batched(S)
    BY <1>5, BatchIsRunning DEF Expected, Final
  <2> QED
    BY <1>5, <2>1 DEF Reap
<1>6. ASSUME NEW h \in Handlers, Work(h), ~RecordResult(h)
      PROVE  UNCHANGED <<status, decisions>>
  BY <1>6 DEF Work, Send, CallSucceeds, CallsFail, RecordFails, table
<1>7. Network \/ Expiry \/ Crash \/ UNCHANGED vars => UNCHANGED <<status, decisions>>
  BY DEF Network, Deliver, Lose, Expiry, LeaseRunsOut, Crash, table, vars
<1> QED
  BY <1>1, <1>2, <1>3, <1>4, <1>5, <1>6, <1>7 DEF Next, ReapAny

(* Neither a late handler nor the reconciler overwrites a settled request. *)
THEOREM Settled == Spec => SettledForGood
<1>1. IndInv /\ [Next]_vars =>
        [\A r \in Requests : status[r] \in Final =>
           status'[r] = status[r] /\ decisions'[r] = decisions[r]]_vars
  BY FinalStays
<1> QED
  BY <1>1, Invariance, PTL DEF Spec, SettledForGood

-------------------------------------------------------------------------------
(* What the constraints of the schema refuse. *)

LEMMA UniqueNext == UniqueStatus(status, row) /\ [Next]_vars => UniqueStatus(status', row')
<1> SUFFICES ASSUME UniqueStatus(status, row), [Next]_vars PROVE UniqueStatus(status', row')
  OBVIOUS
<1>1. CASE SubmitAny
  BY <1>1 DEF SubmitAny, Submit
<1>2. CASE DecideAny
  BY <1>2 DEF DecideAny, Decide
<1>3. CASE ClaimAny
  BY <1>3 DEF ClaimAny, Claim
<1>4. ASSUME NEW h \in Handlers, RecordResult(h) PROVE UniqueStatus(status', row')
  BY <1>4 DEF RecordResult
<1>5. ASSUME NEW S \in SUBSET overdue, Reap(S) PROVE UniqueStatus(status', row')
  BY <1>5 DEF Reap
<1>6. ASSUME NEW h \in Handlers, Work(h), ~RecordResult(h) PROVE UNCHANGED <<status, row>>
  BY <1>6 DEF Work, Send, CallSucceeds, CallsFail, RecordFails, table
<1>7. Network \/ Expiry \/ Crash \/ UNCHANGED vars => UNCHANGED <<status, row>>
  BY DEF Network, Deliver, Lose, Expiry, LeaseRunsOut, Crash, table, vars
<1> QED
  BY <1>1, <1>2, <1>3, <1>4, <1>5, <1>6, <1>7 DEF Next, ReapAny

LEMMA UniqueInvariance == Spec => []UniqueStatus(status, row)
<1>1. Init => UniqueStatus(status, row)
  BY DEF Init, UniqueStatus
<1>2. UniqueStatus(status, row) /\ [Next]_vars => UniqueStatus(status, row)'
  BY UniqueNext
<1> QED
  BY <1>1, <1>2, PTL DEF Spec

(* The evidence of a request whose operation runs holds no outcome of it yet. *)
LEMMA RunningIsUnrecorded ==
  ASSUME IndInv, NEW r \in Requests, NEW k \in Kinds, op[r][k] = "running"
  PROVE  Texts(r) \cap {"active", "activation_failed"} = {}
<1>1. status[r] = Expected(k) /\ Column(decisions[r]) = History(Expected(k))
  BY RunningMeansExpected DEF IndInv, TablesAgree
<1> SUFFICES ASSUME NEW i \in DOMAIN decisions[r]
             PROVE  decisions[r][i].decision \notin {"active", "activation_failed"}
  BY DEF Texts
<1>2. /\ DOMAIN Column(decisions[r]) = DOMAIN decisions[r]
      /\ Column(decisions[r])[i] = decisions[r][i].decision
  BY DEF Column
<1>3. i \in DOMAIN History(Expected(k))
  BY <1>1, <1>2
<1>4. History(Expected(k)) \in {<<"approved">>, <<"approved", "invited">>}
  BY DEF History, Expected, Kinds
<1>5. History(Expected(k))[i] \in {"approved", "invited"}
  BY <1>3, <1>4
<1> QED
  BY <1>1, <1>2, <1>5

(* While an operation runs, only the CHECK on decision and another request of  *)
(* the same candidate can keep its outcome from being recorded: what the two   *)
(* findings about lost results show is all there is.                           *)
THEOREM Recordable == Spec => []ResultIsRecordable
<1>1. IndInv /\ UniqueStatus(status, row) => ResultIsRecordable
  <2> SUFFICES ASSUME IndInv, UniqueStatus(status, row),
                      NEW r \in Requests, NEW k \in Kinds, op[r][k] = "running",
                      NEW text \in {Achieved(k), Ambiguous(k)}
               PROVE  /\ status[r] = Expected(k)
                      /\ text \in DecisionCheck => MayRecord(r, text)
                      /\ SharedByNobody(r) => UniqueStatus([status EXCEPT ![r] = text], row)
    BY RunningMeansExpected DEF ResultIsRecordable, IndInv
  <2>1. status[r] = Expected(k)
    BY RunningMeansExpected DEF IndInv
  <2>2. text \in DecisionCheck => MayRecord(r, text)
    <3>1. text \notin {"approved", "rejected"}
      BY DEF Achieved, Ambiguous
    <3> QED
      BY <3>1, RunningIsUnrecorded DEF MayRecord, OneApprovalOrRejection, OneActivationOutcome
  <2>3. ASSUME SharedByNobody(r) PROVE UniqueStatus([status EXCEPT ![r] = text], row)
    <3> DEFINE st == [status EXCEPT ![r] = text]
    <3>1. \A q \in Requests : q # r => st[q] = status[q]
      BY DEF IndInv, TypeOK
    <3> HIDE DEF st
    <3> SUFFICES ASSUME NEW p \in Requests, NEW q \in Requests, p # q,
                        row[p] # NoRow, row[q] # NoRow, row[p].email = row[q].email
                 PROVE  st[p] # st[q]
      BY DEF UniqueStatus, st
    <3>2. p # r /\ q # r
      BY <2>3 DEF SharedByNobody
    <3> QED
      BY <3>1, <3>2 DEF UniqueStatus
  <2> QED
    BY <2>1, <2>2, <2>3
<1> QED
  BY <1>1, Invariance, UniqueInvariance, PTL

(* The rows the reconciler's transaction would write for the batch S: nothing  *)
(* but the CHECK on decision and a candidate shared with another request can   *)
(* refuse them.                                                                *)
BatchIsRecordable ==
  \A S \in SUBSET overdue :
    (\A r \in Batched(S) : SharedByNobody(r) /\ Verdict(S, r) \in DecisionCheck) =>
      /\ \A r \in Batched(S) : MayRecord(r, Verdict(S, r))
      /\ UniqueStatus([r \in Requests |-> IF r \in Batched(S) THEN Verdict(S, r)
                                                              ELSE status[r]], row)

(* A batch none of whose rows is refused by itself is not refused as a whole:  *)
(* the operations settled together do not get into one another's way.          *)
THEOREM BatchesAreRecordable == Spec => []BatchIsRecordable
<1>1. IndInv /\ UniqueStatus(status, row) /\ ResultIsRecordable => BatchIsRecordable
  <2> SUFFICES ASSUME IndInv, UniqueStatus(status, row), ResultIsRecordable,
                      NEW S \in SUBSET overdue,
                      \A r \in Batched(S) : /\ SharedByNobody(r)
                                            /\ Verdict(S, r) \in DecisionCheck
               PROVE  /\ \A r \in Batched(S) : MayRecord(r, Verdict(S, r))
                      /\ UniqueStatus([r \in Requests |->
                           IF r \in Batched(S) THEN Verdict(S, r) ELSE status[r]], row)
    BY DEF BatchIsRecordable
  <2>1. ASSUME NEW r \in Batched(S) PROVE MayRecord(r, Verdict(S, r))
    <3>1. PICK k \in Kinds : status[r] = Expected(k) /\ Verdict(S, r) = Ambiguous(k)
      BY BatchIsRunning
    <3>2. r \in Requests
      BY DEF Batched
    <3>3. op[r][k] = "running"
      BY <3>1, <3>2, RunningMeansExpected DEF IndInv
    <3>4. Verdict(S, r) \in DecisionCheck
      OBVIOUS
    <3> HIDE DEF IndInv
    <3> QED
      BY <3>1, <3>2, <3>3, <3>4 DEF ResultIsRecordable
  <2>2. UniqueStatus([r \in Requests |->
          IF r \in Batched(S) THEN Verdict(S, r) ELSE status[r]], row)
    <3> DEFINE st == [r \in Requests |-> IF r \in Batched(S) THEN Verdict(S, r)
                                                             ELSE status[r]]
    <3> SUFFICES ASSUME NEW p \in Requests, NEW q \in Requests, p # q,
                        row[p] # NoRow, row[q] # NoRow, row[p].email = row[q].email
                 PROVE  st[p] # st[q]
      BY DEF UniqueStatus
    <3>1. p \notin Batched(S) /\ q \notin Batched(S)
      BY DEF SharedByNobody
    <3> QED
      BY <3>1 DEF UniqueStatus
  <2> QED
    BY <2>1, <2>2
<1> QED
  BY <1>1, Invariance, UniqueInvariance, Recordable, PTL

(* A request is only ever in an outcome the CHECK on decision admits. *)
OutcomesAreAdmitted ==
  \A r \in Requests, k \in Kinds :
    status[r] \in {Achieved(k), Ambiguous(k)} => status[r] \in DecisionCheck

(* Whatever the operators and the reconciler do, an outcome the CHECK refuses  *)
(* never becomes the status of a request ...                                   *)
THEOREM AdmittedOnly == Spec => []OutcomesAreAdmitted
<1>1. Init => OutcomesAreAdmitted
  BY DEF Init, OutcomesAreAdmitted, Achieved, Ambiguous
<1>2. IndInv /\ OutcomesAreAdmitted /\ [Next]_vars => OutcomesAreAdmitted'
  <2> SUFFICES ASSUME IndInv, OutcomesAreAdmitted, [Next]_vars,
                      NEW r \in Requests, NEW k \in Kinds,
                      status'[r] \in {Achieved(k), Ambiguous(k)}
               PROVE  status'[r] \in DecisionCheck
    BY DEF OutcomesAreAdmitted
  <2>1. CASE status'[r] = status[r]
    BY <2>1 DEF OutcomesAreAdmitted
  <2>2. CASE status'[r] # status[r]
    <3>1. ~SubmitAny /\ ~DecideAny /\ ~ClaimAny
      BY <2>2 DEF SubmitAny, Submit, DecideAny, Decide, ClaimAny, Claim, IndInv, TypeOK,
                  Achieved, Ambiguous, Expected
    <3>2. ASSUME NEW h \in Handlers, RecordResult(h) PROVE status'[r] \in DecisionCheck
      BY <2>2, <3>2 DEF RecordResult, MayRecord, IndInv, TypeOK
    <3>3. ASSUME NEW S \in SUBSET overdue, Reap(S) PROVE status'[r] \in DecisionCheck
      BY <2>2, <3>3 DEF Reap, MayRecord
    <3>4. ASSUME NEW h \in Handlers, Work(h), ~RecordResult(h) PROVE status' = status
      BY <3>4 DEF Work, Send, CallSucceeds, CallsFail, RecordFails, table
    <3>5. Network \/ Expiry \/ Crash \/ UNCHANGED vars => status' = status
      BY DEF Network, Deliver, Lose, Expiry, LeaseRunsOut, Crash, table, vars
    <3> QED
      BY <2>2, <3>1, <3>2, <3>3, <3>4, <3>5 DEF Next, ReapAny
  <2> QED
    BY <2>1, <2>2
<1> QED
  BY <1>1, <1>2, Invariance, PTL DEF Spec

(* ... so that under migration 0003, whose CHECK says provision_ambiguous, no  *)
(* failed invitation is ever recorded, by its handler or by the reconciler.    *)
THEOREM FailedInviteStays ==
  ASSUME "provisioning_ambiguous" \notin DecisionCheck
  PROVE  Spec => [](\A r \in Requests : status[r] # "provisioning_ambiguous")
<1>1. OutcomesAreAdmitted => \A r \in Requests : status[r] # "provisioning_ambiguous"
  BY DEF OutcomesAreAdmitted, Ambiguous, Kinds
<1> QED
  BY <1>1, AdmittedOnly, PTL

(* Who signs the evidence: an approver, but for the reconciler's ambiguous     *)
(* outcomes.                                                                   *)
Signed(e) ==
  \/ e.actor \in Approvers
  \/ e.actor = ServiceActor /\ \E k \in Kinds : e.decision = Ambiguous(k)

EvidenceIsSigned == \A r \in Requests : \A i \in DOMAIN decisions[r] : Signed(decisions[r][i])

(* A transaction adds at most one line of evidence to a request, a signed one. *)
LEMMA DecisionSteps ==
  ASSUME IndInv, [Next]_vars, NEW r \in Requests
  PROVE  \/ decisions'[r] = decisions[r]
         \/ \E e \in Decision : Signed(e) /\ decisions'[r] = Append(decisions[r], e)
<1>1. SubmitAny \/ ClaimAny => decisions' = decisions
  BY DEF SubmitAny, Submit, ClaimAny, Claim
<1>2. ASSUME NEW q \in Requests, NEW s \in Approvers, NEW v \in {"approved", "rejected"},
             Decide(q, s, v)
      PROVE  \/ decisions'[r] = decisions[r]
             \/ \E e \in Decision : Signed(e) /\ decisions'[r] = Append(decisions[r], e)
  <2>1. Evidence(v, s) \in Decision /\ Signed(Evidence(v, s))
    BY ApproversAreSubjects DEF Evidence, Decision, Signed, Statuses, Actors
  <2>2. decisions' = [decisions EXCEPT ![q] = Append(@, Evidence(v, s))]
    BY <1>2 DEF Decide
  <2>3. decisions'[r] = decisions[r] \/ decisions'[r] = Append(decisions[r], Evidence(v, s))
    BY <2>2 DEF IndInv, TypeOK
  <2> QED
    BY <2>1, <2>3
<1>3. ASSUME NEW h \in Handlers, RecordResult(h)
      PROVE  \/ decisions'[r] = decisions[r]
             \/ \E e \in Decision : Signed(e) /\ decisions'[r] = Append(decisions[r], e)
  <2> DEFINE k == handler[h].kind
             text == IF handler[h].failed THEN Ambiguous(k) ELSE Achieved(k)
             s == handler[h].operator
  <2>1. k \in Kinds /\ s \in Approvers
    <3>1. handler[h] \in Job
      BY <1>3 DEF RecordResult, CallsReturned, IndInv, TypeOK
    <3> QED
      BY <3>1 DEF Job
  <2>2. Evidence(text, s) \in Decision /\ Signed(Evidence(text, s))
    BY <2>1, ApproversAreSubjects
    DEF Evidence, Decision, Signed, Statuses, Actors, Achieved, Ambiguous
  <2>3. decisions' = [decisions EXCEPT ![handler[h].request] = Append(@, Evidence(text, s))]
    BY <1>3 DEF RecordResult
  <2>4. decisions'[r] = decisions[r] \/ decisions'[r] = Append(decisions[r], Evidence(text, s))
    BY <2>3 DEF IndInv, TypeOK
  <2> QED
    BY <2>2, <2>4
<1>4. ASSUME NEW S \in SUBSET overdue, Reap(S)
      PROVE  \/ decisions'[r] = decisions[r]
             \/ \E e \in Decision : Signed(e) /\ decisions'[r] = Append(decisions[r], e)
  <2>1. \E k \in Kinds : Verdict(S, r) = Ambiguous(k)
    BY DEF Verdict, Kinds
  <2>2. /\ Evidence(Verdict(S, r), ServiceActor) \in Decision
        /\ Signed(Evidence(Verdict(S, r), ServiceActor))
    BY <2>1 DEF Evidence, Decision, Signed, Statuses, Actors, Ambiguous
  <2> QED
    BY <1>4, <2>2 DEF Reap
<1>5. ASSUME NEW h \in Handlers, Work(h), ~RecordResult(h) PROVE decisions' = decisions
  BY <1>5 DEF Work, Send, CallSucceeds, CallsFail, RecordFails, table
<1>6. Network \/ Expiry \/ Crash \/ UNCHANGED vars => decisions' = decisions
  BY DEF Network, Deliver, Lose, Expiry, LeaseRunsOut, Crash, table, vars
<1> QED
  BY <1>1, <1>2, <1>3, <1>4, <1>5, <1>6 DEF Next, DecideAny, ReapAny

(* An approver stands behind every approval, rejection, invitation and         *)
(* activation in the evidence; the reconciler signs ambiguous outcomes only.   *)
THEOREM SignedEvidence == Spec => []EvidenceIsSigned
<1>1. Init => EvidenceIsSigned
  BY DEF Init, EvidenceIsSigned
<1>2. IndInv /\ EvidenceIsSigned /\ [Next]_vars => EvidenceIsSigned'
  <2> SUFFICES ASSUME IndInv, EvidenceIsSigned, [Next]_vars,
                      NEW r \in Requests, NEW i \in DOMAIN decisions'[r]
               PROVE  Signed(decisions'[r][i])
    BY DEF EvidenceIsSigned, Signed
  <2>1. CASE decisions'[r] = decisions[r]
    BY <2>1 DEF EvidenceIsSigned
  <2>2. ASSUME NEW e \in Decision, Signed(e), decisions'[r] = Append(decisions[r], e)
        PROVE  Signed(decisions'[r][i])
    <3>1. decisions[r] \in Seq(Decision)
      BY DEF IndInv, TypeOK
    <3>2. i \in DOMAIN decisions[r] \/ decisions'[r][i] = e
      BY <2>2, <3>1
    <3>3. i \in DOMAIN decisions[r] => decisions'[r][i] = decisions[r][i]
      BY <2>2, <3>1
    <3> QED
      BY <2>2, <3>2, <3>3 DEF EvidenceIsSigned
  <2> QED
    BY <2>1, <2>2, DecisionSteps
<1> QED
  BY <1>1, <1>2, Invariance, PTL DEF Spec

(* No transaction takes evidence back or rewrites it, whoever runs it: a       *)
(* request's lines stay as they are, and at most one, signed, is added.        *)
EvidenceGrows ==
  [][\A r \in Requests :
       \/ decisions'[r] = decisions[r]
       \/ \E e \in Decision : Signed(e) /\ decisions'[r] = Append(decisions[r], e)]_vars

(* Evidence once committed is there for good. *)
THEOREM EvidenceIsAppendOnly == Spec => EvidenceGrows
<1>1. IndInv /\ [Next]_vars =>
        [\A r \in Requests :
           \/ decisions'[r] = decisions[r]
           \/ \E e \in Decision : Signed(e) /\ decisions'[r] = Append(decisions[r], e)]_vars
  BY DecisionSteps
<1> QED
  BY <1>1, Invariance, PTL DEF Spec, EvidenceGrows

-------------------------------------------------------------------------------
(* What is lost for good. *)

WorksOn(h, r, k) ==
  handler[h] # NoJob /\ handler[h].request = r /\ handler[h].kind = k

(* The operation runs and no handler works on it: its process died, the reply  *)
(* to its claim was lost, or its second transaction failed.                    *)
Abandoned(r, k) == op[r][k] = "running" /\ \A h \in Handlers : ~WorksOn(h, r, k)

(* Only a claim gives a handler an operation to work on. *)
LEMMA NobodyResumes ==
  ASSUME IndInv, [Next]_vars, NEW r \in Requests, NEW k \in Kinds, Abandoned(r, k),
         NEW h \in Handlers
  PROVE  ~WorksOn(h, r, k)'
<1>1. ~WorksOn(h, r, k)
  BY DEF Abandoned
<1>2. ASSUME NEW g \in Handlers, NEW q \in Requests, NEW s \in Approvers, NEW j \in Kinds,
             NEW a \in BOOLEAN, Claim(g, q, s, j, a)
      PROVE  ~WorksOn(h, r, k)'
  <2>1. q # r \/ j # k
    BY <1>2 DEF Claim, Abandoned
  <2>2. handler'[h] = handler[h] \/ (handler'[h].request = q /\ handler'[h].kind = j)
    BY <1>2 DEF Claim, IndInv, TypeOK
  <2> QED
    BY <1>1, <2>1, <2>2 DEF WorksOn
<1>3. ASSUME NEW g \in Handlers, Work(g) PROVE ~WorksOn(h, r, k)'
  <2>1. CASE RecordResult(g) \/ RecordFails(g)
    <3>1. handler'[h] \in {handler[h], NoJob}
      BY <2>1 DEF RecordResult, RecordFails, IndInv, TypeOK
    <3> QED
      BY <1>1, <3>1 DEF WorksOn
  <2>2. ASSUME NEW c \in Calls, Send(g, c) \/ CallSucceeds(g, c) PROVE ~WorksOn(h, r, k)'
    <3>1. handler[g] # NoJob /\ handler[g] \in Job
      BY <2>2, HandlerJob DEF Send, CallSucceeds
    <3>2. /\ handler'[g].request = handler[g].request
          /\ handler'[g].kind = handler[g].kind
          /\ \A f \in Handlers \ {g} : handler'[f] = handler[f]
      BY <2>2, <3>1 DEF Send, CallSucceeds, IndInv, TypeOK, Job
    <3> QED
      BY <1>1, <3>1, <3>2 DEF WorksOn
  <2>3. ASSUME NEW C \in SUBSET Calls, CallsFail(g, C) PROVE ~WorksOn(h, r, k)'
    <3>1. handler[g] # NoJob /\ handler[g] \in Job
      BY <2>3, HandlerJob DEF CallsFail
    <3>2. /\ handler'[g].request = handler[g].request
          /\ handler'[g].kind = handler[g].kind
          /\ \A f \in Handlers \ {g} : handler'[f] = handler[f]
      BY <2>3, <3>1 DEF CallsFail, IndInv, TypeOK, Job
    <3> QED
      BY <1>1, <3>1, <3>2 DEF WorksOn
  <2> QED
    BY <1>3, <2>1, <2>2, <2>3 DEF Work
<1>4. CASE Crash
  BY <1>4 DEF Crash, WorksOn
<1>5. SubmitAny \/ DecideAny \/ Network \/ Expiry \/ ReapAny \/ UNCHANGED vars
        => handler' = handler
  BY DEF SubmitAny, Submit, DecideAny, Decide, Network, Deliver, Lose, Expiry, LeaseRunsOut,
         ReapAny, Reap, vars
<1> QED
  BY <1>1, <1>2, <1>3, <1>4, <1>5 DEF Next, ClaimAny, WorksOn

(* Nothing but a batch of the reconciler settles an abandoned operation. *)
LEMMA OnlyReapSettles ==
  ASSUME IndInv, [Next]_vars, NEW r \in Requests, NEW k \in Kinds, Abandoned(r, k)
  PROVE  op'[r][k] = "running" \/ \E S \in SUBSET overdue : <<r, k>> \in S /\ Reap(S)
<1>1. ASSUME NEW g \in Handlers, NEW q \in Requests, NEW s \in Approvers, NEW j \in Kinds,
             NEW a \in BOOLEAN, Claim(g, q, s, j, a)
      PROVE  op'[r][k] = "running"
  <2>1. op' = [op EXCEPT ![q][j] = "running"]
    BY <1>1 DEF Claim
  <2> QED
    BY <2>1 DEF Abandoned, IndInv, TypeOK
<1>2. ASSUME NEW g \in Handlers, RecordResult(g) PROVE op'[r][k] = "running"
  <2>1. WorksOn(g, handler[g].request, handler[g].kind)
    BY <1>2 DEF RecordResult, CallsReturned, WorksOn
  <2>2. handler[g].request # r \/ handler[g].kind # k
    BY <2>1 DEF Abandoned, WorksOn
  <2>3. \E new : op' = [op EXCEPT ![handler[g].request][handler[g].kind] = new]
    BY <1>2 DEF RecordResult
  <2> QED
    BY <2>2, <2>3 DEF Abandoned, IndInv, TypeOK
<1>3. ASSUME NEW S \in SUBSET overdue, Reap(S), <<r, k>> \notin S PROVE op'[r][k] = "running"
  BY <1>3 DEF Reap, Abandoned
<1>4. ASSUME NEW g \in Handlers, Work(g), ~RecordResult(g) PROVE op' = op
  BY <1>4 DEF Work, Send, CallSucceeds, CallsFail, RecordFails, table
<1>5. SubmitAny \/ DecideAny \/ Network \/ Expiry \/ Crash \/ UNCHANGED vars => op' = op
  BY DEF SubmitAny, Submit, DecideAny, Decide, Network, Deliver, Lose, Expiry, LeaseRunsOut,
         Crash, table, vars
<1> QED
  BY <1>1, <1>2, <1>3, <1>4, <1>5 DEF Next, ClaimAny, ReapAny, Abandoned

(* With the driver as it is, which runs no statement while it reads rows, and  *)
(* for a failed invitation with the CHECK as migrated, an operation that lost  *)
(* its handler runs for ever: the findings about the reconciler and the CHECK, *)
(* for every instance and every schedule.                                      *)
THEOREM AbandonedForGood ==
  ASSUME NEW r \in Requests, NEW k \in Kinds,
         ~ExecWhileIterating \/ Ambiguous(k) \notin DecisionCheck
  PROVE  Spec => [](Abandoned(r, k) => []Abandoned(r, k))
<1>1. IndInv /\ Abandoned(r, k) /\ [Next]_vars => Abandoned(r, k)'
  <2> SUFFICES ASSUME IndInv, Abandoned(r, k), [Next]_vars PROVE Abandoned(r, k)'
    OBVIOUS
  <2>1. ASSUME NEW S \in SUBSET overdue, <<r, k>> \in S, Reap(S) PROVE FALSE
    <3>1. r \in Batched(S)
      BY <2>1 DEF Batched
    <3>2. Verdict(S, r) = Ambiguous(k)
      BY <2>1, <3>1, BatchIsRunning
    <3> QED
      BY <2>1, <3>1, <3>2 DEF Reap, MayRecord
  <2> QED
    BY <2>1, OnlyReapSettles, NobodyResumes DEF Abandoned
<1> QED
  BY <1>1, Invariance, PTL DEF Spec

(* Two requests of one candidate. *)
SameCandidate(q, r) ==
  row[q] # NoRow /\ row[r] # NoRow /\ row[q].email = row[r].email

(* Where one request of a candidate has come to rest, no other request of the  *)
(* candidate ever gets: UNIQUE (organization_id, email, status) refuses its    *)
(* result, whatever Keycloak did for it.                                       *)
THEOREM OutcomeIsTaken ==
  ASSUME NEW q \in Requests, NEW r \in Requests, q # r, NEW st \in Final
  PROVE  Spec => []((SameCandidate(q, r) /\ status[q] = st) => [](status[r] # st))
<1>1. SameCandidate(q, r) /\ status[q] = st /\ UniqueStatus(status, row) => status[r] # st
  BY DEF SameCandidate, UniqueStatus
<1>2. IndInv /\ SameCandidate(q, r) /\ status[q] = st /\ [Next]_vars
        => (SameCandidate(q, r) /\ status[q] = st)'
  <2> SUFFICES ASSUME IndInv, SameCandidate(q, r), status[q] = st, [Next]_vars
               PROVE  (SameCandidate(q, r) /\ status[q] = st)'
    OBVIOUS
  <2>1. status'[q] = st
    BY FinalStays
  <2>2. row'[q] = row[q] /\ row'[r] = row[r]
    <3>1. CASE SubmitAny
      BY <3>1 DEF SubmitAny, Submit, SameCandidate, IndInv, TypeOK
    <3>2. ~SubmitAny => row' = row
      BY DEF Next, DecideAny, Decide, ClaimAny, Claim, Work, Send, CallSucceeds, CallsFail,
             RecordResult, RecordFails, Network, Deliver, Lose, Expiry, LeaseRunsOut, ReapAny,
             Reap, Crash, table, vars
    <3> QED
      BY <3>1, <3>2
  <2> QED
    BY <2>1, <2>2 DEF SameCandidate
<1> QED
  BY <1>1, <1>2, Invariance, UniqueInvariance, PTL DEF Spec

-------------------------------------------------------------------------------
(* Onboarding implements OnboardingLifecycle. *)

LEMMA LifecycleInit == Init => Lifecycle!Init
  BY DEF Init, Lifecycle!Init, MakerSeen, GrantSeen, CheckerSeen, DoneSeen

(* A step that changes nothing the observer sees. *)
LEMMA UnseenSteps ==
  ASSUME UNCHANGED <<row, status, decisions, delivered>>
  PROVE  UNCHANGED Lifecycle!lifecycle
  BY DEF Lifecycle!lifecycle, MakerSeen, GrantSeen, CheckerSeen, DoneSeen

LEMMA SubmitSeen ==
  ASSUME IndInv, NEW r \in Requests, NEW s \in Subjects, NEW e \in Emails,
         NEW R \in SUBSET Roles, Submit(r, s, e, R)
  PROVE  Lifecycle!Submit(r)
<1> DEFINE new == [email |-> e, requester |-> s, roles |-> R]
<1>1. new \in Row
  BY DEF Submit, Row
<1>2. row' = [row EXCEPT ![r] = new] /\ row[r] = NoRow
      /\ status' = [status EXCEPT ![r] = "submitted"]
      /\ UNCHANGED <<decisions, delivered>>
  BY DEF Submit
<1>3. new.requester = s /\ new.roles = R
  OBVIOUS
<1> HIDE DEF new
<1>4. MakerSeen' = [MakerSeen EXCEPT ![r] = s]
  BY <1>1, <1>2, <1>3, NullsAreDistinct DEF MakerSeen, IndInv, TypeOK
<1>5. GrantSeen' = [GrantSeen EXCEPT ![r] = R]
  BY <1>1, <1>2, <1>3, NullsAreDistinct DEF GrantSeen, IndInv, TypeOK
<1>6. CheckerSeen' = CheckerSeen /\ DoneSeen' = DoneSeen
  BY <1>2 DEF CheckerSeen, DoneSeen
<1>7. status[r] = "none" /\ R \in (SUBSET Roles) \ {{}}
  BY <1>2 DEF IndInv, Bookkeeping, Submit
<1> QED
  BY <1>2, <1>4, <1>5, <1>6, <1>7 DEF Lifecycle!Submit

LEMMA DecideSeen ==
  ASSUME IndInv, NEW r \in Requests, NEW s \in Approvers,
         NEW v \in {"approved", "rejected"}, Decide(r, s, v)
  PROVE  Lifecycle!Decide(r)
<1>1. status[r] = "submitted" /\ row[r].requester # s
      /\ status' = [status EXCEPT ![r] = v]
      /\ UNCHANGED <<row, delivered>>
  BY DEF Decide
<1>2. MakerSeen[r] = row[r].requester
  BY <1>1 DEF MakerSeen, IndInv, Bookkeeping
<1>3. MakerSeen' = MakerSeen /\ GrantSeen' = GrantSeen /\ DoneSeen' = DoneSeen
  BY <1>1 DEF MakerSeen, GrantSeen, DoneSeen
<1>4. decisions[r] = <<>>
  BY <1>1, UndecidedIsEmpty
<1>5. decisions'[r] = Append(decisions[r], Evidence(v, s))
      /\ \A q \in Requests \ {r} : decisions'[q] = decisions[q]
  BY DEF Decide, IndInv, TypeOK
<1>6. decisions'[r] # <<>> /\ decisions'[r][1] = Evidence(v, s)
  <2>1. Evidence(v, s) \in Decision
    BY ApproversAreSubjects DEF Evidence, Decision, Statuses, Actors
  <2> QED
    BY <1>4, <1>5, <2>1, AppendFirst DEF IndInv, TypeOK
<1>7. Evidence(v, s).actor = s
  BY DEF Evidence
<1>8. CheckerSeen' = [CheckerSeen EXCEPT ![r] = s]
  BY <1>5, <1>6, <1>7 DEF CheckerSeen
<1> QED
  BY <1>1, <1>2, <1>3, <1>8, ApproversAreSubjects DEF Lifecycle!Decide

LEMMA ClaimSeen ==
  ASSUME IndInv, NEW h \in Handlers, NEW r \in Requests, NEW s \in Approvers,
         NEW k \in Kinds, NEW a \in BOOLEAN, Claim(h, r, s, k, a)
  PROVE  Lifecycle!Claim(r, k)
<1>1. status[r] = Claimable(k) /\ status' = [status EXCEPT ![r] = Expected(k)]
      /\ UNCHANGED <<row, decisions, delivered>>
  BY DEF Claim
<1>2. UNCHANGED <<MakerSeen, GrantSeen, CheckerSeen, DoneSeen>>
  BY <1>1 DEF MakerSeen, GrantSeen, CheckerSeen, DoneSeen
<1> QED
  BY <1>1, <1>2
  DEF Lifecycle!Claim, Lifecycle!Claimable, Lifecycle!Claimed, Claimable, Expected

LEMMA DeliverSeen ==
  ASSUME IndInv, NEW r \in Requests, NEW c \in Calls, Deliver(r, c)
  PROVE  \E k \in Kinds : Lifecycle!Effect(r, k, c)
<1>1. <<r, c>> \in wire /\ delivered' = [delivered EXCEPT ![r][c] = @ + 1]
      /\ UNCHANGED <<row, status, decisions>>
  BY DEF Deliver, table
<1>2. \A d \in Calls : delivered[r][d] \in Nat
  BY DEF IndInv, TypeOK
<1>3. delivered[r][c] = 0
  <2>1. delivered[r][c] + (IF <<r, c>> \in wire THEN 1 ELSE 0) <= 1
    BY DEF IndInv, CallsReachKeycloakAtMostOnce
  <2> QED
    BY <1>1, <1>2, <2>1
<1>4. PICK k \in Kinds : c \in CallsOf(r, k) /\ op[r][k] # "none"
  BY <1>1 DEF IndInv, Bookkeeping, Reached
<1>5. row[r] # NoRow /\ row[r] \in Row
  BY <1>4, OperationHasRow
<1>6. status[r] \in {Expected(k), Ambiguous(k)}
  <2>1. status[r] \in Statuses \cup {"none"} /\ op[r] = OperationsOf(status[r])
    BY DEF IndInv, TypeOK, TablesAgree
  <2>2. k = "provision" =>
          status[r] \notin {"invited", "activating", "active", "activation_ambiguous"}
    BY <1>3, <1>4 DEF IndInv, RecordedSuccessIsReal, CallsOf
  <2>3. k = "activate" => status[r] # "active"
    BY <1>3, <1>4 DEF IndInv, RecordedSuccessIsReal, CallsOf
  <2> QED
    BY <1>4, <2>1, <2>2, <2>3 DEF OperationsOf, Kinds, Expected, Achieved, Ambiguous
<1>7. UNCHANGED <<MakerSeen, GrantSeen, CheckerSeen>>
  BY <1>1 DEF MakerSeen, GrantSeen, CheckerSeen
<1>8. DoneSeen' = [DoneSeen EXCEPT ![r] = @ \cup {c}]
  <2>1. \A q \in Requests, d \in Calls :
          delivered'[q][d] = delivered[q][d] + (IF q = r /\ d = c THEN 1 ELSE 0)
    BY <1>1 DEF IndInv, TypeOK
  <2>2. \A q \in Requests, d \in Calls : delivered[q][d] \in Nat
    BY DEF IndInv, TypeOK
  <2>3. \A q \in Requests, d \in Calls :
          delivered'[q][d] > 0 <=> (delivered[q][d] > 0 \/ (q = r /\ d = c))
    BY <2>1, <2>2
  <2>4. \A q \in Requests : {d \in Calls : delivered'[q][d] > 0}
          = {d \in Calls : delivered[q][d] > 0} \cup (IF q = r THEN {c} ELSE {})
    BY <2>3
  <2> QED
    BY <2>4 DEF DoneSeen
<1>9. c \in Lifecycle!Duties(r, k) \ DoneSeen[r]
  BY <1>3, <1>4, <1>5 DEF Lifecycle!Duties, CallsOf, GrantSeen, DoneSeen
<1> QED
  BY <1>1, <1>6, <1>7, <1>8, <1>9
  DEF Lifecycle!Effect, Lifecycle!Claimed, Lifecycle!Unclear, Expected, Ambiguous

(* Settling requests as ambiguous, all of which are claimed. *)
LEMMA GiveUpSeen ==
  ASSUME TypeOK, NEW S \in SUBSET Requests, S # {},
         \A r \in S : \E k \in Kinds : status[r] = Expected(k) /\ status'[r] = Ambiguous(k),
         \A r \in Requests \ S : status'[r] = status[r],
         status' = [r \in Requests |-> status'[r]],
         UNCHANGED <<row, CheckerSeen, delivered>>
  PROVE  Lifecycle!GiveUp(S)
<1>1. UNCHANGED <<MakerSeen, GrantSeen, DoneSeen>>
  BY DEF MakerSeen, GrantSeen, DoneSeen
<1>2. \A r \in S : \E k \in Lifecycle!Kinds : status[r] = Lifecycle!Claimed(k)
  BY DEF Kinds, Expected, Lifecycle!Kinds, Lifecycle!Claimed
<1>3. \A r \in S : status'[r] = IF status[r] = "provisioning"
                                  THEN Lifecycle!Unclear("provision")
                                  ELSE Lifecycle!Unclear("activate")
  BY DEF Kinds, Expected, Ambiguous, Lifecycle!Unclear
<1>4. status' = [r \in Requests |->
                  IF r \in S
                    THEN IF status[r] = "provisioning" THEN Lifecycle!Unclear("provision")
                                                       ELSE Lifecycle!Unclear("activate")
                    ELSE status[r]]
  BY <1>3
<1> QED
  BY <1>1, <1>2, <1>4 DEF Lifecycle!GiveUp

(* Evidence added to requests with an operation leaves the checker as it was. *)
LEMMA CheckerStays ==
  ASSUME IndInv,
         \A r \in Requests :
           \/ decisions'[r] = decisions[r]
           \/ /\ \E k \in Kinds : op[r][k] # "none"
              /\ \E e \in Decision : decisions'[r] = Append(decisions[r], e)
  PROVE  CheckerSeen' = CheckerSeen
<1> SUFFICES ASSUME NEW r \in Requests
             PROVE  /\ decisions'[r] = <<>> <=> decisions[r] = <<>>
                    /\ decisions[r] # <<>> => decisions'[r][1] = decisions[r][1]
  BY DEF CheckerSeen
<1>1. CASE decisions'[r] = decisions[r]
  BY <1>1
<1>2. ASSUME NEW k \in Kinds, op[r][k] # "none", NEW e \in Decision,
             decisions'[r] = Append(decisions[r], e)
      PROVE  /\ decisions[r] # <<>> /\ decisions'[r] # <<>>
             /\ decisions'[r][1] = decisions[r][1]
  <2>1. Len(decisions[r]) >= 1 /\ decisions[r] \in Seq(Decision)
    BY <1>2, ClaimedIsDecided DEF IndInv, TypeOK
  <2>2. decisions[r] # <<>>
    BY <2>1
  <2> QED
    BY <1>2, <2>1, <2>2, AppendFirst
<1> QED
  BY <1>1, <1>2

LEMMA RecordSeen ==
  ASSUME IndInv, NEW h \in Handlers, RecordResult(h)
  PROVE  \/ \E r \in Requests, k \in Kinds : Lifecycle!Succeed(r, k)
         \/ \E S \in SUBSET Requests : Lifecycle!GiveUp(S)
<1> DEFINE r == handler[h].request
           k == handler[h].kind
           text == IF handler[h].failed THEN Ambiguous(k) ELSE Achieved(k)
           e == Evidence(text, handler[h].operator)
<1>1. /\ handler[h] # NoJob /\ handler[h] \in Job
      /\ r \in Requests /\ k \in Kinds /\ row[r] \in Row /\ op[r][k] # "none"
      /\ handler[h].todo = {} /\ handler[h].waiting = {}
  BY HandlerJob DEF RecordResult, CallsReturned
<1>2. /\ status[r] = Expected(k)
      /\ status' = [status EXCEPT ![r] = text]
      /\ decisions' = [decisions EXCEPT ![r] = Append(@, e)]
      /\ UNCHANGED <<row, delivered>>
  BY DEF RecordResult
<1>3. e \in Decision
  BY <1>1, ApproversAreSubjects
  DEF Evidence, Decision, Actors, Job, Ambiguous, Achieved, Statuses
<1>4. CheckerSeen' = CheckerSeen
  <2> HIDE DEF e
  <2>1. /\ decisions'[r] = Append(decisions[r], e)
        /\ \A q \in Requests \ {r} : decisions'[q] = decisions[q]
    BY <1>1, <1>2 DEF IndInv, TypeOK
  <2> QED
    BY <1>1, <1>3, <2>1, CheckerStays
<1>5. CASE handler[h].failed
  <2>1. /\ status'[r] = Ambiguous(k)
        /\ \A q \in Requests \ {r} : status'[q] = status[q]
        /\ status' = [q \in Requests |-> status'[q]]
    BY <1>1, <1>2, <1>5 DEF IndInv, TypeOK
  <2>2. TypeOK /\ {r} \in SUBSET Requests /\ {r} # {}
    BY <1>1 DEF IndInv
  <2> HIDE DEF r
  <2>3. Lifecycle!GiveUp({r})
    BY <1>1, <1>2, <1>4, <2>1, <2>2, GiveUpSeen
  <2> QED
    BY <2>2, <2>3
<1>6. CASE ~handler[h].failed
  <2>1. \A c \in CallsOf(r, k) : delivered[r][c] > 0
    BY <1>1, <1>6 DEF IndInv, HandlersOwnOperations, Owns
  <2>2. row[r] # NoRow
    BY <1>1, NullsAreDistinct
  <2>3. CallsOf(r, k) = Lifecycle!Duties(r, k)
    BY <1>1, <2>2 DEF CallsOf, GrantSeen, Lifecycle!Duties
  <2>4. CallsOf(r, k) \subseteq Calls
    BY <1>1, <2>2, CallsOfType DEF IndInv
  <2>5. Lifecycle!Duties(r, k) \subseteq DoneSeen[r]
    BY <1>1, <2>1, <2>3, <2>4 DEF DoneSeen
  <2>6. UNCHANGED <<MakerSeen, GrantSeen, DoneSeen>>
    BY <1>2 DEF MakerSeen, GrantSeen, DoneSeen
  <2>7. Lifecycle!Succeed(r, k)
    BY <1>2, <1>4, <1>6, <2>5, <2>6
    DEF Lifecycle!Succeed, Lifecycle!Claimed, Lifecycle!Achieved, Expected, Achieved
  <2> QED
    BY <1>1, <2>7
<1> QED
  BY <1>5, <1>6

LEMMA ReapSeen ==
  ASSUME IndInv, NEW S \in SUBSET overdue, Reap(S)
  PROVE  \E T \in SUBSET Requests : Lifecycle!GiveUp(T)
<1> DEFINE T == Batched(S)
<1>1. T \in SUBSET Requests
  BY DEF Batched
<1>2. T # {}
  <2>1. overdue \subseteq Requests \X Kinds /\ S # {}
    BY DEF IndInv, TypeOK, Reap
  <2>2. PICK p \in S : TRUE
    BY <2>1
  <2>3. PICK r \in Requests, k \in Kinds : p = <<r, k>>
    BY <2>1, <2>2
  <2> QED
    BY <2>2, <2>3 DEF Batched
<1>3. \A r \in T : \E k \in Kinds : status[r] = Expected(k) /\ status'[r] = Ambiguous(k)
  <2> SUFFICES ASSUME NEW r \in T
               PROVE  \E k \in Kinds : status[r] = Expected(k) /\ status'[r] = Ambiguous(k)
    OBVIOUS
  <2>1. PICK k \in Kinds : status[r] = Expected(k) /\ Verdict(S, r) = Ambiguous(k)
    BY BatchIsRunning
  <2>2. status[r] \in {"provisioning", "activating"}
    BY <2>1 DEF Expected
  <2>3. r \in Requests
    BY <1>1
  <2> QED
    BY <2>1, <2>2, <2>3 DEF Reap
<1>4. /\ \A r \in Requests \ T : status'[r] = status[r]
      /\ status' = [r \in Requests |-> status'[r]]
      /\ UNCHANGED <<row, delivered>>
  BY DEF Reap
<1>5. CheckerSeen' = CheckerSeen
  <2> SUFFICES ASSUME NEW r \in Requests
               PROVE  \/ decisions'[r] = decisions[r]
                      \/ /\ \E k \in Kinds : op[r][k] # "none"
                         /\ \E e \in Decision : decisions'[r] = Append(decisions[r], e)
    BY CheckerStays
  <2>1. CASE r \in T
    <3>1. Evidence(Verdict(S, r), ServiceActor) \in Decision
      BY DEF Evidence, Verdict, Ambiguous, Decision, Statuses, Actors
    <3>2. decisions'[r] = Append(decisions[r], Evidence(Verdict(S, r), ServiceActor))
      BY <2>1 DEF Reap
    <3>3. PICK k \in Kinds : <<r, k>> \in S
      BY <2>1 DEF Batched
    <3>4. op[r][k] # "none"
      BY <3>3 DEF IndInv, Bookkeeping
    <3> QED
      BY <3>1, <3>2, <3>4
  <2>2. CASE r \notin T
    BY <2>2 DEF Reap
  <2> QED
    BY <2>1, <2>2
<1>6. TypeOK
  BY DEF IndInv
<1> HIDE DEF T
<1>7. Lifecycle!GiveUp(T)
  BY <1>1, <1>2, <1>3, <1>4, <1>5, <1>6, GiveUpSeen
<1> QED
  BY <1>1, <1>7

LEMMA LifecycleNext ==
  IndInv /\ [Next]_vars => [Lifecycle!Next]_(Lifecycle!lifecycle)
<1> SUFFICES ASSUME IndInv, [Next]_vars
             PROVE  Lifecycle!Next \/ UNCHANGED Lifecycle!lifecycle
  OBVIOUS
<1>1. Kinds = Lifecycle!Kinds /\ Calls = Lifecycle!Calls
  BY DEF Kinds, Calls, Lifecycle!Kinds, Lifecycle!Calls
<1>2. CASE SubmitAny
  BY <1>2, SubmitSeen DEF SubmitAny, Lifecycle!Next
<1>3. CASE DecideAny
  BY <1>3, DecideSeen DEF DecideAny, Lifecycle!Next
<1>4. CASE ClaimAny
  BY <1>1, <1>4, ClaimSeen DEF ClaimAny, Lifecycle!Next
<1>5. ASSUME NEW h \in Handlers, RecordResult(h)
      PROVE  Lifecycle!Next
  BY <1>1, <1>5, RecordSeen DEF Lifecycle!Next
<1>6. ASSUME NEW h \in Handlers, Work(h), ~RecordResult(h)
      PROVE  UNCHANGED Lifecycle!lifecycle
  <2>1. UNCHANGED <<row, status, decisions, delivered>>
    BY <1>6 DEF Work, Send, CallSucceeds, CallsFail, RecordFails, table
  <2> QED
    BY <2>1, UnseenSteps
<1>7. ASSUME NEW r \in Requests, NEW c \in Calls, Deliver(r, c)
      PROVE  Lifecycle!Next
  BY <1>1, <1>7, DeliverSeen DEF Lifecycle!Next
<1>8. ASSUME NEW r \in Requests, NEW c \in Calls, Lose(r, c)
      PROVE  UNCHANGED Lifecycle!lifecycle
  BY <1>8, UnseenSteps DEF Lose, table
<1>9. CASE ReapAny
  BY <1>9, ReapSeen DEF ReapAny, Lifecycle!Next
<1>10. CASE Expiry \/ Crash \/ UNCHANGED vars
  BY <1>10, UnseenSteps DEF Expiry, LeaseRunsOut, Crash, table, vars
<1> QED
  BY <1>2, <1>3, <1>4, <1>5, <1>6, <1>7, <1>8, <1>9, <1>10 DEF Next, Network

(* The tables, handlers, messages, crashes and leases of Onboarding show an    *)
(* observer nothing but the lifecycle.                                         *)
THEOREM Refinement == Spec => ImplementsLifecycle
<1>1. Init => Lifecycle!Init
  BY LifecycleInit
<1>2. IndInv /\ [Next]_vars => [Lifecycle!Next]_(Lifecycle!lifecycle)
  BY LifecycleNext
<1> QED
  BY <1>1, <1>2, Invariance, PTL DEF Spec, ImplementsLifecycle, Lifecycle!Spec

===============================================================================
