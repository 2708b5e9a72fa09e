------------------------- MODULE GroupAssignmentProofs -------------------------
(* Theorems about GroupAssignment, for every list of distinct roles and every  *)
(* limit.                                                                      *)
EXTENDS GroupAssignment, TLAPS, FiniteSetTheorems

-------------------------------------------------------------------------------
(* The inductive invariant. *)

(* The loop has started the roles before next and no other. *)
LoopStarted ==
  /\ \A i \in DOMAIN Order : put[Order[i]] = "none" <=> next <= i
  /\ pc = "token" => next = 1
  /\ pc = "wait" => next = Len(Order) + 1

(* A goroutine that ended left a member or an error, one that gave up an error. *)
EndsAreAccountedFor ==
  \A r \in Roles :
    /\ put[r] = "ended" => r \in failed \cup members
    /\ put[r] = "abandoned" => r \in failed

(* nil is returned only when all is over and nothing went wrong. *)
NilIsFinal ==
  /\ result # "none" <=> pc = "returned"
  /\ result = "nil" => failed = {} /\ Running = {} /\ next = Len(Order) + 1

(* A call whose loop has run through returns when no goroutine runs, with the  *)
(* join of all the errors they have set.                                       *)
JoinIsComplete ==
  (pc = "returned" /\ Len(Order) > 0 /\ next > Len(Order)) =>
    Running = {} /\ reported = failed

FanOutInv ==
  /\ TypeOK
  /\ IsFiniteSet(Running)
  /\ LoopStarted
  /\ EndsAreAccountedFor
  /\ NilIsFinal
  /\ JoinIsComplete
  /\ LeavesNothingRunning

-------------------------------------------------------------------------------
LEMMA OrderFacts ==
  /\ Len(Order) \in Nat
  /\ DOMAIN Order = 1..Len(Order)
  /\ \A i \in DOMAIN Order : Order[i] \in Roles
  /\ \A r \in Roles : \E i \in DOMAIN Order : r = Order[i]
  BY OrderIsASequence DEF Roles

LEMMA FanOutStarts == Init => FanOutInv
<1> SUFFICES ASSUME Init PROVE FanOutInv
  OBVIOUS
<1> USE DEF Init
<1>1. Running = {}
  BY DEF Running
<1>2. IsFiniteSet(Running) /\ Cardinality(Running) = 0
  BY <1>1, FS_EmptySet
<1>3. TypeOK
  <2>1. Cardinality(Running) <= Limit
    BY <1>2, LimitIsPositive
  <2>2. 1 \in 1..(Len(Order) + 1)
    BY OrderFacts
  <2> QED
    BY <2>1, <2>2 DEF TypeOK, Phases
<1>4. LoopStarted /\ EndsAreAccountedFor /\ NilIsFinal /\ JoinIsComplete /\ LeavesNothingRunning
  BY <1>1, OrderFacts
  DEF LoopStarted, EndsAreAccountedFor, NilIsFinal, JoinIsComplete, LeavesNothingRunning
<1> QED
  BY <1>2, <1>3, <1>4 DEF FanOutInv

(* A step that starts no goroutine leaves no more of them running. *)
LEMMA FewerRun ==
  ASSUME FanOutInv, Running' \subseteq Running
  PROVE  IsFiniteSet(Running') /\ Cardinality(Running') <= Limit
<1>1. /\ IsFiniteSet(Running) /\ Cardinality(Running) <= Limit
  BY DEF FanOutInv, TypeOK
<1>2. /\ IsFiniteSet(Running') /\ Cardinality(Running') <= Cardinality(Running)
  BY <1>1, FS_Subset
<1>3. Cardinality(Running) \in Nat /\ Cardinality(Running') \in Nat
  BY <1>1, <1>2, FS_CardinalityType
<1> QED
  BY <1>1, <1>2, <1>3, LimitIsPositive

LEMMA LoopInductive ==
  ASSUME FanOutInv, Loop
  PROVE  FanOutInv'
<1> USE DEF FanOutInv
<1>1. CASE Token \/ Unmapped \/ AllStarted \/ Finish
  <2>1. /\ put' = put /\ mapped' = mapped /\ next' = next /\ failed' = failed
        /\ expired' = expired /\ members' = members
    BY <1>1 DEF Token, Unmapped, AllStarted, Finish
  <2>2. Running' = Running
    BY <2>1 DEF Running
  <2>3. IsFiniteSet(Running') /\ Cardinality(Running') <= Limit
    BY <2>2, FewerRun
  <2>4. TypeOK'
    <3>1. reported' \in {reported, failed, {Order[next]}} /\ reported' \subseteq Roles
      BY <1>1, OrderFacts DEF TypeOK, Token, Unmapped, AllStarted, Finish
    <3>2. /\ pc' \in {"token", "loop", "wait", "returned"}
          /\ result' \in {"none", "nil", "error"}
      BY <1>1 DEF TypeOK, Token, Unmapped, AllStarted, Finish
    <3> QED
      BY <2>1, <2>3, <3>1, <3>2 DEF TypeOK
  <2>5. LoopStarted'
    BY <1>1, <2>1, OrderFacts DEF LoopStarted, TypeOK, Token, Unmapped, AllStarted, Finish
  <2>6. EndsAreAccountedFor'
    BY <2>1 DEF EndsAreAccountedFor
  <2>7. NilIsFinal'
    BY <1>1, <2>1, <2>2 DEF NilIsFinal, LoopStarted, Token, Unmapped, AllStarted, Finish
  <2>8. LeavesNothingRunning'
    <3>1. CASE Token
      <4>1. Running = {}
        BY <3>1, OrderFacts DEF Token, LoopStarted, Running
      <4> QED
        BY <2>2, <4>1 DEF LeavesNothingRunning
    <3>2. CASE Unmapped
      <4>1. ~(Roles \subseteq mapped)
        BY <3>2, OrderFacts DEF Unmapped, TypeOK
      <4> QED
        BY <2>1, <4>1 DEF LeavesNothingRunning
    <3>3. CASE AllStarted
      BY <3>3 DEF AllStarted, LeavesNothingRunning
    <3>4. CASE Finish
      BY <2>2, <3>4 DEF Finish, LeavesNothingRunning
    <3> QED
      BY <1>1, <3>1, <3>2, <3>3, <3>4
  <2>9. JoinIsComplete'
    <3>1. CASE Token
      BY <2>1, <3>1, OrderFacts DEF Token, LoopStarted, JoinIsComplete
    <3>2. CASE Unmapped
      BY <2>1, <3>2, OrderFacts DEF Unmapped, JoinIsComplete, TypeOK
    <3>3. CASE AllStarted
      BY <3>3 DEF AllStarted, JoinIsComplete
    <3>4. CASE Finish
      BY <2>1, <2>2, <3>4 DEF Finish, JoinIsComplete
    <3> QED
      BY <1>1, <3>1, <3>2, <3>3, <3>4
  <2> QED
    BY <2>3, <2>4, <2>5, <2>6, <2>7, <2>8, <2>9
<1>2. CASE Start
  <2> DEFINE r == Order[next]
  <2>1. /\ pc = "loop" /\ next \in DOMAIN Order /\ r \in Roles /\ next \in Nat
        /\ Cardinality(Running) < Limit
        /\ put' = [put EXCEPT ![r] = "started"] /\ next' = next + 1
        /\ mapped' = mapped /\ pc' = pc /\ failed' = failed /\ result' = result
        /\ reported' = reported /\ expired' = expired /\ members' = members
    BY <1>2, OrderFacts DEF Start, TypeOK
  <2>2. put[r] = "none"
    BY <2>1 DEF LoopStarted
  <2> HIDE DEF r
  <2>3. put'[r] = "started" /\ \A q \in Roles : q # r => put'[q] = put[q]
    BY <2>1 DEF TypeOK
  <2>4. Running' = Running \cup {r}
    BY <2>1, <2>3 DEF Running
  <2>5. IsFiniteSet(Running') /\ Cardinality(Running') <= Limit
    <3>1. r \notin Running
      BY <2>2 DEF Running
    <3>2. /\ IsFiniteSet(Running \cup {r})
          /\ Cardinality(Running \cup {r}) = Cardinality(Running) + 1
      BY <3>1, FS_AddElement
    <3>3. Cardinality(Running) \in Nat
      BY FS_CardinalityType
    <3> QED
      BY <2>1, <2>4, <3>2, <3>3, LimitIsPositive
  <2>6. TypeOK'
    BY <2>1, <2>5, OrderFacts DEF TypeOK, Phases
  <2>7. LoopStarted'
    <3> SUFFICES ASSUME NEW i \in DOMAIN Order
                 PROVE  put'[Order[i]] = "none" <=> next + 1 <= i
      BY <2>1 DEF LoopStarted
    <3>1. CASE i = next
      BY <2>1, <2>3, <3>1 DEF r
    <3>2. CASE i # next
      <4>1. Order[i] # r /\ Order[i] \in Roles
        BY <2>1, <3>2, RolesAreDistinct, OrderFacts DEF r
      <4>2. put'[Order[i]] = put[Order[i]]
        BY <2>3, <4>1
      <4>3. i \in Nat
        BY OrderFacts
      <4> QED
        BY <2>1, <3>2, <4>2, <4>3 DEF LoopStarted
    <3> QED
      BY <3>1, <3>2
  <2>8. EndsAreAccountedFor'
    <3> SUFFICES ASSUME NEW q \in Roles
                 PROVE  /\ put'[q] = "ended" => q \in failed \cup members
                        /\ put'[q] = "abandoned" => q \in failed
      BY <2>1 DEF EndsAreAccountedFor
    <3>1. CASE q = r
      BY <2>3, <3>1
    <3>2. CASE q # r
      BY <2>3, <3>2 DEF EndsAreAccountedFor
    <3> QED
      BY <3>1, <3>2
  <2>9. NilIsFinal' /\ JoinIsComplete' /\ LeavesNothingRunning'
    BY <2>1 DEF NilIsFinal, JoinIsComplete, LeavesNothingRunning
  <2> QED
    BY <2>5, <2>6, <2>7, <2>8, <2>9
<1> QED
  BY <1>1, <1>2 DEF Loop

(* A goroutine that runs goes on, or ends as it may. *)
LEMMA GoroutineInductive ==
  ASSUME FanOutInv, NEW r \in Roles, put[r] \in {"started", "sent"},
         NEW p \in {"sent", "ended", "abandoned"}, put' = [put EXCEPT ![r] = p],
         failed' \in {failed, failed \cup {r}},
         p = "sent" => failed' = failed,
         p = "ended" => r \in failed' \cup members,
         p = "abandoned" => r \in failed',
         UNCHANGED <<mapped, pc, next, result, reported, expired, members>>
  PROVE  FanOutInv'
<1> USE DEF FanOutInv
<1>1. put'[r] = p /\ \A q \in Roles : q # r => put'[q] = put[q]
  BY DEF TypeOK
<1>2. r \in Running /\ Running' \subseteq Running
  BY <1>1 DEF Running
<1>3. IsFiniteSet(Running') /\ Cardinality(Running') <= Limit
  BY <1>2, FewerRun
<1>4. TypeOK'
  BY <1>3 DEF TypeOK, Phases
<1>5. \A q \in Roles : put'[q] = "none" <=> put[q] = "none"
  BY <1>1
<1>6. LoopStarted'
  BY <1>5, OrderFacts DEF LoopStarted
<1>7. EndsAreAccountedFor'
  <2> SUFFICES ASSUME NEW q \in Roles
               PROVE  /\ put'[q] = "ended" => q \in failed' \cup members
                      /\ put'[q] = "abandoned" => q \in failed'
    BY DEF EndsAreAccountedFor
  <2>1. CASE q = r
    BY <1>1, <2>1
  <2>2. CASE q # r
    BY <1>1, <2>2 DEF EndsAreAccountedFor
  <2> QED
    BY <2>1, <2>2
<1>8. NilIsFinal'
  BY <1>2 DEF NilIsFinal
<1>9. LeavesNothingRunning'
  BY <1>2 DEF LeavesNothingRunning
<1>10. JoinIsComplete'
  BY <1>2 DEF JoinIsComplete
<1> QED
  BY <1>3, <1>4, <1>6, <1>7, <1>8, <1>9, <1>10

LEMMA FanOutNext == FanOutInv /\ [Next]_vars => FanOutInv'
<1> SUFFICES ASSUME FanOutInv, [Next]_vars PROVE FanOutInv'
  OBVIOUS
<1>1. CASE Loop
  BY <1>1, LoopInductive
<1>2. ASSUME NEW r \in Roles, Goroutine(r) \/ (\E ok \in BOOLEAN : Answer(r, ok))
      PROVE  FanOutInv'
  <2>1. CASE Send(r)
    BY <2>1, GoroutineInductive DEF Send
  <2>2. CASE FailUnsent(r)
    BY <2>2, GoroutineInductive DEF FailUnsent
  <2>3. CASE Abandon(r)
    BY <2>3, GoroutineInductive DEF Abandon
  <2>4. ASSUME NEW ok \in BOOLEAN, Answer(r, ok) PROVE FanOutInv'
    <3>1. /\ put[r] \in {"started", "sent"} /\ put' = [put EXCEPT ![r] = "ended"]
          /\ failed' \in {failed, failed \cup {r}}
          /\ r \in failed' \cup members
          /\ UNCHANGED <<mapped, pc, next, result, reported, expired, members>>
      BY <2>4 DEF Answer
    <3> QED
      BY <3>1, GoroutineInductive
  <2> QED
    BY <1>2, <2>1, <2>2, <2>3, <2>4 DEF Goroutine
<1>3. CASE (\E r \in Roles : Process(r)) \/ Expire \/ UNCHANGED vars
  <2>1. /\ UNCHANGED <<mapped, pc, next, put, failed, result, reported>>
        /\ members \subseteq members' /\ members' \subseteq Roles
        /\ expired' \in BOOLEAN
    BY <1>3 DEF Process, Expire, vars, FanOutInv, TypeOK
  <2>2. Running' = Running
    BY <2>1 DEF Running
  <2>3. IsFiniteSet(Running') /\ Cardinality(Running') <= Limit
    BY <2>2, FewerRun
  <2>4. TypeOK'
    BY <2>1, <2>3 DEF FanOutInv, TypeOK
  <2>5. /\ LoopStarted' /\ EndsAreAccountedFor' /\ NilIsFinal'
        /\ JoinIsComplete' /\ LeavesNothingRunning'
    BY <2>1, <2>2
    DEF FanOutInv, LoopStarted, EndsAreAccountedFor, NilIsFinal, JoinIsComplete,
        LeavesNothingRunning
  <2> QED
    BY <2>3, <2>4, <2>5 DEF FanOutInv
<1> QED
  BY <1>1, <1>2, <1>3 DEF Next, Keycloak

THEOREM Invariance == Spec => []FanOutInv
<1> QED
  BY FanOutStarts, FanOutNext, PTL DEF Spec

-------------------------------------------------------------------------------
(* The locals keep their types, and never more than Limit PUTs run. *)
THEOREM BoundedFanOut == Spec => []TypeOK
<1>1. FanOutInv => TypeOK
  BY DEF FanOutInv
<1> QED
  BY <1>1, Invariance, PTL

(* What the invariant says of the value the call returns. *)
LEMMA HonestFanOut == FanOutInv => HonestResult
<1> SUFFICES ASSUME FanOutInv, pc = "returned" PROVE
               /\ result = "nil" => Roles \subseteq members
               /\ next > Len(Order) => Roles \ members \subseteq reported
  BY DEF HonestResult
<1>1. ASSUME next > Len(Order), NEW r \in Roles PROVE r \in reported \cup members
  <2> PICK i \in DOMAIN Order : r = Order[i]
    BY OrderFacts
  <2>1. next \in Nat /\ i \in 1..Len(Order) /\ Len(Order) > 0
    BY OrderFacts DEF FanOutInv, TypeOK
  <2>2. put[r] # "none"
    BY <1>1, <2>1, OrderFacts DEF FanOutInv, LoopStarted
  <2>3. Running = {} /\ reported = failed
    BY <1>1, <2>1 DEF FanOutInv, JoinIsComplete
  <2>4. put[r] \in {"ended", "abandoned"}
    BY <2>2, <2>3 DEF FanOutInv, TypeOK, Phases, Running
  <2> QED
    BY <2>3, <2>4 DEF FanOutInv, EndsAreAccountedFor
<1>2. ASSUME result = "nil" PROVE Roles \subseteq members
  <2>1. failed = {} /\ next > Len(Order)
    BY <1>2, OrderFacts DEF FanOutInv, NilIsFinal
  <2>2. CASE Len(Order) > 0
    <3>1. reported = {}
      BY <2>1, <2>2 DEF FanOutInv, JoinIsComplete
    <3> QED
      BY <1>1, <2>1, <3>1
  <2>3. CASE Len(Order) = 0
    BY <2>3, OrderFacts
  <2> QED
    BY <2>2, <2>3, OrderFacts
<1> QED
  BY <1>1, <1>2

(* nil means that every role has been assigned, and the error of a call whose  *)
(* loop has run through names every role that has not.                         *)
THEOREM HonestReturn == Spec => []HonestResult
<1> QED
  BY HonestFanOut, Invariance, PTL

(* With a group for each role, the call leaves no goroutine behind. *)
THEOREM NothingLeftRunning == Spec => []LeavesNothingRunning
<1>1. FanOutInv => LeavesNothingRunning
  BY DEF FanOutInv
<1> QED
  BY <1>1, Invariance, PTL

===============================================================================
