----------------------------- MODULE ServiceProofs -----------------------------
(* Theorems about Service, for all numbers of requests and handlers and all    *)
(* times that the two assumptions on them allow.                               *)
EXTENDS Service, OnboardingProofs

-------------------------------------------------------------------------------
(* The inductive invariant. *)

(* A handler at work is ahead of its lease: what it may still take, with the   *)
(* transaction to come, ends before the lease does.                            *)
InTime(h) ==
  LET r == handler[h].request
      k == handler[h].kind
  IN  /\ op[r][k] = "running"
      /\ <<r, k>> \notin overdue
      /\ left[h] + (IF CallsReturned(h) THEN 0 ELSE TxTime) < lease[r][k]

WorkersInTime == \A h \in Handlers : Working(h) => InTime(h)

(* No time passes between the end of a lease and the operation's being overdue. *)
OverdueAtOnce ==
  \A r \in Requests, k \in Kinds :
    op[r][k] = "running" /\ <<r, k>> \notin overdue => lease[r][k] >= 0

(* While the reconciler has not run for the whole of the time since its last   *)
(* tick, or no lease ended before that tick.                                   *)
TicksInTime ==
  process = "up" =>
    \/ steady <= Period - toTick
    \/ \A r \in Requests, k \in Kinds :
         op[r][k] = "running" => lease[r][k] >= toTick - Period

ServiceInv ==
  /\ IndInv
  /\ TimersOK
  /\ WorkersInTime
  /\ OverdueAtOnce
  /\ TicksInTime

-------------------------------------------------------------------------------
(* The service implements the workflow. *)

LEMMA ServiceStarts == ServiceInit => ServiceInv
<1> SUFFICES ASSUME ServiceInit PROVE ServiceInv
  OBVIOUS
<1> USE DEF ServiceInit
<1>1. IndInv
  BY IndInvInit
<1>2. Init /\ \A h \in Handlers : handler[h] = NoJob
  BY DEF Init
<1>3. TimersOK
  BY <1>2, TimesAreNatural DEF TimersOK, Init, Idle
<1>4. WorkersInTime
  BY <1>2 DEF WorkersInTime, Working
<1>5. OverdueAtOnce /\ TicksInTime
  BY <1>2 DEF Init, OverdueAtOnce, TicksInTime
<1> QED
  BY <1>1, <1>3, <1>4, <1>5 DEF ServiceInv

(* When the process is gone so are its handlers: a crash, or nothing at all.   *)
LEMMA GoneIsCrash ==
  ASSUME IndInv, Gone
  PROVE  [Next]_vars
<1>1. handler' = Idle /\ UNCHANGED <<table, wire, delivered>>
  BY DEF Gone
<1>2. CASE \E h \in Handlers : handler[h] # NoJob
  BY <1>1, <1>2 DEF Crash, Idle, Next
<1>3. CASE \A h \in Handlers : handler[h] = NoJob
  <2>1. handler = Idle
    BY <1>3 DEF Idle, IndInv, TypeOK
  <2> QED
    BY <1>1, <2>1 DEF vars, table
<1> QED
  BY <1>2, <1>3

LEMMA ServiceSteps ==
  ASSUME IndInv, [ServiceNext]_all
  PROVE  [Next]_vars
<1>1. CASE Start \/ Terminate \/ Tick \/ UNCHANGED all
  BY <1>1 DEF Start, Terminate, Tick, all
<1>2. CASE Exit \/ Die
  BY <1>2, GoneIsCrash DEF Exit, Die
<1>3. CASE Receive
  BY <1>3 DEF Receive, Next
<1>4. CASE ClaimAnyInTime
  BY <1>4 DEF ClaimAnyInTime, ClaimInTime, ClaimAny, Next
<1>5. ASSUME NEW h \in Handlers, CallInTime(h) \/ RecordInTime(h)
      PROVE  [Next]_vars
  BY <1>5 DEF CallInTime, RecordInTime, Work, Next
<1>6. CASE Network /\ UNCHANGED timers
  BY <1>6 DEF Next
<1>7. ASSUME NEW r \in Requests, NEW k \in Kinds, LeaseEnds(r, k)
      PROVE  [Next]_vars
  BY <1>7 DEF LeaseEnds, Expiry, Next
<1>8. CASE Reconcile
  BY <1>8 DEF Reconcile, Next
<1> QED
  BY <1>1, <1>2, <1>3, <1>4, <1>5, <1>6, <1>7, <1>8 DEF ServiceNext

(* Whatever processes and clocks do, the workflow is that of Onboarding: its   *)
(* theorems are theorems about the service.                                    *)
THEOREM ServiceImplementsOnboarding == ServiceSpec => Spec
<1>1. ServiceInit => Init
  BY DEF ServiceInit
<1>2. IndInv /\ [ServiceNext]_all => [Next]_vars /\ IndInv'
  BY ServiceSteps, IndInvNext
<1>3. Init => IndInv
  BY IndInvInit
<1> QED
  BY <1>1, <1>2, <1>3, PTL DEF ServiceSpec, Spec

-------------------------------------------------------------------------------
(* Handlers are in time. *)

LEMMA WorkersJob ==
  ASSUME ServiceInv, NEW h \in Handlers, Working(h)
  PROVE  /\ handler[h].request \in Requests /\ handler[h].kind \in Kinds
         /\ op[handler[h].request][handler[h].kind] = "running"
         /\ <<handler[h].request, handler[h].kind>> \notin overdue
         /\ lease[handler[h].request][handler[h].kind] \in Int
         /\ left[h] \in Nat /\ left[h] < lease[handler[h].request][handler[h].kind]
         /\ ~CallsReturned(h) => left[h] + TxTime < lease[handler[h].request][handler[h].kind]
         /\ handler[h] \in Job
<1>1. /\ handler[h].request \in Requests /\ handler[h].kind \in Kinds /\ handler[h] \in Job
  BY HandlerJob DEF ServiceInv, Working
<1>2. InTime(h)
  BY DEF ServiceInv, WorkersInTime
<1>3. /\ lease[handler[h].request][handler[h].kind] \in Int /\ left[h] \in Nat
  BY <1>1, TimesAreNatural DEF ServiceInv, TimersOK
<1> QED
  BY <1>1, <1>2, <1>3, TimesAreNatural DEF InTime

(* A handler that a step leaves alone, with its operation, stays in time. *)
LEMMA OthersStay ==
  ASSUME ServiceInv, NEW h \in Handlers, Working(h),
         handler'[h] = handler[h], left'[h] = left[h],
         op'[handler[h].request][handler[h].kind] = "running",
         <<handler[h].request, handler[h].kind>> \notin overdue',
         lease'[handler[h].request][handler[h].kind]
           = lease[handler[h].request][handler[h].kind]
  PROVE  InTime(h)'
<1>1. InTime(h)
  BY DEF ServiceInv, WorkersInTime
<1> QED
  BY <1>1 DEF InTime, CallsReturned

(* No two handlers have the same operation. *)
LEMMA Alone ==
  ASSUME IndInv, NEW g \in Handlers, NEW h \in Handlers, g # h,
         handler[g] # NoJob, handler[h] # NoJob
  PROVE  handler[g].request # handler[h].request \/ handler[g].kind # handler[h].kind
<1>1. Owns(h)
  BY DEF IndInv, HandlersOwnOperations
<1> QED
  BY <1>1 DEF Owns

(* What settles keeps the lease of what is running. *)
LEMMA Settling ==
  ASSUME NEW l, NEW o, NEW r \in Requests, NEW k \in Kinds
  PROVE  /\ o[r][k] = "running" => Settle(l, o)[r][k] = l[r][k]
         /\ o[r][k] # "running" => Settle(l, o)[r][k] = 0
  BY DEF Settle

LEMMA SettleType ==
  ASSUME NEW l \in [Requests -> [Kinds -> (-Period - 1)..Lease]], NEW o
  PROVE  Settle(l, o) \in [Requests -> [Kinds -> (-Period - 1)..Lease]]
<1>1. 0 \in (-Period - 1)..Lease
  BY TimesAreNatural
<1> QED
  BY <1>1 DEF Settle

-------------------------------------------------------------------------------
(* Each action keeps the invariant. *)

LEMMA QuietTimers ==
  ASSUME ServiceInv, UNCHANGED <<op, overdue, handler, timers>>
  PROVE  TimersOK' /\ WorkersInTime' /\ OverdueAtOnce' /\ TicksInTime'
<1>1. UNCHANGED <<process, toTick, steady, grace, lease, left>>
  BY DEF timers
<1> QED
  BY <1>1
  DEF ServiceInv, TimersOK, Idle, WorkersInTime, Working, InTime, CallsReturned,
      OverdueAtOnce, TicksInTime

LEMMA ProcessTimers ==
  ASSUME ServiceInv, Start \/ Terminate \/ Exit \/ Die
  PROVE  TimersOK' /\ WorkersInTime' /\ OverdueAtOnce' /\ TicksInTime'
<1> USE DEF ServiceInv
<1>1. CASE Start \/ Terminate
  <2>1. /\ UNCHANGED <<op, overdue, handler, lease, left>>
        /\ process' \in {"up", "draining"}
        /\ process' = "up" => steady' = 0 /\ toTick' = Period
    BY <1>1 DEF Start, Terminate, vars
  <2>2. toTick' \in 0..Period /\ steady' \in 0..(Period + 1) /\ grace' \in 0..Grace
    BY <1>1, TimesAreNatural DEF Start, Terminate, TimersOK
  <2>3. TimersOK'
    BY <2>1, <2>2 DEF TimersOK
  <2>4. WorkersInTime'
    BY <2>1 DEF WorkersInTime, Working, InTime, CallsReturned
  <2>5. OverdueAtOnce' /\ TicksInTime'
    BY <2>1, TimesAreNatural DEF OverdueAtOnce, TicksInTime
  <2> QED
    BY <2>3, <2>4, <2>5
<1>2. CASE Exit \/ Die
  <2>1. /\ process' = "down" /\ handler' = Idle /\ left' = [h \in Handlers |-> 0]
        /\ toTick' = 0 /\ steady' = 0 /\ grace' = 0
        /\ UNCHANGED <<op, overdue, lease>>
    BY <1>2 DEF Exit, Die, Gone, table
  <2>2. TimersOK'
    BY <2>1, TimesAreNatural DEF TimersOK, Idle
  <2>3. WorkersInTime' /\ OverdueAtOnce' /\ TicksInTime'
    BY <2>1 DEF WorkersInTime, Working, Idle, OverdueAtOnce, TicksInTime
  <2> QED
    BY <2>2, <2>3
<1> QED
  BY <1>1, <1>2

LEMMA ClaimTimers ==
  ASSUME ServiceInv, NEW h \in Handlers, NEW r \in Requests, NEW s \in Approvers,
         NEW k \in Kinds, NEW a \in BOOLEAN, ClaimInTime(h, r, s, k, a)
  PROVE  TimersOK' /\ WorkersInTime' /\ OverdueAtOnce' /\ TicksInTime'
<1> USE DEF ServiceInv
<1> DEFINE job == [request |-> r, kind |-> k, operator |-> s,
                   todo |-> CallsOf(r, k), waiting |-> {}, failed |-> FALSE]
<1>1. /\ process # "down" /\ handler[h] = NoJob /\ op[r][k] = "none"
      /\ op' = [op EXCEPT ![r][k] = "running"] /\ overdue' = overdue
      /\ handler' = IF a THEN [handler EXCEPT ![h] = job] ELSE handler
      /\ left' = [left EXCEPT ![h] = IF a THEN CallTime ELSE @]
      /\ UNCHANGED <<process, toTick, steady, grace>>
  BY DEF ClaimInTime, Claim
<1>2. job.request = r /\ job.kind = k
  OBVIOUS
<1> HIDE DEF job
<1>3. PICK waited \in 0..TxTime : lease' = [lease EXCEPT ![r][k] = Lease - waited]
  BY DEF ClaimInTime
<1>4. /\ Lease - waited \in (-Period - 1)..Lease /\ Lease - waited \in Int
      /\ CallTime + TxTime < Lease - waited /\ CallTime < Lease - waited
      /\ Lease - waited >= 0
  BY TimesAreNatural, LeaseIsLong
<1>5. /\ op'[r][k] = "running" /\ lease'[r][k] = Lease - waited
      /\ \A q \in Requests, j \in Kinds : ~(q = r /\ j = k) =>
           op'[q][j] = op[q][j] /\ lease'[q][j] = lease[q][j]
      /\ \A g \in Handlers : g # h => handler'[g] = handler[g] /\ left'[g] = left[g]
      /\ a => handler'[h] = job /\ left'[h] = CallTime
      /\ ~a => handler' = handler
  BY <1>1, <1>3 DEF IndInv, TypeOK, TimersOK
<1>6. <<r, k>> \notin overdue
  BY <1>1 DEF IndInv, Bookkeeping
<1>7. TimersOK'
  <2>1. lease' \in [Requests -> [Kinds -> (-Period - 1)..Lease]]
    BY <1>3, <1>4 DEF TimersOK
  <2>2. left' \in [Handlers -> 0..(CallTime + TxTime)]
    BY <1>1, TimesAreNatural DEF TimersOK
  <2> QED
    BY <1>1, <2>1, <2>2 DEF TimersOK
<1>8. WorkersInTime'
  <2> SUFFICES ASSUME NEW g \in Handlers, handler'[g] # NoJob PROVE InTime(g)'
    BY DEF WorkersInTime, Working
  <2>1. CASE g = h
    <3>1. a /\ handler'[g] = job /\ left'[g] = CallTime
      BY <1>1, <1>5, <2>1
    <3>2. left'[g] + (IF CallsReturned(g)' THEN 0 ELSE TxTime) < lease'[r][k]
      BY <1>4, <1>5, <3>1, TimesAreNatural
    <3> QED
      BY <1>1, <1>2, <1>5, <1>6, <3>1, <3>2 DEF InTime
  <2>2. CASE g # h
    <3>1. handler'[g] = handler[g] /\ left'[g] = left[g] /\ Working(g)
      BY <1>5, <2>2 DEF Working
    <3>2. /\ handler[g].request \in Requests /\ handler[g].kind \in Kinds
          /\ op[handler[g].request][handler[g].kind] = "running"
          /\ <<handler[g].request, handler[g].kind>> \notin overdue
      BY <3>1, WorkersJob
    <3>3. ~(handler[g].request = r /\ handler[g].kind = k)
      BY <1>1, <3>2
    <3> QED
      BY <1>1, <1>5, <3>1, <3>2, <3>3, OthersStay
  <2> QED
    BY <2>1, <2>2
<1>9. OverdueAtOnce'
  BY <1>1, <1>4, <1>5 DEF OverdueAtOnce
<1>10. TicksInTime'
  <2> SUFFICES ASSUME process = "up", ~(steady <= Period - toTick),
                      NEW q \in Requests, NEW j \in Kinds, op'[q][j] = "running"
               PROVE  lease'[q][j] >= toTick - Period
    BY <1>1 DEF TicksInTime
  <2>1. toTick \in Int /\ toTick <= Period
    BY DEF TimersOK
  <2>2. CASE q = r /\ j = k
    BY <1>4, <1>5, <2>1, <2>2, TimesAreNatural
  <2>3. CASE ~(q = r /\ j = k)
    BY <1>5, <2>3 DEF TicksInTime
  <2> QED
    BY <2>2, <2>3
<1> QED
  BY <1>7, <1>8, <1>9, <1>10

(* What a step of the calls does to the jobs. *)
LEMMA CallShape ==
  ASSUME IndInv, NEW h \in Handlers,
         \/ \E c \in Calls : Send(h, c) \/ CallSucceeds(h, c)
         \/ \E C \in SUBSET Calls : CallsFail(h, C)
  PROVE  /\ handler[h] # NoJob /\ ~CallsReturned(h)
         /\ handler'[h].request = handler[h].request
         /\ handler'[h].kind = handler[h].kind
         /\ \A g \in Handlers : g # h => handler'[g] = handler[g]
         /\ UNCHANGED <<op, overdue>>
<1>1. ASSUME NEW c \in Calls, Send(h, c)
      PROVE  /\ handler[h] # NoJob /\ ~CallsReturned(h)
             /\ handler'[h].request = handler[h].request
             /\ handler'[h].kind = handler[h].kind
             /\ \A g \in Handlers : g # h => handler'[g] = handler[g]
             /\ UNCHANGED <<op, overdue>>
  <2>1. handler[h] \in Job
    BY <1>1, HandlerJob DEF Send
  <2> QED
    BY <1>1, <2>1 DEF Send, table, CallsReturned, IndInv, TypeOK, Job
<1>2. ASSUME NEW c \in Calls, CallSucceeds(h, c)
      PROVE  /\ handler[h] # NoJob /\ ~CallsReturned(h)
             /\ handler'[h].request = handler[h].request
             /\ handler'[h].kind = handler[h].kind
             /\ \A g \in Handlers : g # h => handler'[g] = handler[g]
             /\ UNCHANGED <<op, overdue>>
  <2>1. handler[h] \in Job
    BY <1>2, HandlerJob DEF CallSucceeds
  <2> QED
    BY <1>2, <2>1 DEF CallSucceeds, table, CallsReturned, IndInv, TypeOK, Job
<1>3. ASSUME NEW C \in SUBSET Calls, CallsFail(h, C)
      PROVE  /\ handler[h] # NoJob /\ ~CallsReturned(h)
             /\ handler'[h].request = handler[h].request
             /\ handler'[h].kind = handler[h].kind
             /\ \A g \in Handlers : g # h => handler'[g] = handler[g]
             /\ UNCHANGED <<op, overdue>>
  <2>1. handler[h] \in Job
    BY <1>3, HandlerJob DEF CallsFail
  <2>2. /\ handler'[h].request = handler[h].request
        /\ handler'[h].kind = handler[h].kind
        /\ \A g \in Handlers : g # h => handler'[g] = handler[g]
    BY <1>3, <2>1 DEF CallsFail, IndInv, TypeOK, Job
  <2>3. handler[h] # NoJob /\ ~CallsReturned(h) /\ UNCHANGED <<op, overdue>>
    BY <1>3 DEF CallsFail, table, CallsReturned
  <2> QED
    BY <2>2, <2>3
<1> QED
  BY <1>1, <1>2, <1>3

LEMMA CallTimers ==
  ASSUME ServiceInv, NEW h \in Handlers, CallInTime(h)
  PROVE  TimersOK' /\ WorkersInTime' /\ OverdueAtOnce' /\ TicksInTime'
<1> USE DEF ServiceInv
<1>1. /\ handler[h] # NoJob /\ ~CallsReturned(h)
      /\ handler'[h].request = handler[h].request
      /\ handler'[h].kind = handler[h].kind
      /\ \A g \in Handlers : g # h => handler'[g] = handler[g]
      /\ op' = op /\ overdue' = overdue
  BY CallShape DEF CallInTime
<1>2. /\ left' = [left EXCEPT ![h] = IF CallsReturned(h)' THEN TxTime ELSE @]
      /\ UNCHANGED <<process, toTick, steady, grace, lease>>
  BY DEF CallInTime
<1>3. /\ \A g \in Handlers : g # h => left'[g] = left[g]
      /\ left'[h] = IF CallsReturned(h)' THEN TxTime ELSE left[h]
  BY <1>2 DEF TimersOK
<1>4. process # "down"
  BY <1>1 DEF TimersOK, Idle
<1>5. TimersOK'
  <2>1. left' \in [Handlers -> 0..(CallTime + TxTime)]
    BY <1>2, TimesAreNatural DEF TimersOK
  <2> QED
    BY <1>2, <1>4, <2>1 DEF TimersOK
<1>6. InTime(h)'
  <2> DEFINE r == handler[h].request
             k == handler[h].kind
  <2>1. /\ op[r][k] = "running" /\ <<r, k>> \notin overdue /\ lease[r][k] \in Int
        /\ left[h] \in Nat /\ left[h] + TxTime < lease[r][k]
    BY <1>1, WorkersJob DEF Working
  <2>2. left'[h] + (IF CallsReturned(h)' THEN 0 ELSE TxTime) < lease[r][k]
    <3>1. CASE CallsReturned(h)'
      BY <1>3, <2>1, <3>1, TimesAreNatural
    <3>2. CASE ~CallsReturned(h)'
      BY <1>3, <2>1, <3>2
    <3> QED
      BY <3>1, <3>2
  <2> QED
    BY <1>1, <1>2, <2>1, <2>2 DEF InTime
<1>7. WorkersInTime'
  <2> SUFFICES ASSUME NEW g \in Handlers, handler'[g] # NoJob, g # h PROVE InTime(g)'
    BY <1>6 DEF WorkersInTime, Working
  <2>1. handler'[g] = handler[g] /\ left'[g] = left[g] /\ Working(g)
    BY <1>1, <1>3 DEF Working
  <2>2. /\ op[handler[g].request][handler[g].kind] = "running"
        /\ <<handler[g].request, handler[g].kind>> \notin overdue
    BY <2>1, WorkersJob
  <2> QED
    BY <1>1, <1>2, <2>1, <2>2, OthersStay
<1>8. OverdueAtOnce' /\ TicksInTime'
  BY <1>1, <1>2 DEF OverdueAtOnce, TicksInTime
<1> QED
  BY <1>5, <1>7, <1>8

(* A step that settles some operations, none of them a worker's, and ends some *)
(* workers. *)
LEMMA SettleTimers ==
  ASSUME ServiceInv, UNCHANGED <<process, toTick, steady, grace>>,
         lease' = Settle(lease, op'),
         NEW h \in Handlers,
         handler' = [handler EXCEPT ![h] = NoJob],
         left' = [left EXCEPT ![h] = 0],
         process # "down",
         overdue' \subseteq overdue,
         \A r \in Requests, k \in Kinds :
           /\ op'[r][k] = "running" => op[r][k] = "running"
           /\ op'[r][k] = "running" /\ <<r, k>> \in overdue => <<r, k>> \in overdue'
           /\ (r # handler[h].request \/ k # handler[h].kind) => op'[r][k] = op[r][k],
         handler[h] # NoJob
  PROVE  TimersOK' /\ WorkersInTime' /\ OverdueAtOnce' /\ TicksInTime'
<1> USE DEF ServiceInv
<1>1. lease' \in [Requests -> [Kinds -> (-Period - 1)..Lease]]
  BY SettleType DEF TimersOK
<1>2. \A r \in Requests, k \in Kinds :
        op'[r][k] = "running" => lease'[r][k] = lease[r][k] /\ op[r][k] = "running"
  <2>1. \A r \in Requests, k \in Kinds :
          op'[r][k] = "running" => lease'[r][k] = lease[r][k]
    BY Settling
  <2> QED
    BY <2>1
<1>3. /\ handler'[h] = NoJob
      /\ \A g \in Handlers : g # h => handler'[g] = handler[g] /\ left'[g] = left[g]
  BY DEF IndInv, TypeOK, TimersOK
<1>4. TimersOK'
  <2>1. left' \in [Handlers -> 0..(CallTime + TxTime)]
    BY TimesAreNatural DEF TimersOK
  <2> QED
    BY <1>1, <2>1 DEF TimersOK
<1>5. WorkersInTime'
  <2> SUFFICES ASSUME NEW g \in Handlers, handler'[g] # NoJob PROVE InTime(g)'
    BY DEF WorkersInTime, Working
  <2>1. g # h /\ handler'[g] = handler[g] /\ left'[g] = left[g] /\ Working(g)
    BY <1>3 DEF Working
  <2>2. /\ handler[g].request \in Requests /\ handler[g].kind \in Kinds
        /\ op[handler[g].request][handler[g].kind] = "running"
        /\ <<handler[g].request, handler[g].kind>> \notin overdue
    BY <2>1, WorkersJob
  <2>3. handler[g].request # handler[h].request \/ handler[g].kind # handler[h].kind
    BY <2>1, Alone DEF Working
  <2>4. op'[handler[g].request][handler[g].kind] = "running"
    BY <2>2, <2>3
  <2>5. lease'[handler[g].request][handler[g].kind] = lease[handler[g].request][handler[g].kind]
    BY <1>2, <2>2, <2>4
  <2> QED
    BY <2>1, <2>2, <2>4, <2>5, OthersStay
<1>6. OverdueAtOnce'
  BY <1>2 DEF OverdueAtOnce
<1>7. TicksInTime'
  BY <1>2 DEF TicksInTime
<1> QED
  BY <1>4, <1>5, <1>6, <1>7

LEMMA RecordTimers ==
  ASSUME ServiceInv, NEW h \in Handlers, RecordInTime(h)
  PROVE  TimersOK' /\ WorkersInTime' /\ OverdueAtOnce' /\ TicksInTime'
<1> DEFINE r == handler[h].request
           k == handler[h].kind
<1>1. handler[h] # NoJob /\ handler' = [handler EXCEPT ![h] = NoJob]
  BY DEF RecordInTime, RecordResult, RecordFails, CallsReturned
<1>2. r \in Requests /\ k \in Kinds
  BY <1>1, WorkersJob DEF Working
<1>3. process # "down"
  BY <1>1 DEF ServiceInv, TimersOK, Idle
<1>4. /\ UNCHANGED <<process, toTick, steady, grace>>
      /\ lease' = Settle(lease, op') /\ left' = [left EXCEPT ![h] = 0]
  BY DEF RecordInTime
<1>5. /\ overdue' \subseteq overdue
      /\ \A q \in Requests, j \in Kinds :
           /\ op'[q][j] = "running" => op[q][j] = "running"
           /\ op'[q][j] = "running" /\ <<q, j>> \in overdue => <<q, j>> \in overdue'
           /\ (q # r \/ j # k) => op'[q][j] = op[q][j]
  <2>1. CASE RecordResult(h)
    <3> DEFINE outcome == IF handler[h].failed THEN "ambiguous" ELSE "succeeded"
    <3>1. op' = [op EXCEPT ![r][k] = outcome] /\ overdue' = overdue \ {<<r, k>>}
      BY <2>1 DEF RecordResult
    <3>2. outcome # "running"
      OBVIOUS
    <3> HIDE DEF outcome
    <3>3. /\ op'[r][k] = outcome
          /\ \A q \in Requests, j \in Kinds : (q # r \/ j # k) => op'[q][j] = op[q][j]
      BY <1>2, <3>1 DEF ServiceInv, IndInv, TypeOK
    <3> HIDE DEF r, k
    <3> QED
      BY <3>1, <3>2, <3>3
  <2>2. CASE RecordFails(h)
    BY <2>2 DEF RecordFails, table
  <2> QED
    BY <2>1, <2>2 DEF RecordInTime
<1> QED
  BY <1>1, <1>3, <1>4, <1>5, SettleTimers

LEMMA LeaseTimers ==
  ASSUME ServiceInv, NEW r \in Requests, NEW k \in Kinds, LeaseEnds(r, k)
  PROVE  TimersOK' /\ WorkersInTime' /\ OverdueAtOnce' /\ TicksInTime'
<1> USE DEF ServiceInv
<1>1. /\ lease[r][k] <= 0 /\ overdue' = overdue \cup {<<r, k>>}
      /\ op' = op /\ handler' = handler
      /\ UNCHANGED <<process, toTick, steady, grace, lease, left>>
  BY DEF LeaseEnds, LeaseRunsOut, timers
<1>2. WorkersInTime'
  <2> SUFFICES ASSUME NEW h \in Handlers, Working(h) PROVE InTime(h)'
    BY <1>1 DEF WorkersInTime, Working
  <2>1. /\ op[handler[h].request][handler[h].kind] = "running"
        /\ <<handler[h].request, handler[h].kind>> \notin overdue
        /\ lease[handler[h].request][handler[h].kind] > 0
    <3>1. /\ op[handler[h].request][handler[h].kind] = "running"
          /\ <<handler[h].request, handler[h].kind>> \notin overdue
          /\ lease[handler[h].request][handler[h].kind] \in Int
          /\ left[h] \in Nat /\ left[h] < lease[handler[h].request][handler[h].kind]
      BY WorkersJob
    <3> QED
      BY <3>1
  <2>2. <<handler[h].request, handler[h].kind>> # <<r, k>>
    <3>1. lease[r][k] \in Int
      BY DEF TimersOK
    <3> QED
      BY <1>1, <2>1, <3>1
  <2> QED
    BY <1>1, <2>1, <2>2, OthersStay
<1>3. TimersOK' /\ OverdueAtOnce' /\ TicksInTime'
  BY <1>1 DEF TimersOK, Idle, OverdueAtOnce, TicksInTime
<1> QED
  BY <1>2, <1>3

LEMMA ReconcileTimers ==
  ASSUME ServiceInv, Reconcile
  PROVE  TimersOK' /\ WorkersInTime' /\ OverdueAtOnce' /\ TicksInTime'
<1> USE DEF ServiceInv
<1>1. /\ process = "up" /\ toTick' = Period /\ lease' = Settle(lease, op')
      /\ UNCHANGED <<process, grace, left>>
  BY DEF Reconcile
<1>2. \A h \in Handlers : Working(h) =>
        <<handler[h].request, handler[h].kind>> \notin overdue
  BY WorkersJob
<1>3. \A r \in Requests, k \in Kinds : <<r, k>> \in overdue => ~Locked(r, k)
  BY <1>2 DEF Locked, CallsReturned, Working
<1>4. /\ handler' = handler /\ steady' \in {steady, 0}
      /\ overdue' \subseteq overdue
      /\ \A r \in Requests, k \in Kinds :
           /\ <<r, k>> \notin overdue => op'[r][k] = op[r][k]
           /\ op'[r][k] = "running" => op[r][k] = "running"
           /\ op'[r][k] = "running" /\ <<r, k>> \in overdue => <<r, k>> \in overdue'
           /\ op'[r][k] = "running" /\ <<r, k>> \in overdue => steady' = 0
  <2>1. ASSUME NEW S \in SUBSET overdue, Reap(S), steady' = steady
        PROVE  /\ handler' = handler /\ overdue' = {}
               /\ \A r \in Requests, k \in Kinds :
                    /\ <<r, k>> \in overdue => op'[r][k] = "ambiguous"
                    /\ <<r, k>> \notin overdue => op'[r][k] = op[r][k]
    <3>1. overdue \subseteq Requests \X Kinds
      BY DEF IndInv, TypeOK
    <3>2. S = overdue
      <4> SUFFICES ASSUME NEW o \in overdue PROVE o \in S
        OBVIOUS
      <4> PICK r \in Requests, k \in Kinds : o = <<r, k>>
        BY <3>1
      <4>1. <<r, k>> \in overdue \ S => Locked(r, k)
        BY <2>1 DEF Reap
      <4> QED
        BY <1>3, <4>1
    <3> QED
      BY <2>1, <3>2 DEF Reap
  <2>2. ASSUME \A o \in overdue : Locked(o[1], o[2]), UNCHANGED <<vars, steady>>
        PROVE  handler' = handler /\ overdue = {} /\ overdue' = {} /\ op' = op /\ steady' = steady
    <3>1. overdue \subseteq Requests \X Kinds
      BY DEF IndInv, TypeOK
    <3>2. overdue = {}
      <4> SUFFICES ASSUME NEW o \in overdue PROVE FALSE
        OBVIOUS
      <4> PICK r \in Requests, k \in Kinds : o = <<r, k>>
        BY <3>1
      <4>1. Locked(r, k)
        BY <2>2
      <4> QED
        BY <1>3, <4>1
    <3> QED
      BY <2>2, <3>2 DEF vars
  <2>3. ASSUME steady' = 0, UNCHANGED vars
        PROVE  handler' = handler /\ overdue' = overdue /\ op' = op
    BY <2>3 DEF vars
  <2>4. \/ (\E S \in SUBSET overdue : Reap(S)) /\ steady' = steady
        \/ (\A o \in overdue : Locked(o[1], o[2])) /\ UNCHANGED <<vars, steady>>
        \/ steady' = 0 /\ UNCHANGED vars
    BY DEF Reconcile, ReapAny
  <2>5. CASE (\E S \in SUBSET overdue : Reap(S)) /\ steady' = steady
    BY <2>1, <2>5
  <2>6. CASE (\A o \in overdue : Locked(o[1], o[2])) /\ UNCHANGED <<vars, steady>>
    BY <2>2, <2>6
  <2>7. CASE steady' = 0 /\ UNCHANGED vars
    BY <2>3, <2>7
  <2> QED
    BY <2>4, <2>5, <2>6, <2>7
<1>5. \A r \in Requests, k \in Kinds :
        op'[r][k] = "running" => lease'[r][k] = lease[r][k]
  BY <1>1, Settling
<1>6. TimersOK'
  <2>1. lease' \in [Requests -> [Kinds -> (-Period - 1)..Lease]]
    BY <1>1, SettleType DEF TimersOK
  <2>2. steady' \in 0..(Period + 1) /\ toTick' \in 0..Period
    BY <1>1, <1>4, TimesAreNatural DEF TimersOK
  <2> QED
    BY <1>1, <1>4, <2>1, <2>2 DEF TimersOK
<1>7. WorkersInTime'
  <2> SUFFICES ASSUME NEW h \in Handlers, Working(h) PROVE InTime(h)'
    BY <1>4 DEF WorkersInTime, Working
  <2>1. /\ handler[h].request \in Requests /\ handler[h].kind \in Kinds
        /\ op[handler[h].request][handler[h].kind] = "running"
        /\ <<handler[h].request, handler[h].kind>> \notin overdue
    BY WorkersJob
  <2>2. op'[handler[h].request][handler[h].kind] = "running"
    BY <1>4, <2>1
  <2> QED
    BY <1>1, <1>4, <1>5, <2>1, <2>2, OthersStay
<1>8. OverdueAtOnce'
  BY <1>4, <1>5 DEF OverdueAtOnce
<1>9. TicksInTime'
  <2> SUFFICES ASSUME ~(steady' <= Period - toTick'),
                      NEW r \in Requests, NEW k \in Kinds, op'[r][k] = "running"
               PROVE  lease'[r][k] >= toTick' - Period
    BY DEF TicksInTime
  <2>1. steady' # 0
    BY <1>1, TimesAreNatural
  <2>2. <<r, k>> \notin overdue /\ op[r][k] = "running"
    BY <1>4, <2>1
  <2>3. lease[r][k] >= 0 /\ lease[r][k] \in Int
    BY <2>2 DEF OverdueAtOnce, TimersOK
  <2> QED
    BY <1>1, <1>5, <2>3, TimesAreNatural
<1> QED
  BY <1>6, <1>7, <1>8, <1>9

LEMMA TickTimers ==
  ASSUME ServiceInv, Tick
  PROVE  TimersOK' /\ WorkersInTime' /\ OverdueAtOnce' /\ TicksInTime'
<1> USE DEF ServiceInv
<1> DEFINE aged == [r \in Requests |-> [k \in Kinds |-> AtLeast(-Period - 1, lease[r][k] - 1)]]
<1>1. /\ op' = op /\ overdue' = overdue /\ handler' = handler /\ process' = process
      /\ toTick' = AtLeast(0, toTick - 1) /\ grace' = AtLeast(0, grace - 1)
      /\ steady' = IF process = "up" THEN AtMost(Period + 1, steady + 1) ELSE 0
      /\ lease' = Settle(aged, op)
      /\ left' = [h \in Handlers |-> AtLeast(0, left[h] - 1)]
  BY DEF Tick, vars
<1>2. /\ process = "up" => toTick > 0
      /\ \A h \in Handlers : Working(h) => left[h] > 0
      /\ \A r \in Requests, k \in Kinds :
           op[r][k] = "running" /\ lease[r][k] <= 0 => <<r, k>> \in overdue
  BY DEF Tick
<1>3. \A r \in Requests, k \in Kinds :
        lease[r][k] \in (-Period - 1)..Lease /\ lease[r][k] \in Int
  BY DEF TimersOK
<1>4. \A r \in Requests, k \in Kinds :
        /\ aged[r][k] \in (-Period - 1)..Lease /\ aged[r][k] \in Int
        /\ aged[r][k] >= lease[r][k] - 1
        /\ lease[r][k] > 0 => aged[r][k] = lease[r][k] - 1
  BY <1>3, TimesAreNatural DEF AtLeast
<1>5. aged \in [Requests -> [Kinds -> (-Period - 1)..Lease]]
  BY <1>4
<1> HIDE DEF aged
<1>6. \A r \in Requests, k \in Kinds : op[r][k] = "running" => lease'[r][k] = aged[r][k]
  BY <1>1, Settling
<1>7. TimersOK'
  <2>1. lease' \in [Requests -> [Kinds -> (-Period - 1)..Lease]]
    BY <1>1, <1>5, SettleType
  <2>2. /\ toTick' \in 0..Period /\ grace' \in 0..Grace /\ steady' \in 0..(Period + 1)
    BY <1>1, TimesAreNatural DEF TimersOK, AtLeast, AtMost
  <2>3. left' \in [Handlers -> 0..(CallTime + TxTime)]
    BY <1>1, TimesAreNatural DEF TimersOK, AtLeast
  <2> QED
    BY <1>1, <2>1, <2>2, <2>3 DEF TimersOK, Idle
<1>8. WorkersInTime'
  <2> SUFFICES ASSUME NEW h \in Handlers, Working(h) PROVE InTime(h)'
    BY <1>1 DEF WorkersInTime, Working
  <2> DEFINE r == handler[h].request
             k == handler[h].kind
  <2>1. /\ r \in Requests /\ k \in Kinds
        /\ op[r][k] = "running" /\ <<r, k>> \notin overdue
        /\ lease[r][k] \in Int /\ left[h] \in Nat /\ left[h] < lease[r][k]
        /\ ~CallsReturned(h) => left[h] + TxTime < lease[r][k]
    BY WorkersJob
  <2>2. left'[h] = left[h] - 1
    BY <1>1, <1>2, <2>1 DEF AtLeast
  <2>3. lease'[r][k] = lease[r][k] - 1
    BY <1>4, <1>6, <2>1
  <2>4. CallsReturned(h)' <=> CallsReturned(h)
    BY <1>1 DEF CallsReturned
  <2>5. left'[h] + (IF CallsReturned(h)' THEN 0 ELSE TxTime) < lease'[r][k]
    BY <2>1, <2>2, <2>3, <2>4, TimesAreNatural
  <2> QED
    BY <1>1, <2>1, <2>5 DEF InTime
<1>9. OverdueAtOnce'
  <2> SUFFICES ASSUME NEW r \in Requests, NEW k \in Kinds,
                      op[r][k] = "running", <<r, k>> \notin overdue
               PROVE  lease'[r][k] >= 0
    BY <1>1 DEF OverdueAtOnce
  <2> QED
    BY <1>2, <1>3, <1>4, <1>6
<1>10. TicksInTime'
  <2> SUFFICES ASSUME process = "up"
               PROVE  \/ steady' <= Period - toTick'
                      \/ \A r \in Requests, k \in Kinds :
                           op[r][k] = "running" => lease'[r][k] >= toTick' - Period
    BY <1>1 DEF TicksInTime
  <2>1. /\ toTick \in Nat /\ steady \in Nat /\ toTick' = toTick - 1
        /\ steady' <= steady + 1 /\ steady' \in Nat
    BY <1>1, <1>2, TimesAreNatural DEF TimersOK, AtLeast, AtMost
  <2>2. CASE steady <= Period - toTick
    BY <2>1, <2>2, TimesAreNatural
  <2>3. CASE \A r \in Requests, k \in Kinds :
               op[r][k] = "running" => lease[r][k] >= toTick - Period
    <3> SUFFICES ASSUME NEW r \in Requests, NEW k \in Kinds, op[r][k] = "running"
                 PROVE  lease'[r][k] >= toTick' - Period
      OBVIOUS
    <3>1. lease[r][k] >= toTick - Period /\ lease'[r][k] = aged[r][k]
      BY <1>6, <2>3
    <3> QED
      BY <1>3, <1>4, <2>1, <3>1, TimesAreNatural
  <2> QED
    BY <2>2, <2>3 DEF TicksInTime
<1> QED
  BY <1>7, <1>8, <1>9, <1>10

LEMMA ServiceInductive == ServiceInv /\ [ServiceNext]_all => ServiceInv'
<1> SUFFICES ASSUME ServiceInv, [ServiceNext]_all PROVE ServiceInv'
  OBVIOUS
<1>1. IndInv'
  BY ServiceSteps, IndInvNext DEF ServiceInv
<1>2. TimersOK' /\ WorkersInTime' /\ OverdueAtOnce' /\ TicksInTime'
  <2>1. CASE Start \/ Terminate \/ Exit \/ Die
    BY <2>1, ProcessTimers
  <2>2. CASE Receive
    BY <2>2, QuietTimers DEF Receive, SubmitAny, Submit, DecideAny, Decide
  <2>3. CASE ClaimAnyInTime
    BY <2>3, ClaimTimers DEF ClaimAnyInTime
  <2>4. ASSUME NEW h \in Handlers, CallInTime(h) \/ RecordInTime(h)
        PROVE  TimersOK' /\ WorkersInTime' /\ OverdueAtOnce' /\ TicksInTime'
    BY <2>4, CallTimers, RecordTimers
  <2>5. CASE Network /\ UNCHANGED timers
    BY <2>5, QuietTimers DEF Network, Deliver, Lose, table
  <2>6. ASSUME NEW r \in Requests, NEW k \in Kinds, LeaseEnds(r, k)
        PROVE  TimersOK' /\ WorkersInTime' /\ OverdueAtOnce' /\ TicksInTime'
    BY <2>6, LeaseTimers
  <2>7. CASE Reconcile
    BY <2>7, ReconcileTimers
  <2>8. CASE Tick
    BY <2>8, TickTimers
  <2>9. CASE UNCHANGED all
    BY <2>9, QuietTimers DEF all, vars
  <2> QED
    BY <2>1, <2>2, <2>3, <2>4, <2>5, <2>6, <2>7, <2>8, <2>9 DEF ServiceNext
<1> QED
  BY <1>1, <1>2 DEF ServiceInv

THEOREM ServiceInvariance == ServiceSpec => []ServiceInv
<1> QED
  BY ServiceStarts, ServiceInductive, PTL DEF ServiceSpec

-------------------------------------------------------------------------------
(* No context, transaction, ticker or shutdown outlasts its time. *)
THEOREM TimersAreBounded == ServiceSpec => []TimersOK
<1>1. ServiceInv => TimersOK
  BY DEF ServiceInv
<1> QED
  BY <1>1, ServiceInvariance, PTL

LEMMA Covered == ServiceInv => LeaseCoversHandler
<1> SUFFICES ASSUME ServiceInv, NEW h \in Handlers, Working(h)
             PROVE  /\ <<handler[h].request, handler[h].kind>> \notin overdue
                    /\ op[handler[h].request][handler[h].kind] = "running"
                    /\ status[handler[h].request] = Expected(handler[h].kind)
  BY DEF LeaseCoversHandler
<1> QED
  BY WorkersJob, RunningMeansExpected DEF ServiceInv, IndInv

(* The reconciler never settles an operation that a handler is working on,     *)
(* whose result is still asked for when it comes, for all times with           *)
(* TxTime + CallTime + TxTime < Lease.                                         *)
THEOREM LeaseOutlastsHandler == ServiceSpec => []LeaseCoversHandler
<1> QED
  BY Covered, ServiceInvariance, PTL

(* A handler whose calls have returned meets each condition of its second      *)
(* transaction.                                                                *)
ResultIsAccepted ==
  \A h \in Handlers :
    CallsReturned(h) =>
      LET r    == handler[h].request
          k    == handler[h].kind
          text == IF handler[h].failed THEN Ambiguous(k) ELSE Achieved(k)
      IN  /\ op[r][k] = "running"
          /\ status[r] = Expected(k)
          /\ text \in DecisionCheck => MayRecord(r, text)
          /\ SharedByNobody(r) => UniqueStatus([status EXCEPT ![r] = text], row)

(* In a service whose times are right, the result of a handler that lives is   *)
(* refused only by the CHECK on decision or for another request of the same    *)
(* candidate: not by the reconciler, another handler or an earlier process.    *)
THEOREM ResultsAreAccepted == ServiceSpec => []ResultIsAccepted
<1>1. ServiceInv /\ ResultIsRecordable => ResultIsAccepted
  <2> SUFFICES ASSUME ServiceInv, ResultIsRecordable, NEW h \in Handlers, CallsReturned(h)
               PROVE  LET r    == handler[h].request
                          k    == handler[h].kind
                          text == IF handler[h].failed THEN Ambiguous(k) ELSE Achieved(k)
                      IN  /\ op[r][k] = "running"
                          /\ status[r] = Expected(k)
                          /\ text \in DecisionCheck => MayRecord(r, text)
                          /\ SharedByNobody(r) => UniqueStatus([status EXCEPT ![r] = text], row)
    BY DEF ResultIsAccepted
  <2>1. /\ handler[h].request \in Requests /\ handler[h].kind \in Kinds
        /\ op[handler[h].request][handler[h].kind] = "running"
    BY WorkersJob DEF CallsReturned, Working
  <2> QED
    BY <2>1 DEF ResultIsRecordable
<1> QED
  BY <1>1, ServiceInvariance, ServiceImplementsOnboarding, Recordable, PTL

(* What holds of the workflow holds of the service, in every process and after *)
(* every crash, restart and shutdown.                                          *)
THEOREM ServiceIsSafe ==
  ServiceSpec => /\ [](TablesAgree /\ RecordedSuccessIsReal)
                 /\ [](CallsReachKeycloakAtMostOnce /\ EffectsAreApproved)
                 /\ SettledForGood
                 /\ ImplementsLifecycle
<1> QED
  BY ServiceImplementsOnboarding, TablesAlwaysAgree, SuccessIsReal, AtMostOnce, MakerChecker,
     Settled, Refinement, PTL

(* A process that has reached the database for a period has no operation       *)
(* running whose lease ended more than a period ago.                           *)
THEOREM SettlesInTime == ServiceSpec => []SettledInTime
<1>1. ServiceInv => SettledInTime
  <2> SUFFICES ASSUME ServiceInv, NEW r \in Requests, NEW k \in Kinds,
                      op[r][k] = "running", process = "up", ~(steady <= Period)
               PROVE  -lease[r][k] <= Period
    BY DEF SettledInTime
  <2>1. toTick \in Nat /\ steady \in Nat /\ lease[r][k] \in Int
    BY TimesAreNatural DEF ServiceInv, TimersOK
  <2>2. ~(steady <= Period - toTick)
    BY <2>1, TimesAreNatural
  <2>3. lease[r][k] >= toTick - Period
    BY <2>2 DEF ServiceInv, TicksInTime
  <2> QED
    BY <2>1, <2>3, TimesAreNatural
<1> QED
  BY <1>1, ServiceInvariance, PTL

===============================================================================
