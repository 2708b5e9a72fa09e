-------------------------------- MODULE Service --------------------------------
(* The onboarding workflow inside the processes that run it, and in time: a    *)
(* process starts with a reconciler, serves, is told to stop and drains, or    *)
(* dies; operations have a lease, handlers a context, the reconciler a ticker. *)
(* Every step of the workflow is one of Onboarding's, taken when the process   *)
(* and the clocks let it.                                                      *)
EXTENDS Onboarding

CONSTANTS
  Lease,    \* lease_until of a claim, 60 s
  CallTime, \* the handler's context for its Keycloak calls, 20 s
  TxTime,   \* the longest a statement or transaction takes (not in the code)
  Period,   \* the reconciler's ticker, 15 s
  Grace     \* the time Shutdown waits for handlers, 20 s

ASSUME TimesAreNatural ==
  /\ TxTime \in Nat /\ Grace \in Nat
  /\ Lease \in Nat \ {0} /\ CallTime \in Nat \ {0} /\ Period \in Nat \ {0}

(* A handler's claim, calls and result take less than the lease. *)
ASSUME LeaseIsLong == TxTime + CallTime + TxTime < Lease

VARIABLES
  process, \* "down", "up", or "draining": told to stop, waiting for handlers
  toTick,  \* the time to the reconciler's next tick
  steady,  \* how long the reconciler has run since its start or last failure
  grace,   \* what is left of Grace
  lease,   \* lease_until - now() of each operation, negative once it passed
  left     \* what is left of each handler's context, then of its transaction

timers == <<process, toTick, steady, grace, lease, left>>
all == <<vars, timers>>

Idle == [h \in Handlers |-> NoJob]
Working(h) == handler[h] # NoJob
Settle(l, o) == [r \in Requests |-> [k \in Kinds |->
                  IF o[r][k] = "running" THEN l[r][k] ELSE 0]]
AtLeast(bound, t) == IF t < bound THEN bound ELSE t
AtMost(bound, t)  == IF t > bound THEN bound ELSE t

-------------------------------------------------------------------------------
(* Mistakes this code could have made, each in place of the definition below    *)
(* whose name it starts with.                                                  *)

(* The claim leases the operation for as long as the calls may take. *)
ClaimInTimeForCalls(h, r, s, k, acked) ==
  /\ process # "down"
  /\ Claim(h, r, s, k, acked)
  /\ lease' = [lease EXCEPT ![r][k] = CallTime]
  /\ left' = [left EXCEPT ![h] = IF acked THEN CallTime ELSE @]
  /\ UNCHANGED <<process, toTick, steady, grace>>

(* The result is recorded with no regard to when its transaction began. *)
CallInTimeForEver(h) ==
  /\ \E c \in Calls : Send(h, c) \/ CallSucceeds(h, c)
  /\ left' = [left EXCEPT ![h] = @ + TxTime]
  /\ UNCHANGED <<process, toTick, steady, grace, lease>>

(* The reconciler looks for expired invitations only. *)
ReconcileInvitations ==
  /\ process = "up"
  /\ toTick = 0
  /\ \/ Reap({o \in overdue : o[2] = "provision"}) /\ UNCHANGED steady
     \/ (\A o \in overdue : o[2] # "provision") /\ UNCHANGED <<vars, steady>>
     \/ steady' = 0 /\ UNCHANGED vars
  /\ toTick' = Period
  /\ lease' = Settle(lease, op')
  /\ UNCHANGED <<process, grace, left>>

-------------------------------------------------------------------------------
ServiceInit ==
  /\ Init
  /\ process = "down"
  /\ toTick = 0 /\ steady = 0 /\ grace = 0
  /\ lease = [r \in Requests |-> [k \in Kinds |-> 0]]
  /\ left = [h \in Handlers |-> 0]

(* main: configuration, database and client are had, and the reconciler and    *)
(* the server start.  A start that fails leaves nothing running.               *)
Start ==
  /\ process = "down"
  /\ process' = "up"
  /\ toTick' = Period
  /\ steady' = 0
  /\ UNCHANGED <<vars, grace, lease, left>>

(* SIGTERM cancels the reconciler's context, and Shutdown begins to wait. *)
Terminate ==
  /\ process = "up"
  /\ process' = "draining"
  /\ grace' = Grace
  /\ toTick' = 0 /\ steady' = 0
  /\ UNCHANGED <<vars, lease, left>>

Gone ==
  /\ process' = "down"
  /\ handler' = Idle
  /\ left' = [h \in Handlers |-> 0]
  /\ toTick' = 0 /\ steady' = 0 /\ grace' = 0
  /\ UNCHANGED <<table, wire, delivered, lease>>

(* Shutdown returns once no handler is left, or its time is up and log.Fatal   *)
(* ends the process.                                                           *)
Exit ==
  /\ process = "draining"
  /\ handler = Idle \/ grace = 0
  /\ Gone

Die == process # "down" /\ Gone

(* Requests that were accepted before the signal are still served after it. *)
Receive ==
  /\ process # "down"
  /\ SubmitAny \/ DecideAny
  /\ UNCHANGED timers

(* lease_until is counted from the start of the claim's statement, whose reply *)
(* reaches the handler up to TxTime later; the context starts then.            *)
ClaimInTime(h, r, s, k, acked) ==
  /\ process # "down"
  /\ Claim(h, r, s, k, acked)
  /\ \E waited \in 0..TxTime : lease' = [lease EXCEPT ![r][k] = Lease - waited]
  /\ left' = [left EXCEPT ![h] = IF acked THEN CallTime ELSE @]
  /\ UNCHANGED <<process, toTick, steady, grace>>

(* The calls go on until the context is done; then the result is recorded      *)
(* under the request's own context.                                            *)
CallInTime(h) ==
  /\ \/ \E c \in Calls : Send(h, c) \/ CallSucceeds(h, c)
     \/ \E C \in SUBSET Calls : CallsFail(h, C)
  /\ left' = [left EXCEPT ![h] = IF CallsReturned(h)' THEN TxTime ELSE @]
  /\ UNCHANGED <<process, toTick, steady, grace, lease>>

RecordInTime(h) ==
  /\ RecordResult(h) \/ RecordFails(h)
  /\ left' = [left EXCEPT ![h] = 0]
  /\ lease' = Settle(lease, op')
  /\ UNCHANGED <<process, toTick, steady, grace>>

(* lease_until of a running operation passes, whether or not a process runs. *)
LeaseEnds(r, k) ==
  /\ lease[r][k] <= 0
  /\ LeaseRunsOut(r, k)
  /\ UNCHANGED timers

(* A tick settles what is overdue, finds nothing, or fails and is logged. *)
Reconcile ==
  /\ process = "up"
  /\ toTick = 0
  /\ \/ ReapAny /\ UNCHANGED steady
     \/ (\A o \in overdue : Locked(o[1], o[2])) /\ UNCHANGED <<vars, steady>>
     \/ steady' = 0 /\ UNCHANGED vars
  /\ toTick' = Period
  /\ lease' = Settle(lease, op')
  /\ UNCHANGED <<process, grace, left>>

(* Time passes once everything that is due has happened. *)
Tick ==
  /\ process = "up" => toTick > 0
  /\ process = "draining" => grace > 0
  /\ \A h \in Handlers : Working(h) => left[h] > 0
  /\ \A r \in Requests, k \in Kinds :
       op[r][k] = "running" /\ lease[r][k] <= 0 => <<r, k>> \in overdue
  /\ toTick' = AtLeast(0, toTick - 1)
  /\ steady' = IF process = "up" THEN AtMost(Period + 1, steady + 1) ELSE 0
  /\ grace' = AtLeast(0, grace - 1)
  /\ lease' = Settle([r \in Requests |-> [k \in Kinds |->
                       AtLeast(-Period - 1, lease[r][k] - 1)]], op)
  /\ left' = [h \in Handlers |-> AtLeast(0, left[h] - 1)]
  /\ UNCHANGED <<vars, process>>

-------------------------------------------------------------------------------
ClaimAnyInTime ==
  \E h \in Handlers, r \in Requests, s \in Approvers, k \in Kinds, a \in BOOLEAN :
    ClaimInTime(h, r, s, k, a)

ServiceNext ==
  \/ Start \/ Terminate \/ Exit \/ Die
  \/ Receive
  \/ ClaimAnyInTime
  \/ \E h \in Handlers : CallInTime(h) \/ RecordInTime(h)
  \/ Network /\ UNCHANGED timers
  \/ \E r \in Requests, k \in Kinds : LeaseEnds(r, k)
  \/ Reconcile
  \/ Tick

ServiceSpec == ServiceInit /\ [][ServiceNext]_all

(* Time does not stop, and what is due when it waits is done. *)
TimeFlows ==
  /\ WF_all(Tick) /\ WF_all(Reconcile) /\ WF_all(Exit)
  /\ \A h \in Handlers : WF_all(CallInTime(h)) /\ WF_all(RecordInTime(h))
  /\ \A r \in Requests, k \in Kinds : WF_all(LeaseEnds(r, k))

FairServiceSpec == ServiceSpec /\ TimeFlows

-------------------------------------------------------------------------------
(* Properties. *)

(* The types of the timers: no context, transaction or shutdown outlasts its   *)
(* time, and only a live process has handlers.                                 *)
TimersOK ==
  /\ process \in {"down", "up", "draining"}
  /\ toTick \in 0..Period
  /\ steady \in 0..(Period + 1)
  /\ grace \in 0..Grace
  /\ lease \in [Requests -> [Kinds -> (-Period - 1)..Lease]]
  /\ left \in [Handlers -> 0..(CallTime + TxTime)]
  /\ process = "down" => handler = Idle

(* The reconciler never settles an operation whose handler is still at work,   *)
(* and the handler's result, when it comes, is still asked for: the lease      *)
(* outlasts the claim, the calls and the result together, so the two only race *)
(* when the database is slower than TxTime.                                    *)
LeaseCoversHandler ==
  \A h \in Handlers :
    Working(h) =>
      LET r == handler[h].request
          k == handler[h].kind
      IN  /\ <<r, k>> \notin overdue
          /\ op[r][k] = "running"
          /\ status[r] = Expected(k)

(* An operation nobody will record - its handler was cut off by a shutdown or  *)
(* a crash, never got the claim's reply, or could not record - is settled      *)
(* within one period of its lease's end, as long as one process has run and    *)
(* reached the database for that long; no restart makes it wait longer.        *)
SettledInTime ==
  \A r \in Requests, k \in Kinds :
    op[r][k] = "running" /\ process = "up"
      => -lease[r][k] <= Period \/ steady <= Period

(* However often processes are stopped, cut off and started: if now and then   *)
(* one runs for a period with the database in reach, every operation that was  *)
(* claimed is settled.                                                         *)
SettledBetweenRestarts ==
  ([]<>(steady > Period)) =>
    \A r \in Requests, k \in Kinds : op[r][k] = "running" ~> op[r][k] # "running"

===============================================================================
