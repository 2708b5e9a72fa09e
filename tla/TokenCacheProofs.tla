--------------------------- MODULE TokenCacheProofs ---------------------------
(* Theorems about TokenCache, for every set of callers and all times.          *)
EXTENDS TokenCache, TLAPS

-------------------------------------------------------------------------------
(* The inductive invariant. *)

(* What the skew leaves of a token's life. *)
Lead(t) == IF t.life > Skew THEN t.life - Skew ELSE 0

(* The token in the cache: its expiry is late by the time its answer took.     *)
CacheInTime ==
  value # NoToken => expiry <= value.issued + value.life - Skew + FetchTime

(* The flight: it has a token in the phases after Keycloak issued one or after *)
(* a hit, and gets it no more than FetchTime after it was issued.              *)
FlightInTime ==
  flight # NoFlight =>
    /\ flight.phase \in {"issued", "stored", "hit"} <=> flight.token # NoToken
    /\ flight.phase = "fetching" =>
         flight.since <= clock /\ clock <= flight.since + FetchTime
    /\ flight.phase = "issued" =>
         flight.since <= flight.token.issued /\ clock <= flight.since + FetchTime
    /\ flight.phase \in {"stored", "hit"} =>
         clock <= flight.token.issued + Lead(flight.token) + FetchTime

(* The callers: no deadline is further away than OpTime, and none lets its     *)
(* caller use a token longer than UseIsBounded says.                           *)
CallersInTime ==
  \A c \in Callers :
    /\ pc[c] # "idle" => deadline[c] <= clock + OpTime
    /\ pc[c] = "holding" =>
         deadline[c] <= hand[c].issued + Lead(hand[c]) + FetchTime + OpTime

CacheInv ==
  /\ TypeOK
  /\ FetchesOnlyWhenStale
  /\ CacheInTime
  /\ FlightInTime
  /\ CallersInTime

-------------------------------------------------------------------------------
LEMMA CacheInvInit == Init => CacheInv
<1> SUFFICES ASSUME Init PROVE CacheInv
  OBVIOUS
<1> USE DEF Init
<1>1. TypeOK
  BY TimesAreNatural DEF TypeOK
<1>2. FetchesOnlyWhenStale
  BY DEF FetchesOnlyWhenStale, InFlight
<1>3. CacheInTime /\ FlightInTime
  BY DEF CacheInTime, FlightInTime
<1>4. CallersInTime
  BY DEF CallersInTime
<1> QED
  BY <1>1, <1>2, <1>3, <1>4 DEF CacheInv

(* A token and what is left of its life are numbers. *)
LEMMA TokenTimes ==
  ASSUME NEW t \in Token
  PROVE  /\ t # NoToken
         /\ t.issued \in Nat /\ t.life \in Nat \ {0} /\ t.life \in Lifetimes
         /\ Lead(t) \in Nat /\ t.life - Skew <= Lead(t)
<1>1. t # NoToken
  BY NothingIsNoToken
<1>2. t.issued \in Nat /\ t.life \in Lifetimes
  BY DEF Token
<1>3. t.life \in Nat \ {0}
  BY <1>2, TimesAreNatural
<1>4. Lead(t) \in Nat /\ t.life - Skew <= Lead(t)
  BY <1>3, TimesAreNatural DEF Lead
<1> QED
  BY <1>1, <1>2, <1>3, <1>4

(* A flight's fields. *)
LEMMA FlightFields ==
  ASSUME NEW f \in Flight
  PROVE  /\ f # NoFlight
         /\ f.leader \in Callers /\ f.phase \in Phases /\ f.since \in Nat
         /\ f.token \in Token \cup {NoToken}
  BY NothingIsNoToken DEF Flight

(* A step of a caller that obtains no token and touches nothing else.          *)
LEMMA BeginStep ==
  ASSUME CacheInv, NEW c \in Callers, Begin(c)
  PROVE  CacheInv'
<1> USE DEF CacheInv, Begin, cache
<1>1. TypeOK'
  BY TimesAreNatural DEF TypeOK
<1>2. FetchesOnlyWhenStale' /\ CacheInTime' /\ FlightInTime'
  BY DEF FetchesOnlyWhenStale, InFlight, Fresh, CacheInTime, FlightInTime, Lead
<1>3. CallersInTime'
  BY TimesAreNatural DEF CallersInTime, TypeOK, Lead
<1> QED
  BY <1>1, <1>2, <1>3

LEMMA LookStep ==
  ASSUME CacheInv, NEW c \in Callers, Look(c)
  PROVE  CacheInv'
<1> USE DEF CacheInv, Look, cache
<1>1. TypeOK'
  BY DEF TypeOK, Fresh
<1>2. FetchesOnlyWhenStale' /\ CacheInTime' /\ FlightInTime'
  BY DEF FetchesOnlyWhenStale, InFlight, Fresh, CacheInTime, FlightInTime, Lead
<1>3. CallersInTime'
  <2>1. CASE Fresh
    <3>1. value \in Token /\ expiry \in Int /\ clock \in Nat /\ deadline[c] \in Nat
      BY <2>1, TimesAreNatural DEF TypeOK, Fresh
    <3>2. clock < value.issued + Lead(value) + FetchTime
      BY <2>1, <3>1, TokenTimes, TimesAreNatural DEF CacheInTime, Fresh
    <3>3. deadline[c] <= value.issued + Lead(value) + FetchTime + OpTime
      BY <3>1, <3>2, TokenTimes, TimesAreNatural DEF CallersInTime
    <3> QED
      BY <2>1, <3>3 DEF CallersInTime, TypeOK, Lead
  <2>2. CASE ~Fresh
    BY <2>2 DEF CallersInTime, TypeOK, Lead
  <2> QED
    BY <2>1, <2>2
<1> QED
  BY <1>1, <1>2, <1>3

LEMMA JoinStep ==
  ASSUME CacheInv, NEW c \in Callers, Join(c)
  PROVE  CacheInv'
<1> USE DEF CacheInv, Join, cache
<1> DEFINE new == [leader |-> c, phase |-> "recheck", since |-> clock, token |-> NoToken]
<1>1. new \in Flight
  BY TimesAreNatural DEF TypeOK, Flight, Phases
<1>2. TypeOK'
  BY <1>1 DEF TypeOK
<1>3. FetchesOnlyWhenStale' /\ CacheInTime' /\ FlightInTime'
  BY DEF FetchesOnlyWhenStale, InFlight, Fresh, CacheInTime, FlightInTime, Lead
<1>4. CallersInTime'
  BY DEF CallersInTime, TypeOK, Lead
<1> QED
  BY <1>2, <1>3, <1>4

LEMMA EndStep ==
  ASSUME CacheInv, NEW c \in Callers, End(c)
  PROVE  CacheInv'
<1> USE DEF CacheInv, End, cache
<1>1. TypeOK'
  BY DEF TypeOK
<1>2. FetchesOnlyWhenStale' /\ CacheInTime' /\ FlightInTime'
  BY DEF FetchesOnlyWhenStale, InFlight, Fresh, CacheInTime, FlightInTime, Lead
<1>3. CallersInTime'
  BY DEF CallersInTime, TypeOK, Lead
<1> QED
  BY <1>1, <1>2, <1>3

(* The callers' part of the invariant depends on them and the clock only.      *)
LEMMA CallersUntouched ==
  ASSUME CallersInTime, UNCHANGED <<clock, callers>>
  PROVE  CallersInTime'
  BY DEF CallersInTime, callers, Lead

LEMMA RecheckStep ==
  ASSUME CacheInv, Recheck
  PROVE  CacheInv'
<1> USE DEF CacheInv, Recheck, InFlight, cache, callers
<1>1. flight \in Flight /\ flight.phase = "recheck" /\ flight.token = NoToken
  BY DEF TypeOK, FlightInTime
<1>2. CASE Fresh
  <2>1. value \in Token /\ expiry \in Int /\ clock \in Nat
    BY <1>2, TimesAreNatural DEF TypeOK, Fresh
  <2>2. clock < value.issued + Lead(value) + FetchTime
    BY <1>2, <2>1, TokenTimes, TimesAreNatural DEF CacheInTime, Fresh
  <2>3. flight' = [flight EXCEPT !.phase = "hit", !.token = value]
    BY <1>2
  <2>4. flight' \in Flight /\ flight'.phase = "hit" /\ flight'.token = value
    BY <1>1, <2>1, <2>3 DEF Flight, Phases
  <2>5. TypeOK'
    BY <2>4 DEF TypeOK
  <2>6. FlightInTime'
    BY <2>1, <2>2, <2>4, TokenTimes, TimesAreNatural DEF FlightInTime, Lead
  <2> QED
    BY <2>4, <2>5, <2>6, CallersUntouched
    DEF FetchesOnlyWhenStale, CacheInTime
<1>3. CASE ~Fresh
  <2>1. flight' \in Flight /\ flight'.phase = "request" /\ flight'.token = NoToken
    BY <1>1, <1>3 DEF Flight, Phases
  <2>2. TypeOK'
    BY <2>1 DEF TypeOK
  <2>3. FlightInTime'
    BY <2>1 DEF FlightInTime
  <2> QED
    BY <1>3, <2>1, <2>2, <2>3, CallersUntouched
    DEF FetchesOnlyWhenStale, CacheInTime, Fresh
<1> QED
  BY <1>2, <1>3

LEMMA RequestStep ==
  ASSUME CacheInv, Request
  PROVE  CacheInv'
<1> USE DEF CacheInv, Request, InFlight, cache, callers
<1>1. flight \in Flight /\ flight.phase = "request" /\ flight.token = NoToken
  BY DEF TypeOK, FlightInTime
<1>2. /\ flight' \in Flight /\ flight'.phase = "fetching"
      /\ flight'.token = NoToken /\ flight'.since = clock
  <2>1. clock \in Nat
    BY TimesAreNatural DEF TypeOK
  <2>2. flight' = [flight EXCEPT !.phase = "fetching", !.since = clock]
    OBVIOUS
  <2> QED
    BY <1>1, <2>1, <2>2 DEF Flight, Phases
<1>3. TypeOK'
  BY <1>2 DEF TypeOK
<1>4. FlightInTime'
  BY <1>2, TimesAreNatural DEF FlightInTime, TypeOK
<1> QED
  BY <1>1, <1>3, <1>4, CallersUntouched
  DEF FetchesOnlyWhenStale, CacheInTime, Fresh

LEMMA IssueStep ==
  ASSUME CacheInv, NEW life \in Lifetimes, Issue(life)
  PROVE  CacheInv'
<1> USE DEF CacheInv, Issue, InFlight, cache, callers
<1> DEFINE new == [issued |-> clock, life |-> life]
<1>1. flight \in Flight /\ flight.phase = "fetching"
  BY DEF TypeOK
<1>2. new \in Token
  BY TimesAreNatural DEF Token, TypeOK
<1>3. /\ flight' \in Flight /\ flight'.phase = "issued"
      /\ flight'.token = new /\ flight'.since = flight.since
  BY <1>1, <1>2 DEF Flight, Phases
<1>4. TypeOK'
  BY <1>3 DEF TypeOK
<1>5. FlightInTime'
  <2>1. new # NoToken /\ new.issued = clock
    BY <1>2, TokenTimes
  <2> QED
    BY <1>1, <1>3, <2>1 DEF FlightInTime
<1> QED
  BY <1>1, <1>4, <1>5, CallersUntouched
  DEF FetchesOnlyWhenStale, CacheInTime, Fresh

LEMMA StoreStep ==
  ASSUME CacheInv, Store
  PROVE  CacheInv'
<1> USE DEF CacheInv, Store, InFlight, cache, callers
<1>1. flight \in Flight /\ flight.phase = "issued" /\ flight.token \in Token
  BY FlightFields DEF TypeOK, FlightInTime
<1>2. flight' \in Flight /\ flight'.phase = "stored" /\ flight'.token = flight.token
  BY <1>1 DEF Flight, Phases
<1>3. clock \in Nat /\ flight.since \in Nat
  BY <1>1, TimesAreNatural DEF TypeOK, Flight
<1>4. clock <= flight.token.issued + FetchTime
  BY <1>1, <1>3, TokenTimes, TimesAreNatural, NothingIsNoToken DEF FlightInTime, TypeOK
<1>5. TypeOK'
  <2>1. expiry' \in Int
    BY <1>1, <1>3, TokenTimes, TimesAreNatural
  <2> QED
    BY <1>1, <1>2, <2>1 DEF TypeOK
<1>6. CacheInTime'
  <2>1. expiry' <= flight.token.issued + flight.token.life - Skew + FetchTime
    BY <1>1, <1>3, <1>4, TokenTimes, TimesAreNatural
  <2> QED
    BY <2>1 DEF CacheInTime
<1>7. FlightInTime'
  <2>1. clock <= flight.token.issued + Lead(flight.token) + FetchTime
    BY <1>1, <1>3, <1>4, TokenTimes, TimesAreNatural
  <2> QED
    BY <1>1, <1>2, <2>1, TokenTimes DEF FlightInTime, Lead
<1> QED
  BY <1>2, <1>5, <1>6, <1>7, CallersUntouched DEF FetchesOnlyWhenStale

LEMMA FetchFailsStep ==
  ASSUME CacheInv, FetchFails
  PROVE  CacheInv'
<1> USE DEF CacheInv, FetchFails, InFlight, cache, callers
<1>1. flight \in Flight
  BY DEF TypeOK
<1>2. flight' \in Flight /\ flight'.phase = "failed" /\ flight'.token = NoToken
  BY <1>1 DEF Flight, Phases
<1>3. TypeOK'
  BY <1>2 DEF TypeOK
<1>4. FlightInTime'
  BY <1>2 DEF FlightInTime
<1> QED
  BY <1>2, <1>3, <1>4, CallersUntouched DEF FetchesOnlyWhenStale, CacheInTime

LEMMA LandStep ==
  ASSUME CacheInv, Land
  PROVE  CacheInv'
<1> USE DEF CacheInv, Land, InFlight, cache
<1>1. flight \in Flight /\ flight.phase \in {"stored", "hit", "failed"}
  BY DEF TypeOK
<1>2. /\ flight.token \in Token \cup {NoToken}
      /\ flight.phase = "failed" <=> flight.token = NoToken
  BY <1>1, FlightFields DEF FlightInTime
<1>3. TypeOK'
  <2>1. pc' \in [Callers -> {"idle", "looking", "missed", "waiting", "holding"}]
    BY DEF TypeOK
  <2>2. hand' \in [Callers -> Token \cup {NoToken}]
    BY <1>2 DEF TypeOK
  <2>3. cached' \in [Callers -> BOOLEAN]
    BY DEF TypeOK
  <2>4. deadline' \in [Callers -> Nat]
    BY DEF TypeOK
  <2>5. \A c \in Callers : pc'[c] = "holding" <=> hand'[c] # NoToken
    BY <1>2 DEF TypeOK
  <2> QED
    BY <2>1, <2>2, <2>3, <2>4, <2>5 DEF TypeOK
<1>4. CallersInTime'
  <2> SUFFICES ASSUME NEW c \in Callers
               PROVE  /\ pc'[c] # "idle" => deadline'[c] <= clock' + OpTime
                      /\ pc'[c] = "holding" =>
                           deadline'[c] <= hand'[c].issued + Lead(hand'[c]) + FetchTime + OpTime
    BY DEF CallersInTime, Lead
  <2>1. CASE pc[c] # "waiting"
    BY <2>1 DEF CallersInTime, TypeOK
  <2>2. CASE pc[c] = "waiting" /\ flight.phase = "failed"
    BY <2>2 DEF TypeOK
  <2>3. CASE pc[c] = "waiting" /\ flight.phase # "failed"
    <3>1. pc'[c] = "holding" /\ deadline'[c] = deadline[c] /\ hand'[c] = flight.token
      BY <2>3 DEF TypeOK
    <3>2. flight.token \in Token /\ clock \in Nat /\ deadline[c] \in Nat
      BY <1>2, <2>3, TimesAreNatural DEF TypeOK
    <3>3. clock <= flight.token.issued + Lead(flight.token) + FetchTime
      BY <1>1, <2>3 DEF FlightInTime
    <3>4. deadline[c] <= clock + OpTime
      BY <2>3 DEF CallersInTime
    <3> QED
      BY <3>1, <3>2, <3>3, <3>4, TokenTimes, TimesAreNatural
  <2> QED
    BY <2>1, <2>2, <2>3
<1> QED
  BY <1>3, <1>4 DEF FetchesOnlyWhenStale, CacheInTime, FlightInTime

LEMMA TickStep ==
  ASSUME CacheInv, Tick
  PROVE  CacheInv'
<1> USE DEF CacheInv, Tick, cache, callers
<1>1. clock \in Nat /\ clock' \in Nat /\ clock' = clock + 1 /\ clock' <= Horizon
  BY TimesAreNatural DEF TypeOK
<1>2. TypeOK'
  BY <1>1, TimesAreNatural DEF TypeOK
<1>3. FetchesOnlyWhenStale'
  BY <1>1 DEF FetchesOnlyWhenStale, InFlight, Fresh, TypeOK
<1>4. FlightInTime'
  <2>1. CASE flight = NoFlight
    BY <2>1 DEF FlightInTime
  <2>2. CASE flight # NoFlight
    <3>1. flight.since \in Nat /\ flight.phase \in {"fetching", "issued"}
      BY <2>2, FlightFields DEF TypeOK
    <3>2. clock' <= flight.since + FetchTime
      BY <1>1, <2>2, <3>1, TimesAreNatural
    <3>3. flight.phase = "fetching" => flight.since <= clock'
      BY <1>1, <2>2, <3>1 DEF FlightInTime
    <3> QED
      BY <2>2, <3>1, <3>2, <3>3 DEF FlightInTime
  <2> QED
    BY <2>1, <2>2
<1>5. CallersInTime'
  BY <1>1, TimesAreNatural DEF CallersInTime, TypeOK, Lead
<1> QED
  BY <1>2, <1>3, <1>4, <1>5 DEF CacheInTime

LEMMA CacheInvNext == CacheInv /\ [Next]_vars => CacheInv'
<1> SUFFICES ASSUME CacheInv, [Next]_vars PROVE CacheInv'
  OBVIOUS
<1>1. CASE \E c \in Callers : Step(c)
  BY <1>1, BeginStep, LookStep, JoinStep, EndStep DEF Step
<1>2. CASE Fly
  BY <1>2, RecheckStep, RequestStep, StoreStep, FetchFailsStep, LandStep DEF Fly
<1>3. CASE Keycloak
  BY <1>3, IssueStep DEF Keycloak
<1>4. CASE Tick
  BY <1>4, TickStep
<1>5. CASE UNCHANGED vars
  BY <1>5
  DEF vars, CacheInv, TypeOK, FetchesOnlyWhenStale, InFlight, Fresh, CacheInTime,
      FlightInTime, CallersInTime, Lead
<1> QED
  BY <1>1, <1>2, <1>3, <1>4, <1>5 DEF Next

(* The inductive invariant holds in every behaviour. *)
THEOREM CacheInvariance == Spec => []CacheInv
  BY CacheInvInit, CacheInvNext, PTL DEF Spec

(* The cache, the flight and every caller of clientCredentialsToken keep their *)
(* types, and a caller holds a token exactly when the call gave it one.        *)
THEOREM TypeCorrect == Spec => []TypeOK
<1>1. CacheInv => TypeOK
  BY DEF CacheInv
<1> QED
  BY <1>1, CacheInvariance, PTL

(* A token is fetched only while the cached one is stale, whatever order the   *)
(* callers and flights of clientCredentialsToken take.                         *)
THEOREM NoNeedlessFetch == Spec => []FetchesOnlyWhenStale
<1>1. CacheInv => FetchesOnlyWhenStale
  BY DEF CacheInv
<1> QED
  BY <1>1, CacheInvariance, PTL

LEMMA UseEnds == CacheInv => UseIsBounded
<1> SUFFICES ASSUME CacheInv, NEW c \in Callers, MayUse(c)
             PROVE  clock < hand[c].issued + Lead(hand[c]) + FetchTime + OpTime
  BY DEF UseIsBounded, Lead
<1>1. hand[c] \in Token /\ deadline[c] \in Nat /\ clock \in Nat
  BY TimesAreNatural DEF CacheInv, TypeOK, MayUse
<1>2. deadline[c] <= hand[c].issued + Lead(hand[c]) + FetchTime + OpTime
  BY DEF CacheInv, CallersInTime, MayUse
<1> QED
  BY <1>1, <1>2, TokenTimes, TimesAreNatural DEF MayUse

(* The last moment a token is used, for every skew, timeout and lifetime. *)
THEOREM LastUse == Spec => []UseIsBounded
<1> QED
  BY UseEnds, CacheInvariance, PTL

-------------------------------------------------------------------------------
(* What comes out of the cache outlives the skew: a shorter token is stale the *)
(* moment it is stored.                                                        *)
OutlivesSkew ==
  /\ value # NoToken /\ value.life <= Skew => expiry <= clock
  /\ InFlight({"hit"}) => flight.token.life > Skew
  /\ \A c \in Callers : pc[c] = "holding" /\ cached[c] => hand[c].life > Skew

LEMMA FreshOutlives ==
  ASSUME CacheInv, OutlivesSkew, Fresh
  PROVE  value.life > Skew
<1>1. value \in Token /\ clock \in Nat /\ expiry \in Int
  BY TimesAreNatural DEF CacheInv, TypeOK, Fresh
<1> QED
  BY <1>1, TokenTimes, TimesAreNatural DEF OutlivesSkew, Fresh

LEMMA OutlivesNext == CacheInv /\ OutlivesSkew /\ [Next]_vars => OutlivesSkew'
<1> SUFFICES ASSUME CacheInv, OutlivesSkew, [Next]_vars PROVE OutlivesSkew'
  OBVIOUS
<1> USE DEF CacheInv, cache, callers
<1>1. ASSUME NEW c \in Callers, Look(c) PROVE OutlivesSkew'
  <2>1. UNCHANGED <<clock, value, expiry, flight>>
    BY <1>1 DEF Look
  <2>2. \A d \in Callers : pc'[d] = "holding" /\ cached'[d] => hand'[d].life > Skew
    <3>1. CASE Fresh
      BY <1>1, <3>1, FreshOutlives DEF Look, OutlivesSkew, TypeOK
    <3>2. CASE ~Fresh
      BY <1>1, <3>2 DEF Look, OutlivesSkew, TypeOK
    <3> QED
      BY <3>1, <3>2
  <2> QED
    BY <2>1, <2>2 DEF OutlivesSkew, InFlight
<1>2. ASSUME NEW c \in Callers, Begin(c) \/ Join(c) \/ End(c) PROVE OutlivesSkew'
  <2>1. UNCHANGED <<clock, value, expiry>>
    BY <1>2 DEF Begin, Join, End
  <2>2. InFlight({"hit"})' => InFlight({"hit"}) /\ flight' = flight
    BY <1>2 DEF Begin, Join, End, InFlight
  <2>3. \A d \in Callers : pc'[d] = "holding" =>
          pc[d] = "holding" /\ cached'[d] = cached[d] /\ hand'[d] = hand[d]
    BY <1>2 DEF Begin, Join, End, TypeOK
  <2> QED
    BY <2>1, <2>2, <2>3 DEF OutlivesSkew
<1>3. CASE Recheck
  <2>1. UNCHANGED <<clock, value, expiry, pc, hand, cached>> /\ flight \in Flight
    BY <1>3 DEF Recheck, InFlight, TypeOK
  <2>2. CASE Fresh
    <3>1. flight' = [flight EXCEPT !.phase = "hit", !.token = value]
      BY <1>3, <2>2 DEF Recheck
    <3>2. flight'.token = value
      BY <2>1, <3>1 DEF Flight
    <3> QED
      BY <2>1, <2>2, <3>2, FreshOutlives DEF OutlivesSkew
  <2>3. CASE ~Fresh
    <3>1. flight'.phase = "request"
      BY <1>3, <2>1, <2>3 DEF Recheck, Flight
    <3> QED
      BY <2>1, <3>1 DEF OutlivesSkew, InFlight
  <2> QED
    BY <2>2, <2>3
<1>4. CASE Request \/ FetchFails \/ Keycloak
  <2>1. UNCHANGED <<clock, value, expiry, pc, hand, cached>> /\ flight \in Flight
    BY <1>4 DEF Request, FetchFails, Keycloak, Issue, InFlight, TypeOK
  <2>2. flight'.phase \in {"fetching", "failed", "issued"}
    BY <1>4, <2>1 DEF Request, FetchFails, Keycloak, Issue, Flight
  <2> QED
    BY <2>1, <2>2 DEF OutlivesSkew, InFlight
<1>5. CASE Store
  <2>1. flight \in Flight /\ flight.phase = "issued" /\ flight.token \in Token
    BY <1>5, FlightFields DEF Store, InFlight, TypeOK, FlightInTime
  <2>2. flight'.phase = "stored" /\ UNCHANGED <<clock, pc, hand, cached>>
    BY <1>5, <2>1 DEF Store, Flight
  <2>3. value' = flight.token /\ expiry' = clock + flight.token.life - Skew /\ clock \in Nat
    BY <1>5, TimesAreNatural DEF Store, TypeOK
  <2>4. value'.life <= Skew => expiry' <= clock'
    BY <2>1, <2>2, <2>3, TokenTimes, TimesAreNatural
  <2> QED
    BY <2>2, <2>4 DEF OutlivesSkew, InFlight
<1>6. CASE Land
  <2>1. UNCHANGED <<clock, value, expiry>> /\ flight' = NoFlight
    BY <1>6 DEF Land
  <2>2. ASSUME NEW c \in Callers, pc'[c] = "holding", cached'[c] PROVE hand'[c].life > Skew
    <3>1. CASE pc[c] = "waiting"
      BY <1>6, <2>2, <3>1 DEF Land, InFlight, OutlivesSkew
    <3>2. CASE pc[c] # "waiting"
      BY <1>6, <2>2, <3>2 DEF Land, OutlivesSkew
    <3> QED
      BY <3>1, <3>2
  <2> QED
    BY <2>1, <2>2 DEF OutlivesSkew, InFlight
<1>7. CASE Tick
  <2>1. clock \in Nat /\ clock' = clock + 1 /\ expiry \in Int
    BY <1>7, TimesAreNatural DEF Tick, TypeOK
  <2>2. UNCHANGED <<value, expiry, flight, pc, hand, cached>>
    BY <1>7 DEF Tick
  <2>3. expiry <= clock => expiry' <= clock'
    BY <2>1, <2>2
  <2> QED
    BY <2>2, <2>3 DEF OutlivesSkew, InFlight
<1>8. CASE UNCHANGED vars
  BY <1>8 DEF vars, OutlivesSkew, InFlight
<1> QED
  BY <1>1, <1>2, <1>3, <1>4, <1>5, <1>6, <1>7, <1>8 DEF Next, Step, Fly

LEMMA OutlivesInvariance == Spec => []OutlivesSkew
<1>1. Init => OutlivesSkew
  BY DEF Init, OutlivesSkew, InFlight
<1> QED
  BY <1>1, OutlivesNext, CacheInvariance, PTL DEF Spec

(* "Never used right up to its expiry boundary" (keycloak.go:154-155) is missed *)
(* by no more than the skew leaves uncovered of a slow answer and a long use,   *)
(* with the code's times 15 s + 20 s - 30 s; and a token that lives no longer   *)
(* than the skew is never handed out from the cache at all.                     *)
OverrunIsBounded ==
  \A c \in Callers : MayUse(c) /\ cached[c] =>
    /\ hand[c].life > Skew
    /\ clock < Dies(hand[c]) + (FetchTime + OpTime - Skew)

THEOREM CachedTokensOverrun == Spec => []OverrunIsBounded
<1>1. CacheInv /\ OutlivesSkew => OverrunIsBounded
  <2> SUFFICES ASSUME CacheInv, OutlivesSkew, NEW c \in Callers, MayUse(c), cached[c]
               PROVE  /\ hand[c].life > Skew
                      /\ clock < Dies(hand[c]) + (FetchTime + OpTime - Skew)
    BY DEF OverrunIsBounded
  <2>1. hand[c] \in Token /\ clock \in Nat
    BY TimesAreNatural DEF CacheInv, TypeOK, MayUse
  <2>2. hand[c].life > Skew
    BY DEF OutlivesSkew, MayUse
  <2>3. clock < hand[c].issued + Lead(hand[c]) + FetchTime + OpTime
    BY UseEnds DEF UseIsBounded, Lead
  <2>4. Lead(hand[c]) = hand[c].life - Skew
    BY <2>2 DEF Lead
  <2> QED
    BY <2>1, <2>2, <2>3, <2>4, TokenTimes, TimesAreNatural DEF Dies
<1> QED
  BY <1>1, CacheInvariance, OutlivesInvariance, PTL

===============================================================================
