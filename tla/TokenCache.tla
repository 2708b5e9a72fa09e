------------------------------ MODULE TokenCache ------------------------------
(* KeycloakClient.clientCredentialsToken: the token of the service account is  *)
(* cached until Skew before its computed expiry; callers that miss share one   *)
(* flight (singleflight.Group), whose leader fetches a token under its own     *)
(* context.  Time is measured in ticks.                                        *)
EXTENDS Integers

CONSTANTS
  Callers,    \* handler goroutines in InviteUser or AssignApprovedRoleGroups
  Skew,       \* tokenRefreshSkew
  FetchTime,  \* http.Client.Timeout
  OpTime,     \* the timeout of the handler's context
  Lifetimes,  \* values of expires_in
  Horizon,    \* bound on the clock
  NoToken, NoFlight

ASSUME TimesAreNatural ==
  /\ Skew \in Nat /\ FetchTime \in Nat /\ OpTime \in Nat /\ Horizon \in Nat
  /\ Lifetimes \subseteq Nat \ {0}

(* A token as Keycloak knows it: when it was issued and how long it lives.     *)
Token == [issued: Nat, life: Lifetimes]
Dies(t) == t.issued + t.life

Phases == {"recheck", "request", "fetching", "issued", "stored", "hit", "failed"}
Flight == [leader: Callers, phase: Phases, since: Nat, token: Token \cup {NoToken}]

ASSUME NothingIsNoToken == NoToken \notin Token /\ NoFlight \notin Flight

VARIABLES
  clock,     \* time.Now()
  value,     \* tokenValue
  expiry,    \* tokenExpiry
  flight,    \* the call registered in tokenFlight
  pc,        \* "idle", "looking", "missed", "waiting" or "holding"
  deadline,  \* of the caller's context
  hand,      \* the token the caller was given
  cached     \* it was given to the caller from the cache

vars == <<clock, value, expiry, flight, pc, deadline, hand, cached>>
cache == <<value, expiry>>
callers == <<pc, deadline, hand, cached>>

Fresh == value # NoToken /\ clock < expiry
InFlight(phases) == flight # NoFlight /\ flight.phase \in phases

-------------------------------------------------------------------------------
(* Mistakes this code could have made, each in place of the definition below    *)
(* whose name it starts with.                                                  *)

(* The leader does not look at the cache again. *)
RecheckNever ==
  /\ InFlight({"recheck"})
  /\ flight' = [flight EXCEPT !.phase = "request"]
  /\ UNCHANGED <<clock, cache, callers>>

(* The skew is forgotten. *)
StoreUntilExpiry ==
  /\ InFlight({"issued"})
  /\ value' = flight.token
  /\ expiry' = clock + flight.token.life
  /\ flight' = [flight EXCEPT !.phase = "stored"]
  /\ UNCHANGED <<clock, callers>>

(* The fetch has no timeout and no context. *)
FetchFailsNever == FALSE /\ flight' = [flight EXCEPT !.phase = "failed"]

(* The error of the flight is not looked at. *)
LandUnchecked ==
  /\ InFlight({"stored", "hit", "failed"})
  /\ flight' = NoFlight
  /\ pc' = [c \in Callers |-> IF pc[c] = "waiting" THEN "holding" ELSE pc[c]]
  /\ hand' = [c \in Callers |-> IF pc[c] = "waiting" THEN flight.token ELSE hand[c]]
  /\ cached' = [c \in Callers |-> IF pc[c] = "waiting" THEN flight.phase = "hit"
                                                       ELSE cached[c]]
  /\ UNCHANGED <<clock, cache, deadline>>

-------------------------------------------------------------------------------
Init ==
  /\ clock = 0
  /\ value = NoToken
  /\ expiry = 0
  /\ flight = NoFlight
  /\ pc = [c \in Callers |-> "idle"]
  /\ deadline = [c \in Callers |-> 0]
  /\ hand = [c \in Callers |-> NoToken]
  /\ cached = [c \in Callers |-> FALSE]

(* A handler that has claimed an operation gives it OpTime. *)
Begin(c) ==
  /\ pc[c] = "idle"
  /\ pc' = [pc EXCEPT ![c] = "looking"]
  /\ deadline' = [deadline EXCEPT ![c] = clock + OpTime]
  /\ UNCHANGED <<clock, cache, flight, hand, cached>>

(* The first look at the cache. *)
Look(c) ==
  /\ pc[c] = "looking"
  /\ IF Fresh THEN /\ pc' = [pc EXCEPT ![c] = "holding"]
                   /\ hand' = [hand EXCEPT ![c] = value]
                   /\ cached' = [cached EXCEPT ![c] = TRUE]
              ELSE /\ pc' = [pc EXCEPT ![c] = "missed"]
                   /\ UNCHANGED <<hand, cached>>
  /\ UNCHANGED <<clock, cache, flight, deadline>>

(* tokenFlight.Do: the caller leads a new flight or waits for the one there is. *)
Join(c) ==
  /\ pc[c] = "missed"
  /\ pc' = [pc EXCEPT ![c] = "waiting"]
  /\ flight' = IF flight # NoFlight THEN flight
                 ELSE [leader |-> c, phase |-> "recheck", since |-> clock, token |-> NoToken]
  /\ UNCHANGED <<clock, cache, deadline, hand, cached>>

(* The leader's second look at the cache. *)
Recheck ==
  /\ InFlight({"recheck"})
  /\ flight' = IF Fresh THEN [flight EXCEPT !.phase = "hit", !.token = value]
                        ELSE [flight EXCEPT !.phase = "request"]
  /\ UNCHANGED <<clock, cache, callers>>

Request ==
  /\ InFlight({"request"})
  /\ clock < deadline[flight.leader]
  /\ flight' = [flight EXCEPT !.phase = "fetching", !.since = clock]
  /\ UNCHANGED <<clock, cache, callers>>

(* Keycloak issues a token; its answer is under way. *)
Issue(life) ==
  /\ InFlight({"fetching"})
  /\ flight' = [flight EXCEPT !.phase = "issued",
                              !.token = [issued |-> clock, life |-> life]]
  /\ UNCHANGED <<clock, cache, callers>>

(* The answer has arrived: it is cached until Skew before it would expire if   *)
(* it had been issued now.                                                     *)
Store ==
  /\ InFlight({"issued"})
  /\ value' = flight.token
  /\ expiry' = clock + flight.token.life - Skew
  /\ flight' = [flight EXCEPT !.phase = "stored"]
  /\ UNCHANGED <<clock, callers>>

(* An error status, a broken connection, FetchTime, or the leader's context.   *)
FetchFails ==
  /\ InFlight({"request", "fetching", "issued"})
  /\ flight' = [flight EXCEPT !.phase = "failed", !.token = NoToken]
  /\ UNCHANGED <<clock, cache, callers>>

(* The flight ends for all who wait for it, with its token or with its error.  *)
Land ==
  LET failed  == flight.phase = "failed"
      Waiting == {c \in Callers : pc[c] = "waiting"}
  IN  /\ InFlight({"stored", "hit", "failed"})
      /\ flight' = NoFlight
      /\ pc' = [c \in Callers |-> IF c \notin Waiting THEN pc[c]
                                    ELSE IF failed THEN "idle" ELSE "holding"]
      /\ hand' = [c \in Callers |-> IF c \in Waiting THEN flight.token ELSE hand[c]]
      /\ cached' = [c \in Callers |-> IF c \in Waiting THEN flight.phase = "hit"
                                                       ELSE cached[c]]
      /\ deadline' = [c \in Callers |-> IF c \in Waiting /\ failed THEN 0 ELSE deadline[c]]
      /\ UNCHANGED <<clock, cache>>

(* The caller's calls with the token are over. *)
End(c) ==
  /\ pc[c] = "holding"
  /\ pc' = [pc EXCEPT ![c] = "idle"]
  /\ hand' = [hand EXCEPT ![c] = NoToken]
  /\ cached' = [cached EXCEPT ![c] = FALSE]
  /\ deadline' = [deadline EXCEPT ![c] = 0]
  /\ UNCHANGED <<clock, cache, flight>>

(* A flight takes no time but for its fetch, which lasts no longer than the    *)
(* client's timeout and its leader's context.                                  *)
Tick ==
  /\ clock < Horizon
  /\ flight # NoFlight =>
       /\ flight.phase \in {"fetching", "issued"}
       /\ clock < flight.since + FetchTime
       /\ clock < deadline[flight.leader]
  /\ clock' = clock + 1
  /\ UNCHANGED <<cache, flight, callers>>

-------------------------------------------------------------------------------
Step(c)  == Begin(c) \/ Look(c) \/ Join(c) \/ End(c)
Obtain(c) == Look(c) \/ Join(c) \/ End(c)
Fly      == Recheck \/ Request \/ Store \/ FetchFails \/ Land
Keycloak == \E life \in Lifetimes : Issue(life)

Next ==
  \/ \E c \in Callers : Step(c)
  \/ Fly
  \/ Keycloak
  \/ Tick

Spec == Init /\ [][Next]_vars

(* The scheduler runs the callers and the leader, whose fetch ends by timeout. *)
FairSpec == Spec /\ WF_vars(Fly) /\ \A c \in Callers : WF_vars(Obtain(c))

-------------------------------------------------------------------------------
(* Properties. *)

(* The fields of KeycloakClient, and what its callers hold: a token, when the  *)
(* call returned without an error.                                             *)
TypeOK ==
  /\ clock \in 0..Horizon
  /\ value \in Token \cup {NoToken}
  /\ expiry \in Int
  /\ flight \in Flight \cup {NoFlight}
  /\ pc \in [Callers -> {"idle", "looking", "missed", "waiting", "holding"}]
  /\ deadline \in [Callers -> Nat]
  /\ hand \in [Callers -> Token \cup {NoToken}]
  /\ cached \in [Callers -> BOOLEAN]
  /\ \A c \in Callers : pc[c] = "holding" <=> hand[c] # NoToken

(* A token is fetched only while the cached one is stale, however a caller     *)
(* that missed is overtaken by a flight that lands before it joins one.        *)
FetchesOnlyWhenStale == InFlight({"request", "fetching", "issued"}) => ~Fresh

(* May caller c send a request with its token now? *)
MayUse(c) == pc[c] = "holding" /\ clock < deadline[c]

(* The last moment a token is sent to Keycloak: the skew has to make up for    *)
(* the time the answer was under way and for the caller's use of it.  A token  *)
(* that does not outlive the skew is never served from the cache and bounded   *)
(* by those times alone.                                                       *)
UseIsBounded ==
  \A c \in Callers : MayUse(c) =>
    LET t == hand[c]
        lead == IF t.life > Skew THEN t.life - Skew ELSE 0
    IN  clock < t.issued + lead + FetchTime + OpTime

(* "a cached token is never used right up to its expiry boundary"              *)
(* (keycloak.go:154).                                                          *)
NeverUsedAtExpiry ==
  \A c \in Callers : MayUse(c) /\ cached[c] => clock < Dies(hand[c])

(* Every caller gets a token or an error: nobody waits for a flight for ever,  *)
(* not even behind a leader whose client has left or whose Keycloak is silent. *)
CallersReturn == \A c \in Callers : pc[c] # "idle" ~> pc[c] = "idle"

===============================================================================
