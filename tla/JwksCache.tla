------------------------------- MODULE JwksCache -------------------------------
(* oidcAuthenticator.key and loadKeys: the issuer's signing keys are cached for *)
(* Freshness; a request signed with a key that is unknown or no longer fresh   *)
(* downloads the issuer's document anew.  Nothing keeps two downloads from     *)
(* overlapping, and the one that ends last replaces the cache, whichever       *)
(* document is the older.  Signatures and claims are checked after this and    *)
(* left out.  Time is measured in ticks.                                       *)
EXTENDS Integers

CONSTANTS
  Keys,       \* the issuer's signing keys, by key ID
  Verifiers,  \* requests being authenticated
  Freshness,  \* how long a loaded document is good for, 5 minutes
  Timeout,    \* http.Client.Timeout, 10 seconds
  Horizon,    \* bound on the clock
  NoKey,      \* the key ID of no request
  Never       \* a time that has not come; the zero time.Time

ASSUME TimesAreNatural == Freshness \in Nat \ {0} /\ Timeout \in Nat /\ Horizon \in Nat
ASSUME NeverIsNoTime == Never \notin Nat
ASSUME NoKeyIsNoKey == NoKey \notin Keys

Time == Nat \cup {Never}

VARIABLES
  clock,      \* time.Now()
  published,  \* when the issuer first listed each key
  withdrawn,  \* when the issuer stopped listing it
  keys,       \* oidcAuthenticator.keys
  loadedAt,   \* oidcAuthenticator.loadedAt
  pc,         \* where each request is in key()
  kid,        \* the key ID it names
  since,      \* when it asked for the document
  document    \* the document it got

vars == <<clock, published, withdrawn, keys, loadedAt, pc, kid, since, document>>
issuer   == <<published, withdrawn>>
cache    == <<keys, loadedAt>>
requests == <<pc, kid, since, document>>

Phases == {"idle", "looking", "downloading", "served", "loaded",
           "trusted", "unknown"}

(* The keys the issuer lists now. *)
Listed == {k \in Keys : published[k] # Never /\ withdrawn[k] = Never}

Fresh == loadedAt # Never /\ clock < loadedAt + Freshness

-------------------------------------------------------------------------------
(* Mistakes this code could have made, each in place of the definition below    *)
(* whose name it starts with.                                                  *)

(* A known key is trusted however old the document. *)
LookAtAnyAge(v) ==
  /\ pc[v] = "looking"
  /\ IF kid[v] \in keys
       THEN pc' = [pc EXCEPT ![v] = "trusted"] /\ UNCHANGED since
       ELSE /\ pc' = [pc EXCEPT ![v] = "downloading"]
            /\ since' = [since EXCEPT ![v] = clock]
  /\ UNCHANGED <<clock, issuer, cache, kid, document>>

(* An unknown key is refused while the document is fresh. *)
LookOnlyWhenStale(v) ==
  /\ pc[v] = "looking"
  /\ IF Fresh
       THEN /\ pc' = [pc EXCEPT ![v] = IF kid[v] \in keys THEN "trusted" ELSE "unknown"]
            /\ UNCHANGED since
       ELSE /\ pc' = [pc EXCEPT ![v] = "downloading"]
            /\ since' = [since EXCEPT ![v] = clock]
  /\ UNCHANGED <<clock, issuer, cache, kid, document>>

(* A document without usable keys is stored. *)
StoreAnything(v) ==
  /\ pc[v] = "served"
  /\ keys' = document[v]
  /\ loadedAt' = clock
  /\ pc' = [pc EXCEPT ![v] = "loaded"]
  /\ since' = [since EXCEPT ![v] = 0]
  /\ document' = [document EXCEPT ![v] = {}]
  /\ UNCHANGED <<clock, issuer, kid>>

-------------------------------------------------------------------------------
Init ==
  /\ clock = 0
  /\ published \in [Keys -> {Never, 0}]
  /\ withdrawn = [k \in Keys |-> Never]
  /\ keys = {}
  /\ loadedAt = Never
  /\ pc = [v \in Verifiers |-> "idle"]
  /\ kid = [v \in Verifiers |-> NoKey]
  /\ since = [v \in Verifiers |-> 0]
  /\ document = [v \in Verifiers |-> {}]

(* The issuer rotates its keys; a key ID is not used again. *)
Publish(k) ==
  /\ published[k] = Never
  /\ published' = [published EXCEPT ![k] = clock]
  /\ UNCHANGED <<clock, withdrawn, cache, requests>>

Withdraw(k) ==
  /\ k \in Listed
  /\ withdrawn' = [withdrawn EXCEPT ![k] = clock]
  /\ UNCHANGED <<clock, published, cache, requests>>

(* A request that names key k. *)
Arrive(v, k) ==
  /\ pc[v] = "idle"
  /\ pc' = [pc EXCEPT ![v] = "looking"]
  /\ kid' = [kid EXCEPT ![v] = k]
  /\ UNCHANGED <<clock, issuer, cache, since, document>>

(* The first, read-locked look at the cache. *)
Look(v) ==
  /\ pc[v] = "looking"
  /\ IF kid[v] \in keys /\ Fresh
       THEN pc' = [pc EXCEPT ![v] = "trusted"] /\ UNCHANGED since
       ELSE /\ pc' = [pc EXCEPT ![v] = "downloading"]
            /\ since' = [since EXCEPT ![v] = clock]
  /\ UNCHANGED <<clock, issuer, cache, kid, document>>

(* The issuer answers with the keys it lists now; the answer is under way. *)
Serve(v) ==
  /\ pc[v] = "downloading"
  /\ document' = [document EXCEPT ![v] = Listed]
  /\ pc' = [pc EXCEPT ![v] = "served"]
  /\ UNCHANGED <<clock, issuer, cache, kid, since>>

(* key() has returned and its caller goes on, or refuses the request. *)
Return(v) ==
  /\ pc' = [pc EXCEPT ![v] = "idle"]
  /\ kid' = [kid EXCEPT ![v] = NoKey]
  /\ since' = [since EXCEPT ![v] = 0]
  /\ document' = [document EXCEPT ![v] = {}]
  /\ UNCHANGED <<clock, issuer, cache>>

(* An error status, a broken connection, the timeout, or an answer without a   *)
(* usable key: the cache stays as it is.                                       *)
LoadFails(v) == pc[v] \in {"downloading", "served"} /\ Return(v)

(* The answer has arrived and replaces the cache. *)
Store(v) ==
  /\ pc[v] = "served"
  /\ document[v] # {}
  /\ keys' = document[v]
  /\ loadedAt' = clock
  /\ pc' = [pc EXCEPT ![v] = "loaded"]
  /\ since' = [since EXCEPT ![v] = 0]
  /\ document' = [document EXCEPT ![v] = {}]
  /\ UNCHANGED <<clock, issuer, kid>>

(* The second look, at whatever the cache is by then. *)
Reread(v) ==
  /\ pc[v] = "loaded"
  /\ pc' = [pc EXCEPT ![v] = IF kid[v] \in keys THEN "trusted" ELSE "unknown"]
  /\ UNCHANGED <<clock, issuer, cache, kid, since, document>>

Leave(v) == pc[v] \in {"trusted", "unknown"} /\ Return(v)

(* A download lasts no longer than the client's timeout, and no time passes    *)
(* between storing a document and looking at it.                               *)
Tick ==
  /\ clock < Horizon
  /\ \A v \in Verifiers :
       /\ pc[v] \in {"downloading", "served"} => clock < since[v] + Timeout
       /\ pc[v] # "loaded"
  /\ clock' = clock + 1
  /\ UNCHANGED <<issuer, cache, requests>>

-------------------------------------------------------------------------------
Verify(v) == Look(v) \/ LoadFails(v) \/ Store(v) \/ Reread(v) \/ Leave(v)
Rotate    == \E k \in Keys : Publish(k) \/ Withdraw(k)
ArriveAny == \E v \in Verifiers, k \in Keys : Arrive(v, k)

Next ==
  \/ Rotate
  \/ ArriveAny
  \/ \E v \in Verifiers : Verify(v) \/ Serve(v)
  \/ Tick

Spec == Init /\ [][Next]_vars

-------------------------------------------------------------------------------
(* Properties. *)

(* The fields of oidcAuthenticator: once loaded, the cache is never empty, so  *)
(* an issuer that lists nothing cannot blank it.                               *)
TypeOK ==
  /\ clock \in 0..Horizon
  /\ published \in [Keys -> Time] /\ withdrawn \in [Keys -> Time]
  /\ keys \subseteq Keys /\ loadedAt \in Time
  /\ keys = {} <=> loadedAt = Never
  /\ pc \in [Verifiers -> Phases] /\ kid \in [Verifiers -> Keys \cup {NoKey}]
  /\ since \in [Verifiers -> Nat] /\ document \in [Verifiers -> SUBSET Keys]

Becomes(v, phase) == pc[v] # phase /\ pc'[v] = phase

(* A withdrawn key is trusted for less than Freshness plus Timeout, however    *)
(* many downloads overlap, fail, or replace a newer document by an older one:  *)
(* the older one is stamped as fresh when it arrives, but cannot be older than *)
(* a download may last.                                                        *)
TrustIsBounded ==
  [][\A v \in Verifiers : Becomes(v, "trusted") =>
       /\ published[kid[v]] # Never
       /\ withdrawn[kid[v]] # Never =>
            clock < withdrawn[kid[v]] + Freshness + Timeout]_vars

(* A key is refused as unknown only if the issuer does not list it, or did not *)
(* yet as recently as a download may last: a request never pays for the age of *)
(* the cache, but may pay for an older document that overtook its own.         *)
UnknownIsRecent ==
  [][\A v \in Verifiers : Becomes(v, "unknown") =>
       \/ kid[v] \notin Listed
       \/ clock <= published[kid[v]] + Timeout]_vars

===============================================================================
