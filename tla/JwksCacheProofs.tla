---------------------------- MODULE JwksCacheProofs ----------------------------
(* Theorems about JwksCache, for all sets of keys and requests and all times.  *)
EXTENDS JwksCache, TLAPS

-------------------------------------------------------------------------------
(* The inductive invariant. *)

(* What the document D tells, asked for no earlier than t, of the issuer's     *)
(* keys: those in it were listed at t or later, those missing appeared later.  *)
Witnesses(D, t) ==
  /\ \A k \in D : /\ published[k] # Never
                  /\ withdrawn[k] # Never => t <= withdrawn[k]
  /\ \A k \in Listed \ D : t <= published[k]

(* The issuer's past is past. *)
IssuerInTime ==
  \A k \in Keys : withdrawn[k] # Never => published[k] # Never

(* Downloads are no older than Timeout and carry a document of their time.     *)
DownloadsInTime ==
  \A v \in Verifiers :
    /\ pc[v] \in {"downloading", "served"} =>
         since[v] <= clock /\ clock <= since[v] + Timeout
    /\ pc[v] = "served" => Witnesses(document[v], since[v])

(* The cache is no older than its stamp by more than Timeout. *)
CacheInTime ==
  loadedAt # Never => loadedAt <= clock /\ Witnesses(keys, loadedAt - Timeout)

(* Between storing a document and looking at it no time passes. *)
LoadedNow ==
  \A v \in Verifiers : pc[v] = "loaded" => loadedAt = clock

KeysInv ==
  /\ TypeOK
  /\ IssuerInTime
  /\ DownloadsInTime
  /\ CacheInTime
  /\ LoadedNow

-------------------------------------------------------------------------------
LEMMA KeysInvInit == Init => KeysInv
<1> SUFFICES ASSUME Init PROVE KeysInv
  OBVIOUS
<1> USE DEF Init
<1>1. TypeOK
  BY TimesAreNatural DEF TypeOK, Time, Phases
<1>2. IssuerInTime /\ DownloadsInTime /\ CacheInTime /\ LoadedNow
  BY DEF IssuerInTime, DownloadsInTime, CacheInTime, LoadedNow
<1> QED
  BY <1>1, <1>2 DEF KeysInv

(* What a document tells stays true when the issuer does not move. *)
LEMMA WitnessesStay ==
  ASSUME UNCHANGED issuer, NEW D, NEW t
  PROVE  Witnesses(D, t) => Witnesses(D, t)'
  BY DEF Witnesses, Listed, issuer

(* A key that is published now contradicts no document asked for earlier.      *)
LEMMA PublishWitnesses ==
  ASSUME KeysInv, NEW k \in Keys, Publish(k),
         NEW D \in SUBSET Keys, NEW t \in Int, t <= clock, Witnesses(D, t)
  PROVE  Witnesses(D, t)'
<1>1. published' = [published EXCEPT ![k] = clock] /\ withdrawn' = withdrawn
  BY DEF Publish
<1>2. clock \in Nat /\ published \in [Keys -> Time] /\ published[k] = Never
  BY TimesAreNatural DEF KeysInv, TypeOK, Publish
<1>3. \A j \in Keys : published'[j] = IF j = k THEN clock ELSE published[j]
  BY <1>1, <1>2
<1>4. k \notin D
  BY <1>2 DEF Witnesses
<1>5. \A j \in D : published'[j] = published[j]
  BY <1>3, <1>4
<1>6. ASSUME NEW j \in Listed' \ D PROVE t <= published'[j]
  <2>1. CASE j = k
    BY <1>3, <2>1
  <2>2. CASE j # k
    <3>1. j \in Listed \ D
      BY <1>1, <1>3, <1>6, <2>2 DEF Listed
    <3> QED
      BY <1>3, <2>2, <3>1 DEF Witnesses, Listed
  <2> QED
    BY <2>1, <2>2
<1> QED
  BY <1>1, <1>5, <1>6 DEF Witnesses

(* Nor does a key that is withdrawn now. *)
LEMMA WithdrawWitnesses ==
  ASSUME KeysInv, NEW k \in Keys, Withdraw(k),
         NEW D \in SUBSET Keys, NEW t \in Int, t <= clock, Witnesses(D, t)
  PROVE  Witnesses(D, t)'
<1>1. withdrawn' = [withdrawn EXCEPT ![k] = clock] /\ published' = published
  BY DEF Withdraw
<1>2. clock \in Nat /\ clock # Never /\ withdrawn \in [Keys -> Time]
  BY TimesAreNatural, NeverIsNoTime DEF KeysInv, TypeOK
<1>3. \A j \in Keys : withdrawn'[j] = IF j = k THEN clock ELSE withdrawn[j]
  BY <1>1, <1>2
<1>4. Listed' \subseteq Listed
  BY <1>1, <1>2, <1>3 DEF Listed
<1> QED
  BY <1>1, <1>3, <1>4 DEF Witnesses

(* The issuer's steps, given that documents survive them. *)
LEMMA IssuerStep ==
  ASSUME KeysInv, UNCHANGED <<clock, cache, requests>>, TypeOK', IssuerInTime',
         \A D \in SUBSET Keys, t \in Int :
           t <= clock /\ Witnesses(D, t) => Witnesses(D, t)'
  PROVE  KeysInv'
<1> USE DEF KeysInv, cache, requests
<1>1. clock \in Nat /\ Timeout \in Nat
  BY TimesAreNatural DEF TypeOK
<1>2. DownloadsInTime'
  <2> SUFFICES ASSUME NEW v \in Verifiers
               PROVE  /\ pc[v] \in {"downloading", "served"} =>
                           since[v] <= clock /\ clock <= since[v] + Timeout
                      /\ pc[v] = "served" => Witnesses(document[v], since[v])'
    BY DEF DownloadsInTime
  <2>1. document[v] \in SUBSET Keys /\ since[v] \in Int
    BY DEF TypeOK
  <2> QED
    BY <2>1 DEF DownloadsInTime
<1>3. CacheInTime'
  <2>1. CASE loadedAt # Never
    <3>1. keys \in SUBSET Keys /\ loadedAt - Timeout \in Int /\ loadedAt - Timeout <= clock
      BY <1>1, <2>1 DEF TypeOK, Time, CacheInTime
    <3> QED
      BY <2>1, <3>1 DEF CacheInTime
  <2>2. CASE loadedAt = Never
    BY <2>2 DEF CacheInTime
  <2> QED
    BY <2>1, <2>2
<1>4. LoadedNow'
  BY DEF LoadedNow
<1> QED
  BY <1>2, <1>3, <1>4

LEMMA PublishStep ==
  ASSUME KeysInv, NEW k \in Keys, Publish(k)
  PROVE  KeysInv'
<1>1. TypeOK'
  BY TimesAreNatural DEF KeysInv, TypeOK, Publish, Time, cache, requests
<1>2. IssuerInTime'
  BY TimesAreNatural, NeverIsNoTime DEF KeysInv, TypeOK, IssuerInTime, Publish
<1> QED
  BY <1>1, <1>2, PublishWitnesses, IssuerStep DEF Publish

LEMMA WithdrawStep ==
  ASSUME KeysInv, NEW k \in Keys, Withdraw(k)
  PROVE  KeysInv'
<1>1. TypeOK'
  BY TimesAreNatural DEF KeysInv, TypeOK, Withdraw, Time, cache, requests
<1>2. IssuerInTime'
  BY DEF KeysInv, TypeOK, IssuerInTime, Withdraw, Listed
<1> QED
  BY <1>1, <1>2, WithdrawWitnesses, IssuerStep DEF Withdraw

(* A step of one request that stores nothing. *)
LEMMA RequestStep ==
  ASSUME KeysInv, UNCHANGED <<clock, issuer, cache>>, TypeOK', NEW v \in Verifiers,
         \A u \in Verifiers \ {v} : /\ pc'[u] = pc[u] /\ since'[u] = since[u]
                                    /\ document'[u] = document[u],
         pc'[v] \in {"downloading", "served"} =>
           since'[v] <= clock /\ clock <= since'[v] + Timeout,
         pc'[v] = "served" => Witnesses(document'[v], since'[v]),
         pc'[v] # "loaded"
  PROVE  KeysInv'
<1> USE DEF KeysInv, cache
<1>1. \A u \in Verifiers : pc'[u] = "served" => Witnesses(document'[u], since'[u])
  BY DEF DownloadsInTime
<1>2. \A u \in Verifiers : pc'[u] = "served" => Witnesses(document[u], since[u])'
  BY <1>1 DEF Witnesses, Listed, issuer
<1>3. DownloadsInTime'
  BY <1>2 DEF DownloadsInTime
<1>4. CacheInTime'
  BY WitnessesStay DEF CacheInTime, Witnesses, Listed, issuer
<1>5. IssuerInTime' /\ LoadedNow'
  BY DEF IssuerInTime, LoadedNow, issuer
<1> QED
  BY <1>3, <1>4, <1>5

LEMMA ArriveStep ==
  ASSUME KeysInv, NEW v \in Verifiers, NEW k \in Keys, Arrive(v, k)
  PROVE  KeysInv'
<1>1. TypeOK'
  BY DEF KeysInv, TypeOK, Arrive, Phases, issuer, cache
<1>2. pc'[v] = "looking"
  BY DEF KeysInv, TypeOK, Arrive
<1>3. \A u \in Verifiers \ {v} : /\ pc'[u] = pc[u] /\ since'[u] = since[u]
                                 /\ document'[u] = document[u]
  BY DEF KeysInv, TypeOK, Arrive
<1> QED
  BY <1>1, <1>2, <1>3, RequestStep DEF Arrive

LEMMA LookStep ==
  ASSUME KeysInv, NEW v \in Verifiers, Look(v)
  PROVE  KeysInv'
<1>1. TypeOK'
  <2>1. clock \in Nat
    BY TimesAreNatural DEF KeysInv, TypeOK
  <2>2. pc' \in [Verifiers -> Phases] /\ since' \in [Verifiers -> Nat]
    BY <2>1 DEF KeysInv, TypeOK, Look, Phases
  <2> QED
    BY <2>2 DEF KeysInv, TypeOK, Look, issuer, cache
<1>2. pc'[v] = "trusted" \/ (pc'[v] = "downloading" /\ since'[v] = clock)
  BY DEF KeysInv, TypeOK, Look
<1>3. \A u \in Verifiers \ {v} : /\ pc'[u] = pc[u] /\ since'[u] = since[u]
                                 /\ document'[u] = document[u]
  BY DEF KeysInv, TypeOK, Look
<1>4. clock \in Nat /\ Timeout \in Nat
  BY TimesAreNatural DEF KeysInv, TypeOK
<1> QED
  BY <1>1, <1>2, <1>3, <1>4, RequestStep DEF Look

LEMMA ServeStep ==
  ASSUME KeysInv, NEW v \in Verifiers, Serve(v)
  PROVE  KeysInv'
<1>1. TypeOK'
  <2>1. Listed \in SUBSET Keys
    BY DEF Listed
  <2> QED
    BY <2>1 DEF KeysInv, TypeOK, Serve, Phases, issuer, cache
<1>2. pc'[v] = "served" /\ since'[v] = since[v] /\ document'[v] = Listed
  BY DEF KeysInv, TypeOK, Serve
<1>3. \A u \in Verifiers \ {v} : /\ pc'[u] = pc[u] /\ since'[u] = since[u]
                                 /\ document'[u] = document[u]
  BY DEF KeysInv, TypeOK, Serve
<1>4. since[v] <= clock /\ clock <= since[v] + Timeout
  BY DEF KeysInv, DownloadsInTime, Serve
<1>5. Witnesses(Listed, since[v])
  BY DEF Witnesses, Listed
<1> QED
  BY <1>1, <1>2, <1>3, <1>4, <1>5, RequestStep DEF Serve

LEMMA ReturnStep ==
  ASSUME KeysInv, NEW v \in Verifiers, Return(v)
  PROVE  KeysInv'
<1>1. TypeOK'
  BY DEF KeysInv, TypeOK, Return, Phases, issuer, cache
<1>2. pc'[v] = "idle"
  BY DEF KeysInv, TypeOK, Return
<1>3. \A u \in Verifiers \ {v} : /\ pc'[u] = pc[u] /\ since'[u] = since[u]
                                 /\ document'[u] = document[u]
  BY DEF KeysInv, TypeOK, Return
<1> QED
  BY <1>1, <1>2, <1>3, RequestStep DEF Return

LEMMA RereadStep ==
  ASSUME KeysInv, NEW v \in Verifiers, Reread(v)
  PROVE  KeysInv'
<1>1. TypeOK'
  BY DEF KeysInv, TypeOK, Reread, Phases, issuer, cache
<1>2. pc'[v] \in {"trusted", "unknown"}
  BY DEF KeysInv, TypeOK, Reread
<1>3. \A u \in Verifiers \ {v} : /\ pc'[u] = pc[u] /\ since'[u] = since[u]
                                 /\ document'[u] = document[u]
  BY DEF KeysInv, TypeOK, Reread
<1> QED
  BY <1>1, <1>2, <1>3, RequestStep DEF Reread

LEMMA StoreStep ==
  ASSUME KeysInv, NEW v \in Verifiers, Store(v)
  PROVE  KeysInv'
<1> USE DEF KeysInv, Store
<1>1. clock \in Nat /\ clock # Never /\ Timeout \in Nat /\ since[v] \in Nat
  BY TimesAreNatural, NeverIsNoTime DEF TypeOK
<1>2. TypeOK'
  BY <1>1 DEF TypeOK, Time, Phases, issuer
<1>3. Witnesses(document[v], since[v]) /\ clock <= since[v] + Timeout
  BY DEF DownloadsInTime
<1>4. Witnesses(document[v], clock - Timeout)
  <2>1. clock - Timeout <= since[v]
    BY <1>1, <1>3
  <2>2. ASSUME NEW k \in document[v], withdrawn[k] # Never
        PROVE  clock - Timeout <= withdrawn[k]
    <3>1. withdrawn[k] \in Nat
      BY <2>2 DEF TypeOK, Time
    <3> QED
      BY <1>1, <1>3, <2>1, <2>2, <3>1 DEF Witnesses
  <2>3. ASSUME NEW k \in Listed \ document[v]
        PROVE  clock - Timeout <= published[k]
    <3>1. published[k] \in Nat
      BY <2>3 DEF TypeOK, Time, Listed
    <3> QED
      BY <1>1, <1>3, <2>1, <3>1 DEF Witnesses
  <2> QED
    BY <1>3, <2>2, <2>3 DEF Witnesses
<1>5. CacheInTime'
  BY <1>1, <1>4 DEF CacheInTime, Witnesses, Listed, issuer
<1>6. \A u \in Verifiers : \/ pc'[u] = "loaded"
                           \/ /\ pc'[u] = pc[u] /\ since'[u] = since[u]
                              /\ document'[u] = document[u]
  BY DEF TypeOK
<1>7. DownloadsInTime'
  BY <1>6 DEF DownloadsInTime, Witnesses, Listed, issuer
<1>8. IssuerInTime' /\ LoadedNow'
  BY DEF IssuerInTime, LoadedNow, issuer
<1> QED
  BY <1>2, <1>5, <1>7, <1>8

LEMMA TickStep ==
  ASSUME KeysInv, Tick
  PROVE  KeysInv'
<1> USE DEF KeysInv, Tick, cache, requests, issuer
<1>1. clock \in Nat /\ clock' = clock + 1 /\ clock' <= Horizon /\ Timeout \in Nat
  BY TimesAreNatural DEF TypeOK
<1>2. TypeOK'
  BY <1>1, TimesAreNatural DEF TypeOK
<1>3. DownloadsInTime'
  <2> SUFFICES ASSUME NEW v \in Verifiers
               PROVE  /\ pc[v] \in {"downloading", "served"} =>
                           since[v] <= clock' /\ clock' <= since[v] + Timeout
                      /\ pc[v] = "served" => Witnesses(document[v], since[v])
    BY DEF DownloadsInTime, Witnesses, Listed
  <2>1. since[v] \in Nat
    BY DEF TypeOK
  <2> QED
    BY <1>1, <2>1 DEF DownloadsInTime
<1>4. CacheInTime'
  <2>1. loadedAt # Never => loadedAt <= clock'
    BY <1>1 DEF CacheInTime, TypeOK, Time
  <2> QED
    BY <2>1 DEF CacheInTime, Witnesses, Listed
<1>5. IssuerInTime' /\ LoadedNow'
  BY DEF IssuerInTime, LoadedNow
<1> QED
  BY <1>2, <1>3, <1>4, <1>5

LEMMA KeysInvNext == KeysInv /\ [Next]_vars => KeysInv'
<1> SUFFICES ASSUME KeysInv, [Next]_vars PROVE KeysInv'
  OBVIOUS
<1>1. CASE Rotate
  BY <1>1, PublishStep, WithdrawStep DEF Rotate
<1>2. CASE ArriveAny
  BY <1>2, ArriveStep DEF ArriveAny
<1>3. CASE \E v \in Verifiers : Verify(v) \/ Serve(v)
  BY <1>3, LookStep, ReturnStep, StoreStep, RereadStep, ServeStep
  DEF Verify, LoadFails, Leave
<1>4. CASE Tick
  BY <1>4, TickStep
<1>5. CASE UNCHANGED vars
  BY <1>5 DEF vars, KeysInv, TypeOK, IssuerInTime, DownloadsInTime, CacheInTime,
              LoadedNow, Witnesses, Listed
<1> QED
  BY <1>1, <1>2, <1>3, <1>4, <1>5 DEF Next

(* The inductive invariant holds in every behaviour. *)
THEOREM KeysInvariance == Spec => []KeysInv
  BY KeysInvInit, KeysInvNext, PTL DEF Spec

(* Once oidcAuthenticator has loaded keys its cache is never empty again,      *)
(* whatever the issuer answers and in which order downloads end.               *)
THEOREM TypeCorrect == Spec => []TypeOK
<1>1. KeysInv => TypeOK
  BY DEF KeysInv
<1> QED
  BY <1>1, KeysInvariance, PTL

-------------------------------------------------------------------------------
(* Where a key becomes trusted or is refused. *)

LEMMA BecomesTrusted ==
  ASSUME KeysInv, [Next]_vars, NEW v \in Verifiers, Becomes(v, "trusted")
  PROVE  /\ kid[v] \in keys
         /\ Fresh \/ pc[v] = "loaded"
<1> USE DEF KeysInv, TypeOK, Becomes
<1>1. CASE Rotate \/ Tick \/ UNCHANGED vars
  BY <1>1 DEF Rotate, Publish, Withdraw, Tick, vars, requests
<1>2. CASE ArriveAny
  BY <1>2 DEF ArriveAny, Arrive
<1>3. ASSUME NEW u \in Verifiers, Verify(u) \/ Serve(u)
      PROVE  /\ kid[v] \in keys
             /\ Fresh \/ pc[v] = "loaded"
  <2>1. u = v
    BY <1>3 DEF Verify, Serve, Look, LoadFails, Store, Reread, Leave, Return
  <2> QED
    BY <1>3, <2>1 DEF Verify, Serve, Look, LoadFails, Store, Reread, Leave, Return
<1> QED
  BY <1>1, <1>2, <1>3 DEF Next

LEMMA BecomesUnknown ==
  ASSUME KeysInv, [Next]_vars, NEW v \in Verifiers, Becomes(v, "unknown")
  PROVE  kid[v] \notin keys /\ pc[v] = "loaded"
<1> USE DEF KeysInv, TypeOK, Becomes
<1>1. CASE Rotate \/ Tick \/ UNCHANGED vars
  BY <1>1 DEF Rotate, Publish, Withdraw, Tick, vars, requests
<1>2. CASE ArriveAny
  BY <1>2 DEF ArriveAny, Arrive
<1>3. ASSUME NEW u \in Verifiers, Verify(u) \/ Serve(u)
      PROVE  kid[v] \notin keys /\ pc[v] = "loaded"
  <2>1. u = v
    BY <1>3 DEF Verify, Serve, Look, LoadFails, Store, Reread, Leave, Return
  <2> QED
    BY <1>3, <2>1 DEF Verify, Serve, Look, LoadFails, Store, Reread, Leave, Return
<1> QED
  BY <1>1, <1>2, <1>3 DEF Next

(* A cache that holds anything has been loaded. *)
LEMMA CacheIsStamped ==
  ASSUME KeysInv, keys # {} \/ \E v \in Verifiers : pc[v] = "loaded"
  PROVE  /\ loadedAt \in Nat /\ loadedAt # Never
         /\ Witnesses(keys, loadedAt - Timeout)
<1>1. clock \in Nat /\ clock # Never
  BY TimesAreNatural, NeverIsNoTime DEF KeysInv, TypeOK
<1>2. loadedAt # Never
  BY <1>1 DEF KeysInv, TypeOK, LoadedNow
<1> QED
  BY <1>2 DEF KeysInv, TypeOK, Time, CacheInTime

(* A withdrawn key is trusted for less than Freshness plus Timeout, whatever   *)
(* the order in which the downloads of loadKeys end.                           *)
THEOREM BoundedTrust == Spec => TrustIsBounded
<1>1. ASSUME KeysInv, [Next]_vars, NEW v \in Verifiers, Becomes(v, "trusted")
      PROVE  /\ published[kid[v]] # Never
             /\ withdrawn[kid[v]] # Never =>
                  clock < withdrawn[kid[v]] + Freshness + Timeout
  <2>1. kid[v] \in keys /\ (Fresh \/ pc[v] = "loaded")
    BY <1>1, BecomesTrusted
  <2>2. loadedAt \in Nat /\ Witnesses(keys, loadedAt - Timeout)
    BY <1>1, <2>1, CacheIsStamped
  <2>3. clock \in Nat /\ clock < loadedAt + Freshness
    BY <1>1, <2>1, <2>2, TimesAreNatural DEF KeysInv, TypeOK, LoadedNow, Fresh
  <2>4. withdrawn[kid[v]] # Never => withdrawn[kid[v]] \in Nat
    BY <1>1, <2>1 DEF KeysInv, TypeOK, Time
  <2> QED
    BY <2>1, <2>2, <2>3, <2>4, TimesAreNatural DEF Witnesses
<1>2. KeysInv /\ [Next]_vars =>
        [\A v \in Verifiers : Becomes(v, "trusted") =>
           /\ published[kid[v]] # Never
           /\ withdrawn[kid[v]] # Never =>
                clock < withdrawn[kid[v]] + Freshness + Timeout]_vars
  BY <1>1
<1> QED
  BY <1>2, KeysInvariance, PTL DEF Spec, TrustIsBounded

(* A key the issuer lists is refused as unknown only within Timeout of its     *)
(* publication, although the cache is read again after it was stored.          *)
THEOREM RecentUnknown == Spec => UnknownIsRecent
<1>1. ASSUME KeysInv, [Next]_vars, NEW v \in Verifiers, Becomes(v, "unknown"),
             kid[v] \in Listed
      PROVE  clock <= published[kid[v]] + Timeout
  <2>1. kid[v] \notin keys /\ pc[v] = "loaded"
    BY <1>1, BecomesUnknown
  <2>2. loadedAt \in Nat /\ Witnesses(keys, loadedAt - Timeout) /\ loadedAt = clock
    BY <1>1, <2>1, CacheIsStamped DEF KeysInv, LoadedNow
  <2>3. published[kid[v]] \in Nat
    BY <1>1 DEF KeysInv, TypeOK, Time, Listed
  <2> QED
    BY <1>1, <2>1, <2>2, <2>3, TimesAreNatural DEF Witnesses
<1>2. KeysInv /\ [Next]_vars =>
        [\A v \in Verifiers : Becomes(v, "unknown") =>
           \/ kid[v] \notin Listed
           \/ clock <= published[kid[v]] + Timeout]_vars
  BY <1>1
<1> QED
  BY <1>2, KeysInvariance, PTL DEF Spec, UnknownIsRecent

===============================================================================
