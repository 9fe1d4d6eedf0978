----------------------------- MODULE JwksCache -----------------------------
(***************************************************************************)
(* JwksHandle (security/jwks.rs) between the broker's refresher and the    *)
(* validators of oauthbearer.rs.  The key set and the time of the last     *)
(* fetch are two cells, read and written apart; a validator that cannot    *)
(* verify a token asks for a refresh through a channel of one place and    *)
(* does not wait for it.                                                   *)
(*                                                                         *)
(* The identity provider and the refresher are outside this repository:    *)
(* the provider rotates its signing key and goes on publishing the one     *)
(* before; the refresher fetches, notes the time, stores the keys, then    *)
(* the time.  A fetch may fail, and then neither is stored.                *)
(*                                                                         *)
(* Two things are assumed that jwks.rs does not say: the refresher's order *)
(* of its two stores, and that a validator's two loads, of which the first *)
(* is Relaxed, take effect in the order they are written (as they do when  *)
(* the load of the ArcSwap keeps earlier loads before it).                 *)
(***************************************************************************)
EXTENDS Integers, FiniteSets

CONSTANTS
    Validator,  \* connections authenticating
    Retrying,   \* those of a client that keeps coming back with a token of
                \* the provider's current key
    Token,      \* tokens the others present: a key, and whether a kid names it
    Expiries,   \* values of cache_expiry, in ticks, or None
    MaxKey,     \* bound: keys the provider goes through
    MaxTime,    \* bound: ticks of the clock
    MaxFailures,\* bound: fetches that fail
    None

VARIABLES
    expiry,     \* the validators' cache_expiry
    now,        \* the clock; 0 is before any fetch
    signing,    \* the provider's signing key
    keys,       \* the ArcSwap: the published keys last stored, and since when
    last,       \* last_successful_fetch_ms, 0 for never
    signal,     \* whether the channel's one place is taken
    refresher,  \* what the refresher is doing
    failures,
    validator   \* validator[v]: the validate call v is in, or its outcome

vars == <<expiry, now, signing, keys, last, signal, refresher, failures, validator>>

\* The provider signs with one key and publishes it with the one before.
Published(k) == {j \in 0..MaxKey : j \in {k, k - 1}}

Waiting == [phase |-> "waiting"]
Outside == [phase |-> "outside"]

Init ==
    /\ expiry \in Expiries
    /\ now = 1 /\ signing = 0
    /\ keys = [set |-> {}, since |-> 1] /\ last = 0
    /\ signal = FALSE /\ refresher = Waiting /\ failures = 0
    /\ validator = [v \in Validator |-> Outside]

Tick == now < MaxTime /\ now' = now + 1
        /\ UNCHANGED <<expiry, signing, keys, last, signal, refresher, failures, validator>>

RotateKey == signing < MaxKey /\ signing' = signing + 1
             /\ UNCHANGED <<expiry, now, keys, last, signal, refresher, failures, validator>>

(* The refresher, external: on a signal, or of its own accord.             *)
StartFetch(periodic) ==
    /\ refresher.phase = "waiting" /\ (periodic \/ signal)
    /\ signal' = FALSE
    /\ refresher' = [phase |-> "fetching"]
    /\ UNCHANGED <<expiry, now, signing, keys, last, failures, validator>>

FetchAnswered ==
    /\ refresher.phase = "fetching"
    /\ refresher' = [phase |-> "fetched", set |-> Published(signing), at |-> now]
    /\ UNCHANGED <<expiry, now, signing, keys, last, signal, failures, validator>>

FetchFails ==
    /\ refresher.phase = "fetching" /\ failures < MaxFailures
    /\ failures' = failures + 1
    /\ refresher' = Waiting
    /\ UNCHANGED <<expiry, now, signing, keys, last, signal, validator>>

(* JwksHandle::store, then the timestamp the refresher shares. *)
StoreKeys ==
    /\ refresher.phase = "fetched"
    /\ keys' = [set |-> refresher.set, since |-> now]
    /\ refresher' = [phase |-> "stored", at |-> refresher.at]
    /\ UNCHANGED <<expiry, now, signing, last, signal, failures, validator>>

StoreTime ==
    /\ refresher.phase = "stored"
    /\ last' = refresher.at
    /\ refresher' = Waiting
    /\ UNCHANGED <<expiry, now, signing, keys, signal, failures, validator>>

(* A connection presents a token; the broker reads the clock before it     *)
(* calls validate.                                                         *)
Present(v, t) ==
    /\ validator[v].phase = "outside"
    /\ validator' = [validator EXCEPT ![v] =
          [phase |-> "expiry", key |-> t.key, kid |-> t.kid, now |-> now,
           seen |-> None]]
    /\ UNCHANGED <<expiry, now, signing, keys, last, signal, refresher, failures>>

\* Mutant: the expiry is not looked at.
ExpiredNever(t) == t > MaxTime

\* JwksHandle::last_successful_fetch_ms
LastSuccessfulFetch == last

\* The hard expiry of the cache, where there is one; a handle never fetched
\* into is let by.
Expired(t) ==
    expiry # None /\ LastSuccessfulFetch > 0 /\ t - LastSuccessfulFetch > expiry

(* SignedJwsValidator::validate up to the expiry check: an expired cache   *)
(* refuses without asking for a refresh.                                   *)
CheckExpiry(v) ==
    /\ validator[v].phase = "expiry"
    /\ validator' = [validator EXCEPT ![v] =
          IF Expired(@.now) THEN Outside
          ELSE [@ EXCEPT !.phase = "verify", !.seen = LastSuccessfulFetch]]
    /\ UNCHANGED <<expiry, now, signing, keys, last, signal, refresher, failures>>

\* Jwks::verify and select_key: the key the kid names, or the only key.
Verifies(v) ==
    /\ validator[v].key \in keys.set
    /\ validator[v].kid \/ Cardinality(keys.set) = 1

\* Mutant: the signal is dropped.
SignalDropped == signal

\* JwksHandle::signal_refresh: try_send, dropped when the place is taken.
SignalRefresh == TRUE

(* The rest of validate: load the keys and verify; a failure signals.  A   *)
(* call that is over keeps nothing of what it read.                        *)
Verify(v) ==
    /\ validator[v].phase = "verify"
    /\ \/ /\ Verifies(v)
          /\ validator' = [validator EXCEPT ![v] =
                [@ EXCEPT !.phase = "accepted", !.now = 0, !.seen = None]]
          /\ UNCHANGED signal
       \/ /\ ~Verifies(v)
          /\ validator' = [validator EXCEPT ![v] = Outside]
          /\ signal' = SignalRefresh
    /\ UNCHANGED <<expiry, now, signing, keys, last, refresher, failures>>

(* The connection closes; another takes its place. *)
Leave(v) ==
    /\ validator[v].phase = "accepted"
    /\ validator' = [validator EXCEPT ![v] = Outside]
    /\ UNCHANGED <<expiry, now, signing, keys, last, signal, refresher, failures>>

Refresher == StartFetch(FALSE) \/ FetchAnswered \/ StoreKeys \/ StoreTime

Validate(v) == CheckExpiry(v) \/ Verify(v) \/ Leave(v)

Retry(v) == v \in Retrying /\ Present(v, [key |-> signing, kid |-> TRUE])

Next ==
    \/ Tick \/ RotateKey
    \/ StartFetch(TRUE) \/ StartFetch(FALSE) \/ FetchAnswered \/ FetchFails
    \/ StoreKeys \/ StoreTime
    \/ \E v \in Validator \ Retrying, t \in Token :
          t.key <= signing /\ Present(v, t)
    \/ \E v \in Validator : Retry(v) \/ Validate(v)

\* The broker runs the refresher and the connections' tasks; the client retries.
Fairness ==
    /\ WF_vars(Refresher)
    /\ \A v \in Retrying : WF_vars(Retry(v)) /\ WF_vars(Validate(v))

Spec == Init /\ [][Next]_vars /\ Fairness

----------------------------------------------------------------------------

\* With a cache_expiry, a token is accepted only against keys stored within it
\* of the moment it was presented (but for a handle whose first fetch had not
\* been timed yet), although the keys and the time of the fetch are
\* read apart and the refresher may store between the two reads: a key the
\* provider has retired is refused once the cache has expired.
AcceptedFresh ==
    [][\A v \in Validator :
         validator[v].phase = "verify" /\ validator'[v].phase = "accepted"
           => \/ expiry = None \/ validator[v].seen = 0
              \/ validator[v].now - keys.since <= expiry]_vars

\* A client that keeps presenting a token of the key the provider signs with
\* gets in (or the provider rotates again, or the cache expires): the
\* refusal it meets first asks for a refresh, and a signal dropped because
\* one is pending, or sent while a fetch is under way, is not lost.
RotatedKeyAccepted ==
    \A k \in 0..MaxKey :
        signing = k ~> \/ signing # k
                       \/ \E v \in Retrying :
                             validator[v].phase = "accepted" /\ validator[v].key = k
                       \/ Expired(now)

=============================================================================
