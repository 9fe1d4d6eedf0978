--------------------------- MODULE MCCredentials ---------------------------
(***************************************************************************)
(* The authentication components for TLC: SCRAM, GSSAPI, the TLS           *)
(* configuration and the JWKS cache share no state, so each behaviour here *)
(* is a behaviour of one of them, and the others' variables stay where     *)
(* they began.  One configuration has the JWKS cache, one the other parts. *)
(***************************************************************************)
EXTENDS Scram

CONSTANTS
    Parts,                                                \* that are at work
    ada, token, p, q, sha256, sha512,                     \* of Scram
    MaxLegs, Layer, AUTH,                                 \* of Gssapi
    Reload, Handshake, MaxRotation, MaxReloads, Torn,     \* of TlsReload
    Validator, Retrying, Token,                           \* of JwksCache
    Expiries, MaxKey, MaxTime, MaxFailures

\* A delegation token's id logs in as its owner.
MCOwner == [u \in User |-> IF u = token THEN ada ELSE None]

MCEnrolled ==
    [u \in User |-> [password |-> p, salt |-> 0, mechanism |-> sha256]]

LogIn(u, w, m, a) ==
    [user |-> u, password |-> w, mechanism |-> m, authzid |-> a]

\* The enrolled password, another one, another mechanism, a token, and an
\* authorization id that is the user's and one that is not.
MCLogin ==
    { LogIn(ada, p, sha256, None), LogIn(ada, q, sha256, ada),
      LogIn(ada, p, sha512, None), LogIn(token, p, sha256, None),
      LogIn(token, p, sha256, ada) }

MCAltered == {[password |-> q, mechanism |-> sha256]}

\* A token of the first key, with and without a kid.
MCToken == [key : {0}, kid : BOOLEAN]

VARIABLES
    part,
    legs, gssUser, offers, picks, initiator, acceptor, read, inFlight,
    garbled, turn, result,
    auth, files, rotation, reload, calls, inner, late, held,
    expiry, now, signing, keys, last, signal, refresher, failures, validator

gssVars == <<legs, gssUser, offers, picks, initiator, acceptor, read, inFlight,
             garbled, turn, result>>
tlsVars == <<auth, files, rotation, reload, calls, inner, late, held>>
jwksVars == <<expiry, now, signing, keys, last, signal, refresher, failures, validator>>
allVars == <<part, vars, gssVars, tlsVars, jwksVars>>

Gss == INSTANCE Gssapi WITH
         Principal <- User, user <- gssUser, client <- initiator,
         server <- acceptor, token <- inFlight

Tls == INSTANCE TlsReload

Keys == INSTANCE JwksCache

MCInit ==
    /\ part \in Parts
    /\ Init /\ Gss!Init /\ Tls!Init /\ Keys!Init
    \* one context and one configuration suffice while another part is at work
    /\ part # "gssapi" =>
         legs = 1 /\ gssUser = ada /\ offers = {} /\ picks = AUTH
    /\ part # "tls" => ~auth
    /\ part # "jwks" => expiry = None

ScramStep == part = "scram" /\ Next /\ UNCHANGED <<part, gssVars, tlsVars, jwksVars>>
GssStep   == part = "gssapi" /\ Gss!Next /\ UNCHANGED <<part, vars, tlsVars, jwksVars>>
TlsStep   == part = "tls" /\ Tls!Next /\ UNCHANGED <<part, vars, gssVars, jwksVars>>
JwksStep  == part = "jwks" /\ Keys!Next /\ UNCHANGED <<part, vars, gssVars, tlsVars>>

MCNext == ScramStep \/ GssStep \/ TlsStep \/ JwksStep

\* The fairness of Gssapi and of JwksCache, for the part that moves.
MCFairness ==
    /\ WF_allVars(part = "gssapi" /\ Gss!Step /\ UNCHANGED <<part, vars, tlsVars, jwksVars>>)
    /\ WF_allVars(part = "jwks" /\ Keys!Refresher
                  /\ UNCHANGED <<part, vars, gssVars, tlsVars>>)
    /\ \A v \in Retrying :
         /\ WF_allVars(part = "jwks" /\ Keys!Retry(v)
                       /\ UNCHANGED <<part, vars, gssVars, tlsVars>>)
         /\ WF_allVars(part = "jwks" /\ Keys!Validate(v)
                       /\ UNCHANGED <<part, vars, gssVars, tlsVars>>)

MCSpec == MCInit /\ [][MCNext]_allVars /\ MCFairness

\* GSSAPI: Done only through the authentication layer both sides are for.
DoneAgreed == Gss!DoneAgreed

\* GSSAPI: every handshake ends, and as the two sides' layers say.
Concludes == part = "gssapi" => Gss!Concludes

\* TLS: an older certificate comes back only through overlapping reloads.
OlderOnlyWhenOverlapped == Tls!OlderOnlyWhenOverlapped

\* JWKS: no token is accepted against keys older than the cache's expiry.
AcceptedFresh == Keys!AcceptedFresh

\* JWKS: a refused token of the current key is accepted on a later attempt.
RotatedKeyAccepted == part = "jwks" => Keys!RotatedKeyAccepted
=============================================================================
