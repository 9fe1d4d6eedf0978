------------------------------- MODULE Scram -------------------------------
(***************************************************************************)
(* RFC 5802 SCRAM as scram/client.rs and scram/server.rs run it: client    *)
(* exchanges and server exchanges of many connections at once.             *)
(*                                                                         *)
(* A nonce is the identity of the exchange that drew it (18 random bytes). *)
(* A derived key is the record of its label and of what it is derived      *)
(* from, client and server keys told apart by the label; an HMAC is the    *)
(* record of its key and of the message under it: two of them are equal    *)
(* exactly when their inputs are.  Nothing is assumed of the order in      *)
(* which connections deliver: an exchange may be handed any message sent   *)
(* so far, by anyone, any number of times.                                 *)
(***************************************************************************)
EXTENDS Integers

CONSTANTS
    Client,     \* client exchanges
    Server,     \* server exchanges
    User,       \* SCRAM user names and delegation-token ids
    Password,
    Mechanism,  \* SCRAM-SHA-256 and SCRAM-SHA-512
    Owner,      \* Owner[u]: the principal a login as u is stamped with, or
                \* None when it is the user itself
    Login,      \* what clients log in with: a user, a password, a mechanism
                \* and an authorization id
    Enrolled,   \* Enrolled[u]: the credential u starts with
    Altered,    \* the passwords and mechanisms credentials are altered to
    None,       \* an absent value, an authorization id among them
    MaxSalt     \* bound: how often one credential is replaced

ASSUME NoneAssumption == None \notin User

ASSUME LoginAssumption ==
    /\ Login \subseteq [user : User, password : Password,
                        mechanism : Mechanism, authzid : User \cup {None}]
    /\ Altered \subseteq [password : Password, mechanism : Mechanism]
    /\ Enrolled \in [User -> [password : Password, salt : {0},
                             mechanism : Mechanism]]

VARIABLES
    client,     \* client[c]: the client exchange c
    server,     \* server[s]: the server exchange s
    credential, \* credential[u]: what the metadata image holds for u
    sent        \* every message sent so far

vars == <<client, server, credential, sent>>

----------------------------------------------------------------------------
(* Messages and what they are computed from.                               *)

Bare(c, u) == [user |-> u, nonce |-> c]

ClientFirst(c, u, a) == [type |-> "client_first", authzid |-> a, bare |-> Bare(c, u)]

\* Mutant: the server adds no nonce of its own.
ServerFirstEcho(s, bare, cred) ==
    [type |-> "server_first", nonce |-> <<bare.nonce>>, salt |-> cred.salt]

\* The server nonce is fresh, and is appended to the client's.
ServerFirst(s, bare, cred) ==
    [type |-> "server_first", nonce |-> <<bare.nonce, s>>, salt |-> cred.salt]

AuthMessage(bare, first, nonce) == <<bare, first, nonce>>

\* The salted password under one of the labels "Client Key" and "Server Key".
Key(label, p, salt, m) ==
    [label |-> label, password |-> p, salt |-> salt, mechanism |-> m]

Mac(key, message) == [key |-> key, over |-> message]

ClientFinal(nonce, mac) == [type |-> "client_final", nonce |-> nonce, proof |-> mac]

ServerFinal(mac) == [type |-> "server_final", signature |-> mac]

StoredKey(cred) == Key("Client Key", cred.password, cred.salt, cred.mechanism)
ServerKey(cred) == Key("Server Key", cred.password, cred.salt, cred.mechanism)

----------------------------------------------------------------------------

IdleClient == [phase |-> "idle", user |-> None, password |-> None,
               mechanism |-> None, first |-> None]

IdleServer == [phase |-> "idle", user |-> None, credential |-> None,
               bare |-> None, first |-> None, principal |-> None]

Init ==
    /\ client = [c \in Client |-> IdleClient]
    /\ server = [s \in Server |-> IdleServer]
    /\ credential = Enrolled
    /\ sent = {}

ClientTo(c, phase) == client' = [client EXCEPT ![c] = [@ EXCEPT !.phase = phase]]
ServerTo(s, phase) == server' = [server EXCEPT ![s] = [@ EXCEPT !.phase = phase]]

(* ScramClientExchange::client_first.  This crate's client sends no        *)
(* authorization id; a peer that speaks the same protocol may.             *)
SendClientFirst(c, l) ==
    /\ client[c].phase = "idle"
    /\ client' = [client EXCEPT ![c] =
          [phase |-> "awaiting_server_first", user |-> l.user,
           password |-> l.password, mechanism |-> l.mechanism, first |-> None]]
    /\ sent' = sent \cup {ClientFirst(c, l.user, l.authzid)}
    /\ UNCHANGED <<server, credential>>

(* ScramServerExchange::new and new_with_principal: the broker looks the   *)
(* credential up once, and the exchange keeps its copy.                    *)
NewServer(s, u) ==
    /\ server[s].phase = "idle"
    /\ server' = [server EXCEPT ![s] =
          [phase |-> "awaiting_client_first", user |-> u,
           credential |-> credential[u],
           bare |-> None, first |-> None, principal |-> None]]
    /\ UNCHANGED <<client, credential, sent>>

\* The message is a client-first, names the exchange's user, and any
\* authorization id in it is that user.
AdmitsFirst(s, m) ==
    /\ m.type = "client_first"
    /\ m.bare.user = server[s].user
    /\ m.authzid \in {None, m.bare.user}

(* AwaitingClientFirst::step *)
ServerOnFirst(s, m) ==
    /\ server[s].phase = "awaiting_client_first"
    /\ \/ /\ AdmitsFirst(s, m)
          /\ LET first == ServerFirst(s, m.bare, server[s].credential) IN
             /\ server' = [server EXCEPT ![s] =
                   [@ EXCEPT !.phase = "awaiting_client_final",
                             !.bare = m.bare, !.first = first]]
             /\ sent' = sent \cup {first}
       \/ ~AdmitsFirst(s, m) /\ ServerTo(s, "failed") /\ UNCHANGED sent
    /\ UNCHANGED <<client, credential>>

\* The message is a server-first, and its combined nonce begins with the
\* nonce this exchange drew.
OwnNonce(c, m) == m.type = "server_first" /\ m.nonce[1] = c

\* The keys client c derives once answered by server-first m, and what it
\* puts them to.
ClientKey(c, m) == Key("Client Key", client[c].password, m.salt, client[c].mechanism)
ClientServerKey(c, m) == Key("Server Key", client[c].password, m.salt, client[c].mechanism)
ClientAuth(c, m) == AuthMessage(Bare(c, client[c].user), m, m.nonce)

(* AwaitingServerFirst::step *)
ClientOnFirst(c, m) ==
    /\ client[c].phase = "awaiting_server_first"
    /\ \/ /\ OwnNonce(c, m)
          /\ client' = [client EXCEPT ![c] =
                [@ EXCEPT !.phase = "awaiting_server_final", !.first = m]]
          /\ sent' = sent \cup
                {ClientFinal(m.nonce, Mac(ClientKey(c, m), ClientAuth(c, m)))}
       \/ ~OwnNonce(c, m) /\ ClientTo(c, "failed") /\ UNCHANGED sent
    /\ UNCHANGED <<server, credential>>

ServerAuth(s, m) == AuthMessage(server[s].bare, server[s].first, m.nonce)

ExpectedProof(s, m) == Mac(StoredKey(server[s].credential), ServerAuth(s, m))

ServerSignature(s, m) == Mac(ServerKey(server[s].credential), ServerAuth(s, m))

\* The nonce issued comes back.
NonceReturned(s, m) == m.type = "client_final" /\ m.nonce = server[s].first.nonce

\* The proof is as long as the credential's hash.
ProofSized(s, m) == m.proof.key.mechanism = server[s].credential.mechanism

\* verify_and_sign: the key the proof opens to under this auth message is
\* the stored one.
ProofHolds(s, m) == m.proof = ExpectedProof(s, m)

\* The name a login ends with: the owner of a delegation token, or the user.
PrincipalOf(u) == IF Owner[u] # None THEN Owner[u] ELSE u

(* AwaitingClientFinal::step.  A proof of another hash's length closes the *)
(* connection (Disconnect); the other refusals are answered.               *)
ServerOnFinal(s, m) ==
    /\ server[s].phase = "awaiting_client_final"
    /\ \/ /\ NonceReturned(s, m) /\ ProofSized(s, m) /\ ProofHolds(s, m)
          /\ server' = [server EXCEPT ![s] =
                [@ EXCEPT !.phase = "done",
                          !.principal = PrincipalOf(server[s].user)]]
          /\ sent' = sent \cup {ServerFinal(ServerSignature(s, m))}
       \/ /\ NonceReturned(s, m) /\ ~ProofSized(s, m)
          /\ ServerTo(s, "closed") /\ UNCHANGED sent
       \/ /\ NonceReturned(s, m) => ProofSized(s, m) /\ ~ProofHolds(s, m)
          /\ ServerTo(s, "failed") /\ UNCHANGED sent
    /\ UNCHANGED <<client, credential>>

\* Mutant: any server-final ends the handshake.
VerifiedUnread(c, m) == m.type = "server_final"

\* The signature is the one this exchange expects.
Verified(c, m) ==
    /\ m.type = "server_final"
    /\ m.signature = Mac(ClientServerKey(c, client[c].first),
                          ClientAuth(c, client[c].first))

(* AwaitingServerFinal::verify_server_final *)
VerifyServerFinal(c, m) ==
    /\ client[c].phase = "awaiting_server_final"
    /\ ClientTo(c, IF Verified(c, m) THEN "done" ELSE "failed")
    /\ UNCHANGED <<server, credential, sent>>

(* AlterUserScramCredentials replaces the stored credential, under a new   *)
(* salt, while exchanges are under way.                                    *)
AlterCredential(u, a) ==
    /\ credential[u].salt < MaxSalt
    /\ credential' = [credential EXCEPT ![u] =
          [password |-> a.password, salt |-> credential[u].salt + 1,
           mechanism |-> a.mechanism]]
    /\ UNCHANGED <<client, server, sent>>

Next ==
    \/ \E c \in Client, l \in Login : SendClientFirst(c, l)
    \/ \E s \in Server, u \in User : NewServer(s, u)
    \/ \E s \in Server, m \in sent : ServerOnFirst(s, m) \/ ServerOnFinal(s, m)
    \/ \E c \in Client, m \in sent : ClientOnFirst(c, m) \/ VerifyServerFinal(c, m)
    \/ \E u \in User, a \in Altered : AlterCredential(u, a)

Spec == Init /\ [][Next]_vars

----------------------------------------------------------------------------
(* What the two sides may conclude.                                        *)

\* The client behind server exchange s: it drew the nonce s was sent, and
\* went on from the very server-first that s issued.
Partner(c, s) ==
    /\ server[s].bare = Bare(c, client[c].user)
    /\ client[c].first = server[s].first

\* A server exchange that ends in Done (scram/server.rs) authenticated a
\* client that ran against this very exchange, under the same user name,
\* with the password and the mechanism of the credential the exchange was
\* opened with, whatever was replayed to it and however the credential was
\* altered meanwhile; the login's name is that user or its token's owner.
ServerAuthenticates ==
    \A s \in Server : server[s].phase = "done" =>
        \E c \in Client :
            /\ Partner(c, s)
            /\ client[c].user = server[s].user
            /\ client[c].password = server[s].credential.password
            /\ client[c].mechanism = server[s].credential.mechanism
            /\ server[s].principal = PrincipalOf(client[c].user)

\* One run of a client logs in at most once: two server exchanges that end
\* in Done answered two different client exchanges, so a recorded login
\* played to a second connection is refused.
LoginsDistinct ==
    \A s, t \in Server :
        /\ server[s].phase = "done" /\ server[t].phase = "done"
        /\ server[s].bare = server[t].bare
        => s = t

\* What a server may conclude from Done: its client logged in here, and with
\* this run nowhere else.
InjectiveAgreement == ServerAuthenticates /\ LoginsDistinct

\* A client whose verify_server_final succeeded spoke to a server exchange
\* that ended in Done for it (scram/client.rs): the signature of another run,
\* of another user or of another version of the credential is refused.
ClientAuthenticates ==
    \A c \in Client : client[c].phase = "done" =>
        \E s \in Server : server[s].phase = "done" /\ Partner(c, s)
=============================================================================
