-------------------------- MODULE CredentialProofs --------------------------
(***************************************************************************)
(* Proofs about the authentication parts, each a theorem of its            *)
(* component's own specification, for any number of exchanges, users,      *)
(* legs, reloads, rotations, validators and keys: the agreement of SCRAM   *)
(* client and server, what Done of a GSSAPI handshake means, that an older *)
(* certificate comes back only through overlapping reloads, and that a     *)
(* token is accepted only against keys fetched within the cache's expiry.  *)
(***************************************************************************)
EXTENDS MCCredentials, TLAPS

----------------------------------------------------------------------------
(* SCRAM                                                                   *)
(*                                                                         *)
(* The inductive invariant says where the messages that count come from: a *)
(* server-first from the exchange that still holds it, a client-final from *)
(* a client still bound to the server-first it answers, a server-final     *)
(* from an exchange that is done.  Nothing is assumed of the data, so the  *)
(* invariant needs the shape of the records and no types.                  *)


\* The records keep their fields.
ClientShape(r) ==
    r = [phase |-> r.phase, user |-> r.user, password |-> r.password,
         mechanism |-> r.mechanism, first |-> r.first]

ServerShape(r) ==
    r = [phase |-> r.phase, user |-> r.user, credential |-> r.credential,
         bare |-> r.bare, first |-> r.first, principal |-> r.principal]

Shapes ==
    /\ client = [c \in Client |-> client[c]]
    /\ server = [s \in Server |-> server[s]]
    /\ \A c \in Client : ClientShape(client[c])
    /\ \A s \in Server : ServerShape(server[s])

\* An exchange past its client-first holds the server-first it issued.
Issued ==
    \A s \in Server : server[s].phase \in {"awaiting_client_final", "done"} =>
        /\ server[s].first = ServerFirst(s, server[s].bare, server[s].credential)
        /\ server[s].bare.user = server[s].user

\* The client has answered the server-first it holds.
Answered(c) == client[c].phase \notin {"idle", "awaiting_server_first"}

\* A client-final was made by a client that is still bound to the
\* server-first it answered.
FinalOf(c, m) ==
    /\ Answered(c)
    /\ m.proof = Mac(ClientKey(c, client[c].first), ClientAuth(c, client[c].first))

FinalsMade ==
    \A m \in sent : m.type = "client_final" => \E c \in Client : FinalOf(c, m)

\* An exchange that is done was handed a proof that holds.
Proved ==
    \A s \in Server : server[s].phase = "done" =>
        /\ \E m \in sent : m.type = "client_final" /\ ProofHolds(s, m)
        /\ server[s].principal = PrincipalOf(server[s].user)

\* A server-final was signed by an exchange that is done.
SignedBy(s, m) ==
    /\ server[s].phase = "done"
    /\ \E n : m.signature = Mac(ServerKey(server[s].credential),
                                AuthMessage(server[s].bare, server[s].first, n))

FinalsSigned ==
    \A m \in sent : m.type = "server_final" => \E s \in Server : SignedBy(s, m)

SafeInv ==
    /\ Shapes /\ Issued /\ FinalsMade /\ Proved /\ FinalsSigned
    /\ ClientAuthenticates

----------------------------------------------------------------------------
(* What a step does to one exchange.                                       *)

\* Updating the phase of a client exchange updates the phase.
LEMMA ClientPhase ==
    ASSUME NEW r, ClientShape(r), NEW x
    PROVE  [r EXCEPT !.phase = x] =
             [phase |-> x, user |-> r.user, password |-> r.password,
              mechanism |-> r.mechanism, first |-> r.first]
  BY DEF ClientShape

\* Answering sets the phase and the server-first answered.
LEMMA ClientFirstSet ==
    ASSUME NEW r, ClientShape(r), NEW x, NEW y
    PROVE  [r EXCEPT !.phase = x, !.first = y] =
             [phase |-> x, user |-> r.user, password |-> r.password,
              mechanism |-> r.mechanism, first |-> y]
<1>1. PICK t : t = [r EXCEPT !.phase = x]
  OBVIOUS
<1>2. t = [phase |-> x, user |-> r.user, password |-> r.password,
           mechanism |-> r.mechanism, first |-> r.first]
  BY <1>1, ClientPhase
<1>3. [t EXCEPT !.first = y] =
        [phase |-> x, user |-> r.user, password |-> r.password,
         mechanism |-> r.mechanism, first |-> y]
  BY <1>2
<1> QED
  BY <1>1, <1>3

\* Updating the phase of a server exchange updates the phase.
LEMMA ServerPhase ==
    ASSUME NEW r, ServerShape(r), NEW x
    PROVE  [r EXCEPT !.phase = x] =
             [phase |-> x, user |-> r.user, credential |-> r.credential,
              bare |-> r.bare, first |-> r.first, principal |-> r.principal]
  BY DEF ServerShape

\* Issuing sets the phase, the client-first and the server-first.
LEMMA ServerFirstSet ==
    ASSUME NEW r, ServerShape(r), NEW x, NEW y, NEW z
    PROVE  [r EXCEPT !.phase = x, !.bare = y, !.first = z] =
             [phase |-> x, user |-> r.user, credential |-> r.credential,
              bare |-> y, first |-> z, principal |-> r.principal]
<1>1. PICK t : t = [r EXCEPT !.phase = x]
  OBVIOUS
<1>2. t = [phase |-> x, user |-> r.user, credential |-> r.credential,
           bare |-> r.bare, first |-> r.first, principal |-> r.principal]
  BY <1>1, ServerPhase
<1>3. PICK w : w = [t EXCEPT !.bare = y]
  OBVIOUS
<1>4. w = [phase |-> x, user |-> r.user, credential |-> r.credential,
           bare |-> y, first |-> r.first, principal |-> r.principal]
  BY <1>2, <1>3
<1>5. [w EXCEPT !.first = z] =
        [phase |-> x, user |-> r.user, credential |-> r.credential,
         bare |-> y, first |-> z, principal |-> r.principal]
  BY <1>4
<1> QED
  BY <1>1, <1>3, <1>5

\* Done sets the phase and the principal.
LEMMA ServerPrincipalSet ==
    ASSUME NEW r, ServerShape(r), NEW x, NEW y
    PROVE  [r EXCEPT !.phase = x, !.principal = y] =
             [phase |-> x, user |-> r.user, credential |-> r.credential,
              bare |-> r.bare, first |-> r.first, principal |-> y]
<1>1. PICK t : t = [r EXCEPT !.phase = x]
  OBVIOUS
<1>2. t = [phase |-> x, user |-> r.user, credential |-> r.credential,
           bare |-> r.bare, first |-> r.first, principal |-> r.principal]
  BY <1>1, ServerPhase
<1>3. [t EXCEPT !.principal = y] =
        [phase |-> x, user |-> r.user, credential |-> r.credential,
         bare |-> r.bare, first |-> r.first, principal |-> y]
  BY <1>2
<1> QED
  BY <1>1, <1>3

\* What a step may make of the client exchanges: nothing; or one of them
\* begins, answers a server-first, or comes to an end.
ClientBegins(c) ==
    /\ client[c].phase = "idle"
    /\ \E l : client' = [client EXCEPT ![c] =
                [phase |-> "awaiting_server_first", user |-> l.user,
                 password |-> l.password, mechanism |-> l.mechanism, first |-> None]]

ClientAnswers(c) ==
    /\ client[c].phase = "awaiting_server_first"
    /\ \E m : client' = [client EXCEPT ![c] =
                [phase |-> "awaiting_server_final", user |-> client[c].user,
                 password |-> client[c].password,
                 mechanism |-> client[c].mechanism, first |-> m]]

ClientEnds(c) ==
    /\ client[c].phase \in {"awaiting_server_first", "awaiting_server_final"}
    /\ \E ph \in {"done", "failed"} : client' = [client EXCEPT ![c] =
                [phase |-> ph, user |-> client[c].user,
                 password |-> client[c].password,
                 mechanism |-> client[c].mechanism, first |-> client[c].first]]

\* Likewise for the server exchanges.
ServerOpens(s) ==
    /\ server[s].phase = "idle"
    /\ \E u, cr : server' = [server EXCEPT ![s] =
                [phase |-> "awaiting_client_first", user |-> u, credential |-> cr,
                 bare |-> None, first |-> None, principal |-> None]]

ServerIssues(s) ==
    /\ server[s].phase = "awaiting_client_first"
    /\ \E b : /\ b.user = server[s].user
              /\ server' = [server EXCEPT ![s] =
                [phase |-> "awaiting_client_final", user |-> server[s].user,
                 credential |-> server[s].credential, bare |-> b,
                 first |-> ServerFirst(s, b, server[s].credential),
                 principal |-> server[s].principal]]

ServerEnds(s) ==
    /\ server[s].phase \in {"awaiting_client_first", "awaiting_client_final"}
    /\ \E ph \in {"failed", "closed"} : server' = [server EXCEPT ![s] =
                [phase |-> ph, user |-> server[s].user,
                 credential |-> server[s].credential, bare |-> server[s].bare,
                 first |-> server[s].first, principal |-> server[s].principal]]

ServerDone(s) ==
    /\ server[s].phase = "awaiting_client_final"
    /\ server' = [server EXCEPT ![s] =
                [phase |-> "done", user |-> server[s].user,
                 credential |-> server[s].credential, bare |-> server[s].bare,
                 first |-> server[s].first,
                 principal |-> PrincipalOf(server[s].user)]]

\* A client exchange only moves on, and by one of three moves.
LEMMA ClientMoves ==
    ASSUME Shapes, [Next]_vars
    PROVE  \/ UNCHANGED client
           \/ \E c \in Client : ClientBegins(c) \/ ClientAnswers(c) \/ ClientEnds(c)
<1>1. ASSUME NEW c \in Client, NEW l \in Login, SendClientFirst(c, l)
      PROVE  ClientBegins(c)
  BY <1>1 DEF SendClientFirst, ClientBegins
<1>2. ASSUME NEW c \in Client, NEW m \in sent, ClientOnFirst(c, m)
      PROVE  ClientAnswers(c) \/ ClientEnds(c)
  <2>1. ClientShape(client[c])
    BY DEF Shapes
  <2>2. CASE OwnNonce(c, m)
    <3>1. client' = [client EXCEPT ![c] =
             [client[c] EXCEPT !.phase = "awaiting_server_final", !.first = m]]
      BY <1>2, <2>2 DEF ClientOnFirst
    <3>2. [client[c] EXCEPT !.phase = "awaiting_server_final", !.first = m] =
             [phase |-> "awaiting_server_final", user |-> client[c].user,
              password |-> client[c].password,
              mechanism |-> client[c].mechanism, first |-> m]
      BY <2>1, ClientFirstSet
    <3>3. client[c].phase = "awaiting_server_first"
      BY <1>2 DEF ClientOnFirst
    <3> QED
      BY <3>1, <3>2, <3>3, Zenon DEF ClientAnswers
  <2>3. CASE ~OwnNonce(c, m)
    BY <1>2, <2>1, <2>3, ClientPhase DEF ClientOnFirst, ClientTo, ClientEnds
  <2> QED
    BY <2>2, <2>3
<1>3. ASSUME NEW c \in Client, NEW m \in sent, VerifyServerFinal(c, m)
      PROVE  ClientEnds(c)
  <2>1. ClientShape(client[c])
    BY DEF Shapes
  <2> QED
    BY <1>3, <2>1, ClientPhase DEF VerifyServerFinal, ClientTo, ClientEnds
<1>4. CASE UNCHANGED vars
  BY <1>4 DEF vars
<1> QED
  BY <1>1, <1>2, <1>3, <1>4
     DEF Next, NewServer, ServerOnFirst, ServerOnFinal, AlterCredential

\* A server exchange only moves on, and by one of four moves.
LEMMA ServerMoves ==
    ASSUME Shapes, [Next]_vars
    PROVE  \/ UNCHANGED server
           \/ \E s \in Server : \/ ServerOpens(s) \/ ServerIssues(s)
                                \/ ServerEnds(s) \/ ServerDone(s)
<1>1. ASSUME NEW s \in Server, NEW u \in User, NewServer(s, u)
      PROVE  ServerOpens(s)
  BY <1>1 DEF NewServer, ServerOpens
<1>2. ASSUME NEW s \in Server, NEW m \in sent, ServerOnFirst(s, m)
      PROVE  ServerIssues(s) \/ ServerEnds(s)
  <2>1. ServerShape(server[s])
    BY DEF Shapes
  <2>2. CASE AdmitsFirst(s, m)
    <3> DEFINE first == ServerFirst(s, m.bare, server[s].credential)
    <3>1. server' = [server EXCEPT ![s] =
             [server[s] EXCEPT !.phase = "awaiting_client_final",
                               !.bare = m.bare, !.first = first]]
      BY <1>2, <2>2 DEF ServerOnFirst
    <3>2. [server[s] EXCEPT !.phase = "awaiting_client_final",
                            !.bare = m.bare, !.first = first] =
             [phase |-> "awaiting_client_final", user |-> server[s].user,
              credential |-> server[s].credential, bare |-> m.bare,
              first |-> first, principal |-> server[s].principal]
      BY <2>1, ServerFirstSet
    <3>3. server[s].phase = "awaiting_client_first" /\ m.bare.user = server[s].user
      BY <1>2, <2>2 DEF ServerOnFirst, AdmitsFirst
    <3> QED
      BY <3>1, <3>2, <3>3, Zenon DEF ServerIssues
  <2>3. CASE ~AdmitsFirst(s, m)
    BY <1>2, <2>1, <2>3, ServerPhase DEF ServerOnFirst, ServerTo, ServerEnds
  <2> QED
    BY <2>2, <2>3
<1>3. ASSUME NEW s \in Server, NEW m \in sent, ServerOnFinal(s, m)
      PROVE  ServerEnds(s) \/ ServerDone(s)
  <2>1. ServerShape(server[s])
    BY DEF Shapes
  <2>2. \/ server' = [server EXCEPT ![s] =
                [@ EXCEPT !.phase = "done",
                          !.principal = PrincipalOf(server[s].user)]]
        \/ ServerTo(s, "closed") \/ ServerTo(s, "failed")
    BY <1>3 DEF ServerOnFinal
  <2>3. server[s].phase = "awaiting_client_final"
    BY <1>3 DEF ServerOnFinal
  <2>4. CASE ServerTo(s, "closed") \/ ServerTo(s, "failed")
    BY <2>1, <2>3, <2>4, ServerPhase DEF ServerTo, ServerEnds
  <2>5. CASE ~(ServerTo(s, "closed") \/ ServerTo(s, "failed"))
    BY <2>1, <2>2, <2>3, <2>5, ServerPrincipalSet DEF ServerDone
  <2> QED
    BY <2>4, <2>5
<1>4. CASE UNCHANGED vars
  BY <1>4 DEF vars
<1> QED
  BY <1>1, <1>2, <1>3, <1>4
     DEF Next, SendClientFirst, ClientOnFirst, VerifyServerFinal, AlterCredential

----------------------------------------------------------------------------
(* What a step leaves alone.                                               *)

\* The exchanges keep their shape.
LEMMA ShapesKept ==
    ASSUME Shapes, [Next]_vars
    PROVE  Shapes'
<1>1. client' = [c \in Client |-> client'[c]] /\ \A c \in Client : ClientShape(client'[c])
  <2>1. CASE UNCHANGED client
    BY <2>1 DEF Shapes
  <2>2. ASSUME NEW d \in Client, ClientBegins(d) \/ ClientAnswers(d) \/ ClientEnds(d)
        PROVE  client' = [c \in Client |-> client'[c]] /\ \A c \in Client : ClientShape(client'[c])
    <3>1. PICK p1, p2, p3, p4, p5 : client' = [client EXCEPT ![d] =
             [phase |-> p1, user |-> p2, password |-> p3, mechanism |-> p4, first |-> p5]]
      BY <2>2 DEF ClientBegins, ClientAnswers, ClientEnds
    <3> QED
      BY <3>1 DEF Shapes, ClientShape
  <2> QED
    BY <2>1, <2>2, ClientMoves
<1>2. server' = [s \in Server |-> server'[s]] /\ \A s \in Server : ServerShape(server'[s])
  <2>1. CASE UNCHANGED server
    BY <2>1 DEF Shapes
  <2>2. ASSUME NEW d \in Server,
               ServerOpens(d) \/ ServerIssues(d) \/ ServerEnds(d) \/ ServerDone(d)
        PROVE  server' = [s \in Server |-> server'[s]] /\ \A s \in Server : ServerShape(server'[s])
    <3>1. PICK p1, p2, p3, p4, p5, p6 : server' = [server EXCEPT ![d] =
             [phase |-> p1, user |-> p2, credential |-> p3, bare |-> p4,
              first |-> p5, principal |-> p6]]
      BY <2>2 DEF ServerOpens, ServerIssues, ServerEnds, ServerDone
    <3> QED
      BY <3>1 DEF Shapes, ServerShape
  <2> QED
    BY <2>1, <2>2, ServerMoves
<1> QED
  BY <1>1, <1>2 DEF Shapes

\* A client that has answered keeps what it answered with.
LEMMA ClientKept ==
    ASSUME Shapes, [Next]_vars, NEW c \in Client, Answered(c)
    PROVE  /\ Answered(c)'
           /\ client'[c].user = client[c].user
           /\ client'[c].password = client[c].password
           /\ client'[c].mechanism = client[c].mechanism
           /\ client'[c].first = client[c].first
<1>1. CASE UNCHANGED client
  BY <1>1 DEF Answered
<1>2. ASSUME NEW d \in Client, ClientBegins(d) \/ ClientAnswers(d)
      PROVE  client'[c] = client[c]
  BY <1>2 DEF Shapes, Answered, ClientBegins, ClientAnswers
<1>3. ASSUME NEW d \in Client, ClientEnds(d)
      PROVE  /\ client'[c].phase \in {"done", "failed"} \/ client'[c] = client[c]
             /\ client'[c].user = client[c].user
             /\ client'[c].password = client[c].password
             /\ client'[c].mechanism = client[c].mechanism
             /\ client'[c].first = client[c].first
  BY <1>3 DEF Shapes, ClientEnds
<1> QED
  BY <1>1, <1>2, <1>3, ClientMoves DEF Answered

\* A server exchange that is done does not change again.
LEMMA ServerKept ==
    ASSUME Shapes, [Next]_vars, NEW s \in Server, server[s].phase = "done"
    PROVE  server'[s] = server[s]
<1>1. ASSUME NEW d \in Server,
             ServerOpens(d) \/ ServerIssues(d) \/ ServerEnds(d) \/ ServerDone(d)
      PROVE  server'[s] = server[s]
  BY <1>1 DEF Shapes, ServerOpens, ServerIssues, ServerEnds, ServerDone
<1> QED
  BY <1>1, ServerMoves

\* No message is unsent.
LEMMA SentGrows ==
    ASSUME [Next]_vars
    PROVE  sent \subseteq sent'
  BY DEF Next, vars, SendClientFirst, NewServer, ServerOnFirst, ServerOnFinal,
         ClientOnFirst, VerifyServerFinal, AlterCredential

\* An exchange past its client-first goes on holding what it issued.
LEMMA IssuedKept ==
    ASSUME Shapes, Issued, [Next]_vars
    PROVE  Issued'
<1>1. CASE UNCHANGED server
  BY <1>1 DEF Issued
<1>2. ASSUME NEW d \in Server, ServerOpens(d) \/ ServerEnds(d) PROVE Issued'
  BY <1>2 DEF Shapes, Issued, ServerOpens, ServerEnds
<1>3. ASSUME NEW d \in Server, ServerIssues(d) PROVE Issued'
  BY <1>3 DEF Shapes, Issued, ServerIssues
<1>4. ASSUME NEW d \in Server, ServerDone(d) PROVE Issued'
  BY <1>4 DEF Shapes, Issued, ServerDone
<1> QED
  BY <1>1, <1>2, <1>3, <1>4, ServerMoves

----------------------------------------------------------------------------
(* Where the messages of a step come from.                                 *)

\* A client-final sent in a step is that of a client that now holds the
\* server-first it answers.
LEMMA FinalsMadeKept ==
    ASSUME Shapes, FinalsMade, [Next]_vars
    PROVE  FinalsMade'
<1> SUFFICES ASSUME NEW m \in sent', m.type = "client_final"
             PROVE  \E c \in Client : FinalOf(c, m)'
  BY DEF FinalsMade
<1>1. CASE m \in sent
  <2>1. PICK c \in Client : FinalOf(c, m)
    BY <1>1 DEF FinalsMade
  <2>2. FinalOf(c, m)'
    BY <2>1, ClientKept DEF FinalOf, ClientKey, ClientAuth
  <2> QED
    BY <2>2
<1>2. CASE m \notin sent
  <2>1. PICK c \in Client, f \in sent : ClientOnFirst(c, f) /\ OwnNonce(c, f)
    <3>1. Next
      BY <1>2 DEF vars
    <3>2. ASSUME NEW d \in Client, NEW l \in Login, SendClientFirst(d, l) PROVE FALSE
      BY <1>2, <3>2 DEF SendClientFirst, ClientFirst
    <3>3. ASSUME NEW s \in Server, NEW f \in sent, ServerOnFirst(s, f) PROVE FALSE
      BY <1>2, <3>3 DEF ServerOnFirst, ServerFirst
    <3>4. ASSUME NEW s \in Server, NEW f \in sent, ServerOnFinal(s, f) PROVE FALSE
      BY <1>2, <3>4 DEF ServerOnFinal, ServerFinal
    <3>5. ASSUME NEW d \in Client, NEW f \in sent, ClientOnFirst(d, f) PROVE OwnNonce(d, f)
      BY <1>2, <3>5 DEF ClientOnFirst
    <3> QED
      BY <1>2, <3>1, <3>2, <3>3, <3>4, <3>5
         DEF Next, NewServer, VerifyServerFinal, AlterCredential
  <2>2. m = ClientFinal(f.nonce, Mac(ClientKey(c, f), ClientAuth(c, f)))
    BY <1>2, <2>1 DEF ClientOnFirst
  <2>3. client' = [client EXCEPT ![c] =
             [client[c] EXCEPT !.phase = "awaiting_server_final", !.first = f]]
    BY <2>1 DEF ClientOnFirst
  <2>4. [client[c] EXCEPT !.phase = "awaiting_server_final", !.first = f] =
             [phase |-> "awaiting_server_final", user |-> client[c].user,
              password |-> client[c].password,
              mechanism |-> client[c].mechanism, first |-> f]
    BY ClientFirstSet DEF Shapes
  <2>5. client'[c] = [phase |-> "awaiting_server_final", user |-> client[c].user,
              password |-> client[c].password,
              mechanism |-> client[c].mechanism, first |-> f]
    BY <2>3, <2>4 DEF Shapes
  <2>6. /\ client'[c].phase = "awaiting_server_final" /\ client'[c].first = f
        /\ client'[c].user = client[c].user /\ client'[c].password = client[c].password
        /\ client'[c].mechanism = client[c].mechanism
    BY <2>5
  <2>7. m.proof = Mac(ClientKey(c, f), ClientAuth(c, f))
    BY <2>2 DEF ClientFinal
  <2>8. ClientKey(c, client[c].first)' = ClientKey(c, f)
        /\ ClientAuth(c, client[c].first)' = ClientAuth(c, f)
    BY <2>6 DEF ClientKey, ClientAuth
  <2>9. FinalOf(c, m)'
    BY <2>6, <2>7, <2>8 DEF FinalOf, Answered
  <2> QED
    BY <2>9
<1> QED
  BY <1>1, <1>2

\* A server exchange becomes done only in ServerOnFinal, on a proof that
\* holds, and answers with its signature.
LEMMA BecomesDone ==
    ASSUME Shapes, Next, NEW s \in Server, NEW m \in sent, ServerOnFinal(s, m),
           server'[s].phase = "done"
    PROVE  /\ NonceReturned(s, m) /\ ProofHolds(s, m)
           /\ server'[s] = [phase |-> "done", user |-> server[s].user,
                 credential |-> server[s].credential, bare |-> server[s].bare,
                 first |-> server[s].first,
                 principal |-> PrincipalOf(server[s].user)]
           /\ sent' = sent \cup {ServerFinal(ServerSignature(s, m))}
<1>1. ServerShape(server[s])
  BY DEF Shapes
<1>2. ASSUME NEW ph \in {"closed", "failed"} PROVE ~ServerTo(s, ph)
  <2>1. SUFFICES ASSUME ServerTo(s, ph) PROVE FALSE
    OBVIOUS
  <2>2. server'[s].phase = ph
    BY <1>1, <2>1, ServerPhase DEF ServerTo, Shapes
  <2> QED
    BY <2>2
<1>3. /\ NonceReturned(s, m) /\ ProofHolds(s, m)
      /\ server' = [server EXCEPT ![s] =
            [server[s] EXCEPT !.phase = "done",
                              !.principal = PrincipalOf(server[s].user)]]
      /\ sent' = sent \cup {ServerFinal(ServerSignature(s, m))}
  BY <1>2 DEF ServerOnFinal
<1>4. [server[s] EXCEPT !.phase = "done",
                        !.principal = PrincipalOf(server[s].user)] =
        [phase |-> "done", user |-> server[s].user,
         credential |-> server[s].credential, bare |-> server[s].bare,
         first |-> server[s].first, principal |-> PrincipalOf(server[s].user)]
  BY <1>1, ServerPrincipalSet
<1> QED
  BY <1>3, <1>4 DEF Shapes

\* An exchange that is newly done was handed its message in this step.
LEMMA DoneByFinal ==
    ASSUME Shapes, [Next]_vars, NEW s \in Server,
           server[s].phase # "done", server'[s].phase = "done"
    PROVE  Next /\ \E m \in sent : ServerOnFinal(s, m)
<1>1. ~(UNCHANGED server)
  OBVIOUS
<1>2. Next
  BY <1>1 DEF vars
<1>3. ASSUME NEW t \in Server, NEW u \in User, NewServer(t, u) PROVE FALSE
  BY <1>3 DEF NewServer, Shapes
<1>4. ASSUME NEW t \in Server, NEW m \in sent, ServerOnFirst(t, m) PROVE FALSE
  <2>1. ServerShape(server[t])
    BY DEF Shapes
  <2>2. /\ server'[t].phase # "done"
        /\ \A o \in Server \ {t} : server'[o] = server[o]
    <3>1. CASE AdmitsFirst(t, m)
      <4> DEFINE first == ServerFirst(t, m.bare, server[t].credential)
      <4>1. server' = [server EXCEPT ![t] =
               [server[t] EXCEPT !.phase = "awaiting_client_final",
                                 !.bare = m.bare, !.first = first]]
        BY <1>4, <3>1 DEF ServerOnFirst
      <4>2. [server[t] EXCEPT !.phase = "awaiting_client_final",
                              !.bare = m.bare, !.first = first] =
               [phase |-> "awaiting_client_final", user |-> server[t].user,
                credential |-> server[t].credential, bare |-> m.bare,
                first |-> first, principal |-> server[t].principal]
        BY <2>1, ServerFirstSet
      <4> QED
        BY <4>1, <4>2 DEF Shapes
    <3>2. CASE ~AdmitsFirst(t, m)
      <4>1. server' = [server EXCEPT ![t] = [server[t] EXCEPT !.phase = "failed"]]
        BY <1>4, <3>2 DEF ServerOnFirst, ServerTo
      <4>2. [server[t] EXCEPT !.phase = "failed"] =
               [phase |-> "failed", user |-> server[t].user,
                credential |-> server[t].credential, bare |-> server[t].bare,
                first |-> server[t].first, principal |-> server[t].principal]
        BY <2>1, ServerPhase
      <4> QED
        BY <4>1, <4>2 DEF Shapes
    <3> QED
      BY <3>1, <3>2
  <2> QED
    BY <2>2
<1>5. PICK t \in Server, m \in sent : ServerOnFinal(t, m)
  BY <1>1, <1>2, <1>3, <1>4 DEF Next, SendClientFirst, ClientOnFirst,
     VerifyServerFinal, AlterCredential
<1>6. s = t
  BY <1>5 DEF ServerOnFinal, ServerTo, Shapes
<1> QED
  BY <1>2, <1>5, <1>6

\* Every exchange that is done was handed a proof that holds.
LEMMA ProvedKept ==
    ASSUME Shapes, Proved, [Next]_vars
    PROVE  Proved'
<1> SUFFICES ASSUME NEW s \in Server, server'[s].phase = "done"
             PROVE  /\ \E m \in sent' : m.type = "client_final" /\ ProofHolds(s, m)'
                    /\ server'[s].principal = PrincipalOf(server'[s].user)
  BY DEF Proved
<1>0. sent \subseteq sent'
  BY SentGrows
<1>1. CASE server[s].phase = "done"
  <2>1. server'[s] = server[s]
    BY <1>1, ServerKept
  <2>2. PICK m \in sent : m.type = "client_final" /\ ProofHolds(s, m)
    BY <1>1 DEF Proved
  <2>3. ProofHolds(s, m)'
    BY <2>1, <2>2 DEF ProofHolds, ExpectedProof, ServerAuth
  <2>4. server[s].principal = PrincipalOf(server[s].user)
    BY <1>1 DEF Proved
  <2> QED
    BY <1>0, <2>1, <2>2, <2>3, <2>4
<1>2. CASE server[s].phase # "done"
  <2>1. PICK m \in sent : ServerOnFinal(s, m)
    BY <1>2, DoneByFinal
  <2>2. Next
    BY <1>2, DoneByFinal
  <2>3. /\ NonceReturned(s, m) /\ ProofHolds(s, m)
        /\ server'[s] = [phase |-> "done", user |-> server[s].user,
                 credential |-> server[s].credential, bare |-> server[s].bare,
                 first |-> server[s].first,
                 principal |-> PrincipalOf(server[s].user)]
    BY <2>1, <2>2, BecomesDone
  <2>4. ProofHolds(s, m)'
    BY <2>3 DEF ProofHolds, ExpectedProof, ServerAuth
  <2>5. m.type = "client_final"
    BY <2>3 DEF NonceReturned
  <2> QED
    BY <1>0, <2>3, <2>4, <2>5
<1> QED
  BY <1>1, <1>2

\* Every server-final is signed by an exchange that is done.
LEMMA FinalsSignedKept ==
    ASSUME Shapes, FinalsSigned, [Next]_vars
    PROVE  FinalsSigned'
<1> SUFFICES ASSUME NEW m \in sent', m.type = "server_final"
             PROVE  \E s \in Server : SignedBy(s, m)'
  BY DEF FinalsSigned
<1>1. CASE m \in sent
  <2>1. PICK s \in Server : SignedBy(s, m)
    BY <1>1 DEF FinalsSigned
  <2>2. server'[s] = server[s]
    BY <2>1, ServerKept DEF SignedBy
  <2>3. SignedBy(s, m)'
    BY <2>1, <2>2 DEF SignedBy
  <2> QED
    BY <2>3
<1>2. CASE m \notin sent
  <2>1. Next
    BY <1>2 DEF vars
  <2>2. ASSUME NEW d \in Client, NEW l \in Login, SendClientFirst(d, l) PROVE FALSE
    BY <1>2, <2>2 DEF SendClientFirst, ClientFirst
  <2>3. ASSUME NEW t \in Server, NEW f \in sent, ServerOnFirst(t, f) PROVE FALSE
    BY <1>2, <2>3 DEF ServerOnFirst, ServerFirst
  <2>4. ASSUME NEW d \in Client, NEW f \in sent, ClientOnFirst(d, f) PROVE FALSE
    BY <1>2, <2>4 DEF ClientOnFirst, ClientFinal
  <2>5. PICK s \in Server, f \in sent : ServerOnFinal(s, f)
    BY <1>2, <2>1, <2>2, <2>3, <2>4
       DEF Next, NewServer, VerifyServerFinal, AlterCredential
  <2>6. /\ server' = [server EXCEPT ![s] =
              [server[s] EXCEPT !.phase = "done",
                                !.principal = PrincipalOf(server[s].user)]]
        /\ m = ServerFinal(ServerSignature(s, f))
    BY <1>2, <2>5 DEF ServerOnFinal
  <2>7. [server[s] EXCEPT !.phase = "done",
                          !.principal = PrincipalOf(server[s].user)] =
          [phase |-> "done", user |-> server[s].user,
           credential |-> server[s].credential, bare |-> server[s].bare,
           first |-> server[s].first, principal |-> PrincipalOf(server[s].user)]
    BY ServerPrincipalSet DEF Shapes
  <2>8. server'[s] =
          [phase |-> "done", user |-> server[s].user,
           credential |-> server[s].credential, bare |-> server[s].bare,
           first |-> server[s].first, principal |-> PrincipalOf(server[s].user)]
    BY <2>6, <2>7 DEF Shapes
  <2>9. m.signature = Mac(ServerKey(server'[s].credential),
                          AuthMessage(server'[s].bare, server'[s].first, f.nonce))
    BY <2>6, <2>8 DEF ServerFinal, ServerSignature, ServerAuth
  <2>10. SignedBy(s, m)'
    BY <2>8, <2>9 DEF SignedBy
  <2> QED
    BY <2>10
<1> QED
  BY <1>1, <1>2

\* A client that verified a signature has a partner that is done.
LEMMA ClientAuthenticatesKept ==
    ASSUME SafeInv, [Next]_vars
    PROVE  ClientAuthenticates'
<1> USE DEF SafeInv
<1> SUFFICES ASSUME NEW c \in Client, client'[c].phase = "done"
             PROVE  \E s \in Server : server'[s].phase = "done" /\ Partner(c, s)'
  BY DEF ClientAuthenticates
<1>1. ASSUME NEW s \in Server, server[s].phase = "done", Partner(c, s), Answered(c)
      PROVE  server'[s].phase = "done" /\ Partner(c, s)'
  <2>1. server'[s] = server[s]
    BY <1>1, ServerKept
  <2>2. client'[c].user = client[c].user /\ client'[c].first = client[c].first
    BY <1>1, ClientKept
  <2> QED
    BY <1>1, <2>1, <2>2 DEF Partner
<1>2. CASE client[c].phase = "done"
  <2>1. PICK s \in Server : server[s].phase = "done" /\ Partner(c, s)
    BY <1>2 DEF ClientAuthenticates
  <2> QED
    BY <1>1, <1>2, <2>1 DEF Answered
<1>3. CASE client[c].phase # "done"
  <2>1. PICK m \in sent : VerifyServerFinal(c, m) /\ Verified(c, m)
    <3>1. Next /\ ~(UNCHANGED client)
      BY <1>3 DEF vars
    <3>2. ASSUME NEW d \in Client, NEW l \in Login, SendClientFirst(d, l) PROVE FALSE
      BY <1>3, <3>2 DEF SendClientFirst, Shapes
    <3>3. ASSUME NEW d \in Client, NEW f \in sent, ClientOnFirst(d, f) PROVE FALSE
      <4>1. ClientShape(client[d])
        BY DEF Shapes
      <4>2. CASE OwnNonce(d, f)
        <5>1. client' = [client EXCEPT ![d] =
             [client[d] EXCEPT !.phase = "awaiting_server_final", !.first = f]]
          BY <3>3, <4>2 DEF ClientOnFirst
        <5>2. [client[d] EXCEPT !.phase = "awaiting_server_final", !.first = f] =
             [phase |-> "awaiting_server_final", user |-> client[d].user,
              password |-> client[d].password,
              mechanism |-> client[d].mechanism, first |-> f]
          BY <4>1, ClientFirstSet
        <5> QED
          BY <1>3, <5>1, <5>2 DEF Shapes
      <4>3. CASE ~OwnNonce(d, f)
        <5>1. client' = [client EXCEPT ![d] = [client[d] EXCEPT !.phase = "failed"]]
          BY <3>3, <4>3 DEF ClientOnFirst, ClientTo
        <5>2. [client[d] EXCEPT !.phase = "failed"].phase = "failed"
          BY <4>1, ClientPhase
        <5> QED
          BY <1>3, <5>1, <5>2 DEF Shapes
      <4> QED
        BY <4>2, <4>3
    <3>4. PICK d \in Client, m \in sent : VerifyServerFinal(d, m)
      BY <3>1, <3>2, <3>3
         DEF Next, NewServer, ServerOnFirst, ServerOnFinal, AlterCredential
    <3>5. d = c
      BY <1>3, <3>4 DEF VerifyServerFinal, ClientTo, Shapes
    <3>6. Verified(c, m)
      <4>1. SUFFICES ASSUME ~Verified(c, m) PROVE FALSE
        OBVIOUS
      <4>2. client' = [client EXCEPT ![c] = [client[c] EXCEPT !.phase = "failed"]]
        BY <3>4, <3>5, <4>1 DEF VerifyServerFinal, ClientTo
      <4>3. [client[c] EXCEPT !.phase = "failed"].phase = "failed"
        BY ClientPhase DEF Shapes
      <4> QED
        BY <4>2, <4>3 DEF Shapes
    <3> QED
      BY <3>4, <3>5, <3>6
  <2>2. PICK s \in Server : SignedBy(s, m)
    BY <2>1 DEF FinalsSigned, Verified
  <2>3. Partner(c, s)
    BY <2>1, <2>2 DEF Verified, SignedBy, Partner, Mac, AuthMessage, ClientAuth
  <2>4. Answered(c)
    BY <2>1 DEF VerifyServerFinal, Answered
  <2> QED
    BY <1>1, <2>2, <2>3, <2>4 DEF SignedBy
<1> QED
  BY <1>2, <1>3

----------------------------------------------------------------------------

\* The invariant holds of every behaviour.
LEMMA Safe == Spec => []SafeInv
<1>1. Init => SafeInv
  BY DEF Init, SafeInv, Shapes, ClientShape, ServerShape, IdleClient, IdleServer,
     Issued, FinalsMade, Proved, FinalsSigned, ClientAuthenticates
<1>2. SafeInv /\ [Next]_vars => SafeInv'
  BY ShapesKept, IssuedKept, FinalsMadeKept, ProvedKept, FinalsSignedKept,
     ClientAuthenticatesKept DEF SafeInv
<1> QED
  BY <1>1, <1>2, PTL DEF Spec

\* The server's conclusion follows: the proof it was handed is under its own
\* credential and over its own messages, and was made by one client.
LEMMA ServerConcludes == SafeInv => ServerAuthenticates
<1> SUFFICES ASSUME SafeInv, NEW s \in Server, server[s].phase = "done"
             PROVE  \E c \in Client :
                      /\ Partner(c, s)
                      /\ client[c].user = server[s].user
                      /\ client[c].password = server[s].credential.password
                      /\ client[c].mechanism = server[s].credential.mechanism
                      /\ server[s].principal = PrincipalOf(client[c].user)
  BY DEF ServerAuthenticates
<1>1. PICK m \in sent : m.type = "client_final" /\ ProofHolds(s, m)
  BY DEF SafeInv, Proved
<1>2. PICK c \in Client : FinalOf(c, m)
  BY <1>1 DEF SafeInv, FinalsMade
<1>3. Mac(StoredKey(server[s].credential), ServerAuth(s, m))
        = Mac(ClientKey(c, client[c].first), ClientAuth(c, client[c].first))
  BY <1>1, <1>2 DEF ProofHolds, ExpectedProof, FinalOf
<1>4. /\ StoredKey(server[s].credential) = ClientKey(c, client[c].first)
      /\ ServerAuth(s, m) = ClientAuth(c, client[c].first)
  BY <1>3 DEF Mac
<1>5. /\ client[c].password = server[s].credential.password
      /\ client[c].mechanism = server[s].credential.mechanism
  BY <1>4 DEF StoredKey, ClientKey, Key
<1>6. Partner(c, s)
  BY <1>4 DEF ServerAuth, ClientAuth, AuthMessage, Partner
<1>7. client[c].user = server[s].user
  BY <1>6 DEF Partner, Bare, SafeInv, Issued
<1> QED
  BY <1>5, <1>6, <1>7 DEF SafeInv, Proved

\* A server exchange that ends in Done (AwaitingClientFinal::step) has
\* authenticated a client of its user that ran against this very exchange
\* with the credential's password, for any number of exchanges at once and
\* any delivery of what they send.
THEOREM ServerAgreement == Spec => []ServerAuthenticates
  BY Safe, ServerConcludes, PTL

\* No two server exchanges are done for one run of a client: each issued a
\* nonce of its own, and the client answered one of them.
THEOREM LoginsNotReplayed == Spec => []LoginsDistinct
<1>1. SafeInv => LoginsDistinct
  <2> SUFFICES ASSUME SafeInv, NEW s \in Server, NEW t \in Server,
                      server[s].phase = "done", server[t].phase = "done",
                      server[s].bare = server[t].bare
               PROVE  s = t
    BY DEF LoginsDistinct
  <2>1. PICK c \in Client : Partner(c, s)
    BY ServerConcludes DEF ServerAuthenticates
  <2>2. PICK d \in Client : Partner(d, t)
    BY ServerConcludes DEF ServerAuthenticates
  <2>3. c = d
    <3>1. server[s].bare.nonce = c
      BY <2>1 DEF Partner, Bare
    <3>2. server[t].bare.nonce = d
      BY <2>2 DEF Partner, Bare
    <3> QED
      BY <3>1, <3>2
  <2>4. server[s].first = server[t].first
    BY <2>1, <2>2, <2>3 DEF Partner
  <2>5. /\ server[s].first = ServerFirst(s, server[s].bare, server[s].credential)
        /\ server[t].first = ServerFirst(t, server[t].bare, server[t].credential)
    BY DEF SafeInv, Issued
  <2>6. server[s].first.nonce = <<server[s].bare.nonce, s>>
    BY <2>5 DEF ServerFirst
  <2>7. server[t].first.nonce = <<server[t].bare.nonce, t>>
    BY <2>5 DEF ServerFirst
  <2>8. <<server[s].bare.nonce, s>> = <<server[t].bare.nonce, t>>
    BY <2>4, <2>6, <2>7
  <2> QED
    BY <2>8
<1> QED
  BY <1>1, Safe, PTL

\* Done is a login of this exchange's own client run, and of that run alone:
\* nothing recorded from one connection opens another (scram/server.rs).
THEOREM Agreement == Spec => []InjectiveAgreement
  BY ServerAgreement, LoginsNotReplayed, PTL DEF InjectiveAgreement

\* A client whose verify_server_final succeeded ran against a server exchange
\* that is done for it.
THEOREM ClientAgreement == Spec => []ClientAuthenticates
<1>1. SafeInv => ClientAuthenticates
  BY DEF SafeInv
<1> QED
  BY <1>1, Safe, PTL

----------------------------------------------------------------------------
(* GSSAPI *)

\* What a token in flight says of the side that sent it: a choice is that
\* of a client that saw an acceptable offer, an offer is the server's.  On
\* turn "client" with the exchange still establishing nothing has been sent.
GssTokens ==
    /\ turn = "server" /\ inFlight.kind = "choice"
         => initiator = "final" /\ inFlight.layer = picks
    /\ turn = "client" /\ initiator # "establishing" /\ inFlight.kind = "offer"
         => inFlight.layers = offers

GssInv ==
    /\ GssTokens
    /\ initiator = "final" => AUTH \in offers
    /\ DoneAgreed

\* The invariant GssInv holds at first and every step of Gssapi keeps it.
THEOREM GssInductive == Gss!Spec => []GssInv
<1> USE DEF GssInv, GssTokens, DoneAgreed, Gss!DoneAgreed
<1>1. Gss!Init => GssInv
  BY DEF Gss!Init
<1>2. GssInv /\ [Gss!Next]_(Gss!vars) => GssInv'
  <2> SUFFICES ASSUME GssInv, [Gss!Next]_(Gss!vars) PROVE GssInv'
    OBVIOUS
  <2> USE DEF Gss!setup
  <2>1. CASE Gss!ClientEstablish
    BY <2>1 DEF Gss!ClientEstablish, Gss!ClientFails, Gss!Context, Gss!Empty
  <2>2. CASE Gss!ClientChoose
    BY <2>2 DEF Gss!ClientChoose, Gss!ClientFails, Gss!Acceptable, Gss!Choice
  <2>3. CASE Gss!ServerAccept
    BY <2>3 DEF Gss!ServerAccept, Gss!ServerFails, Gss!Context, Gss!Offer,
                Gss!AfterContext
  <2>4. CASE Gss!ServerOffer
    BY <2>4 DEF Gss!ServerOffer, Gss!Offer
  <2>5. CASE Gss!ServerFinish
    BY <2>5 DEF Gss!ServerFinish, Gss!ServerFails, Gss!Decodes
  <2>6. CASE Gss!Garble
    BY <2>6 DEF Gss!Garble, Gss!Garbled
  <2>7. CASE UNCHANGED Gss!vars
    BY <2>7 DEF Gss!vars
  <2> QED
    BY <2>1, <2>2, <2>3, <2>4, <2>5, <2>6, <2>7 DEF Gss!Next, Gss!Step, Gss!Ended
<1> QED
  BY <1>1, <1>2, PTL DEF Gss!Spec

\* ServerStep::Done is reached only through the authentication layer, which
\* the server offered and the client picked, with the client finished too,
\* and for the principal of the context.
THEOREM HandshakeAgrees == Gss!Spec => []DoneAgreed
<1>1. GssInv => DoneAgreed
  BY DEF GssInv
<1> QED
  BY <1>1, GssInductive, PTL

----------------------------------------------------------------------------
(* TLS reload *)

\* The certificate file never goes back behind rotation n: it shows n or a
\* later one, or is torn and will.
NoOlderThan(n) ==
    n \in Nat /\ n <= rotation /\ (files["cert"] # Torn => n <= files["cert"])

\* The certificate on disk belongs to a rotation begun.
CertOnDisk ==
    /\ rotation \in Nat
    /\ files \in [Tls!Files -> Nat \cup {Torn}]
    /\ files["cert"] # Torn => files["cert"] <= rotation

\* A reload past the certificate holds one that was on disk.
CertRead ==
    /\ reload \in [Reload -> [phase : 0..4, read : [Tls!Files -> Nat \cup {None}]]]
    /\ \A r \in Reload : reload[r].phase > 1 => NoOlderThan(reload[r].read["cert"])

\* What is served was read from disk, and a reload that began after it was
\* stored has read nothing older.
CertServed ==
    /\ NoOlderThan(inner["cert"])
    /\ \A r \in Reload \ late :
         reload[r].phase > 1 => inner["cert"] <= reload[r].read["cert"]

TlsInv == CertOnDisk /\ CertRead /\ CertServed

\* The names of the files.
LEMMA FileNames ==
    /\ Tls!File[1] = "cert" /\ Tls!File[2] = "key" /\ Tls!File[3] = "ca"
    /\ Tls!Files = {"cert", "key", "ca"}
BY DEF Tls!File, Tls!Files

\* A file that is replaced goes from a whole rotation to torn, or from torn
\* to the rotation under way, which is behind none.
LEMMA DiskAdvances ==
    ASSUME Torn \notin Nat, CertOnDisk, Tls!Rotate \/ \E f \in Tls!Files : Tls!WriteFile(f)
    PROVE  CertOnDisk' /\ \A n : NoOlderThan(n) => NoOlderThan(n)'
<1>1. CASE Tls!Rotate
  BY <1>1, FileNames DEF Tls!Rotate, CertOnDisk, NoOlderThan
<1>2. ASSUME NEW f \in Tls!Files, Tls!WriteFile(f)
      PROVE  CertOnDisk' /\ \A n : NoOlderThan(n) => NoOlderThan(n)'
  BY <1>2, FileNames DEF Tls!WriteFile, CertOnDisk, NoOlderThan
<1> QED
  BY <1>1, <1>2

\* The three conjuncts hold while nothing of theirs changes.
LEMMA TlsUntouched ==
    ASSUME TlsInv, UNCHANGED <<auth, files, rotation, reload, inner, late>>
    PROVE  TlsInv'
BY DEF TlsInv, CertOnDisk, CertRead, CertServed, NoOlderThan

\* The invariant TlsInv holds at first and every step of TlsReload keeps it.
THEOREM TlsInductive ==
    ASSUME Torn \notin Nat
    PROVE  Tls!Spec => []TlsInv
<1>1. Tls!Init => TlsInv
  BY FileNames DEF Tls!Init, Tls!Idle, TlsInv, CertOnDisk, CertRead, CertServed, NoOlderThan
<1>2. TlsInv /\ [Tls!Next]_(Tls!vars) => TlsInv'
  <2> SUFFICES ASSUME TlsInv, [Tls!Next]_(Tls!vars) PROVE TlsInv'
    OBVIOUS
  <2> USE DEF Tls!disk
  <2>0. Tls!Last \in {2, 3}
    BY DEF Tls!Last
  <2>1. CASE Tls!Rotate \/ \E f \in Tls!Files : Tls!WriteFile(f)
    <3>1. CertOnDisk' /\ \A n : NoOlderThan(n) => NoOlderThan(n)'
      BY <2>1, DiskAdvances DEF TlsInv
    <3>2. UNCHANGED <<reload, inner, late>>
      BY <2>1 DEF Tls!Rotate, Tls!WriteFile
    <3> QED
      BY <3>1, <3>2 DEF TlsInv, CertRead, CertServed
  <2>2. ASSUME NEW r \in Reload, Tls!Begin(r) PROVE TlsInv'
    BY <2>2 DEF Tls!Begin, TlsInv, CertOnDisk, CertRead, CertServed, NoOlderThan
  <2>3. ASSUME NEW r \in Reload, Tls!ReadFile(r) PROVE TlsInv'
    <3> DEFINE i == reload[r].phase
    <3>0. PICK c \in Tls!OnDisk(Tls!File[i]) :
            reload' = [reload EXCEPT ![r] =
                         IF c = Torn THEN [phase |-> 0, read |-> @.read]
                         ELSE [phase |-> i + 1, read |-> [@.read EXCEPT ![Tls!File[i]] = c]]]
      BY <2>3 DEF Tls!ReadFile, Tls!Contents
    <3> DEFINE s == IF c = Torn THEN [phase |-> 0, read |-> reload[r].read]
                    ELSE [phase |-> i + 1,
                          read |-> [reload[r].read EXCEPT ![Tls!File[i]] = c]]
    <3>1. i \in 1..3 /\ reload' = [reload EXCEPT ![r] = s]
          /\ UNCHANGED <<files, rotation, inner, late>>
      <4>1. i \in 1..Tls!Last /\ UNCHANGED <<files, rotation, inner, late>>
        BY <2>3 DEF Tls!ReadFile
      <4>2. i \in 1..3
        BY <2>0, <4>1
      <4>3. reload' = [reload EXCEPT ![r] = s]
        BY <3>0
      <4> QED
        BY <4>1, <4>2, <4>3
    <3>2. /\ reload[r].read \in [Tls!Files -> Nat \cup {None}] /\ Tls!File[i] \in Tls!Files
          /\ c # Torn => /\ c \in Nat
                         /\ c = files[Tls!File[i]] \/ (files[Tls!File[i]] = Torn /\ c = rotation)
      BY <3>0, <3>1, FileNames DEF TlsInv, CertRead, CertOnDisk, Tls!OnDisk
    <3>3. s \in [phase : 0..4, read : [Tls!Files -> Nat \cup {None}]]
      BY <3>1, <3>2
    <3>4. s.phase > 1 => /\ NoOlderThan(s.read["cert"])
                         /\ r \notin late => inner["cert"] <= s.read["cert"]
      <4> SUFFICES ASSUME c # Torn
                   PROVE  /\ NoOlderThan(s.read["cert"])
                          /\ r \notin late => inner["cert"] <= s.read["cert"]
        OBVIOUS
      <4>1. CASE i = 1
        <5>1. /\ s.read["cert"] = c /\ c \in Nat
              /\ c = files["cert"] \/ (files["cert"] = Torn /\ c = rotation)
          BY <4>1, <3>2, FileNames
        <5> QED
          BY <5>1, <4>1, <3>2, FileNames DEF TlsInv, CertOnDisk, CertServed, NoOlderThan
      <4>2. CASE i # 1
        <5>1. s.read["cert"] = reload[r].read["cert"]
          BY <4>2, <3>1, <3>2, FileNames
        <5> QED
          BY <5>1, <4>2, <3>1 DEF TlsInv, CertRead, CertServed
      <4> QED
        BY <4>1, <4>2
    <3> HIDE DEF s
    <3> QED
      BY <3>1, <3>3, <3>4 DEF TlsInv, CertOnDisk, CertRead, CertServed, NoOlderThan
  <2>4. ASSUME NEW r \in Reload, Tls!Store(r) PROVE TlsInv'
    BY <2>0, <2>4 DEF Tls!Store, TlsInv, CertOnDisk, CertRead, CertServed, NoOlderThan
  <2>5. ASSUME NEW h \in Handshake, Tls!Accept(h) \/ Tls!Finish(h) PROVE TlsInv'
    BY <2>5, TlsUntouched DEF Tls!Accept, Tls!Finish
  <2>6. CASE UNCHANGED Tls!vars
    BY <2>6, TlsUntouched DEF Tls!vars
  <2> QED
    BY <2>1, <2>2, <2>3, <2>4, <2>5, <2>6 DEF Tls!Next
<1> QED
  BY <1>1, <1>2, PTL DEF Tls!Spec

\* DynamicServerConfig: a reload_from that begins once the served
\* configuration is in place never serves an older certificate; only one
\* that was under way when it was stored can.
THEOREM OlderNeedsOverlap ==
    ASSUME Torn \notin Nat
    PROVE  Tls!Spec => OlderOnlyWhenOverlapped
<1>1. TlsInv /\ [Tls!Next]_(Tls!vars)
        => [\A r \in Reload :
              Tls!Store(r) /\ inner'["cert"] < inner["cert"] => r \in late]_(Tls!vars)
  <2> SUFFICES ASSUME TlsInv, NEW r \in Reload, Tls!Store(r), r \notin late,
                      inner'["cert"] < inner["cert"]
               PROVE  FALSE
    OBVIOUS
  <2>1. inner["cert"] \in Nat
    BY DEF TlsInv, CertServed, NoOlderThan
  <2>2. inner'["cert"] = inner["cert"] \/ inner'["cert"] = reload[r].read["cert"]
    BY DEF Tls!Store
  <2>3. reload[r].read["cert"] \in Nat /\ inner["cert"] <= reload[r].read["cert"]
    BY DEF Tls!Store, Tls!Last, TlsInv, CertRead, CertServed, NoOlderThan
  <2> QED
    BY <2>1, <2>2, <2>3
<1> QED
  BY <1>1, TlsInductive, PTL DEF Tls!Spec, OlderOnlyWhenOverlapped,
     Tls!OlderOnlyWhenOverlapped

----------------------------------------------------------------------------
(* JWKS cache *)

\* A validate call, past Present.
Call == [phase : {"expiry", "verify", "accepted"}, key : Nat, kid : BOOLEAN,
         now : Nat, seen : Nat \cup {None}]

JwksTypes ==
    /\ expiry \in Nat \cup {None}
    /\ now \in Nat /\ signing \in Nat /\ last \in Nat
    /\ keys.since \in Nat
    /\ validator \in [Validator -> Call \cup {Keys!Outside}]

\* The time of a fetch is taken before its keys are stored, and noted after:
\* last never runs ahead of the keys in the ArcSwap.
TimedAfterStored ==
    /\ last <= keys.since /\ keys.since <= now
    /\ refresher.phase = "fetched" => refresher.at \in Nat /\ refresher.at <= now
    /\ refresher.phase = "stored" => refresher.at \in Nat /\ refresher.at <= keys.since

\* A call that passed the expiry check passed it against a fetch no younger
\* than the keys it is going to verify with.
CheckedInTime ==
    \A v \in Validator :
        validator[v].phase = "verify" =>
            /\ validator[v].seen \in Nat /\ validator[v].seen <= keys.since
            /\ \/ validator[v].seen = 0
               \/ expiry # None => validator[v].now - validator[v].seen <= expiry

JwksInv == JwksTypes /\ TimedAfterStored /\ CheckedInTime

\* A call moves only one validator's record, to one that is in time.
LEMMA CallKeeps ==
    ASSUME JwksInv, NEW v \in Validator, NEW s \in Call \cup {Keys!Outside},
           validator' = [validator EXCEPT ![v] = s],
           UNCHANGED <<expiry, now, signing, keys, last, refresher>>,
           s.phase = "verify" =>
             /\ s.seen \in Nat /\ s.seen <= keys.since
             /\ s.seen = 0 \/ (expiry # None => s.now - s.seen <= expiry)
    PROVE  JwksInv'
<1>1. JwksTypes' /\ TimedAfterStored'
  BY DEF JwksInv, JwksTypes, TimedAfterStored
<1>2. CheckedInTime'
  BY DEF JwksInv, JwksTypes, CheckedInTime
<1> QED
  BY <1>1, <1>2 DEF JwksInv

\* A validator that presents a token starts a call.
LEMMA PresentKeeps ==
    ASSUME JwksInv, NEW v \in Validator, NEW t \in [key : Nat, kid : BOOLEAN],
           Keys!Present(v, t)
    PROVE  JwksInv'
<1> DEFINE s == [phase |-> "expiry", key |-> t.key, kid |-> t.kid, now |-> now,
                 seen |-> None]
<1>1. s \in Call /\ s.phase = "expiry"
  BY DEF Call, JwksInv, JwksTypes
<1>2. validator' = [validator EXCEPT ![v] = s]
      /\ UNCHANGED <<expiry, now, signing, keys, last, refresher>>
  BY DEF Keys!Present
<1> HIDE DEF s
<1> QED
  BY <1>1, <1>2, CallKeeps

\* The steps of a validate call.
LEMMA ValidateKeeps ==
    ASSUME JwksInv, NEW v \in Validator, Keys!Validate(v)
    PROVE  JwksInv'
<1>0. Keys!Outside.phase = "outside"
  BY DEF Keys!Outside
<1>1. validator[v] \in Call /\ UNCHANGED <<expiry, now, signing, keys, last, refresher>>
  BY <1>0 DEF JwksInv, JwksTypes, Keys!Validate, Keys!CheckExpiry, Keys!Verify, Keys!Leave
<1>2. CASE validator' = [validator EXCEPT ![v] = Keys!Outside]
  BY <1>0, <1>1, <1>2, CallKeeps
<1>3. CASE /\ ~Keys!Expired(validator[v].now)
           /\ validator' = [validator EXCEPT ![v] =
                              [@ EXCEPT !.phase = "verify", !.seen = last]]
  <2> DEFINE s == [validator[v] EXCEPT !.phase = "verify", !.seen = last]
  <2>1. s \in Call /\ s.seen = last /\ s.now = validator[v].now
    BY <1>1 DEF Call, JwksInv, JwksTypes
  <2>2. s.seen \in Nat /\ s.seen <= keys.since
        /\ (s.seen = 0 \/ (expiry # None => s.now - s.seen <= expiry))
    BY <1>1, <1>3, <2>1 DEF JwksInv, JwksTypes, TimedAfterStored, Keys!Expired,
       Keys!LastSuccessfulFetch, Call
  <2> QED
    BY <1>1, <1>3, <2>1, <2>2, CallKeeps
<1>4. CASE validator' = [validator EXCEPT ![v] =
                           [@ EXCEPT !.phase = "accepted", !.now = 0, !.seen = None]]
  <2> DEFINE s == [validator[v] EXCEPT !.phase = "accepted", !.now = 0, !.seen = None]
  <2>1. s \in Call /\ s.phase = "accepted"
    BY <1>1 DEF Call
  <2> QED
    BY <1>1, <1>4, <2>1, CallKeeps
<1> QED
  BY <1>2, <1>3, <1>4 DEF Keys!Validate, Keys!CheckExpiry, Keys!Verify, Keys!Leave,
     Keys!LastSuccessfulFetch

\* The clock, the provider and the refresher: keys stored again are younger.
LEMMA RefresherKeeps ==
    ASSUME JwksInv,
           \/ Keys!Tick \/ Keys!RotateKey \/ Keys!StartFetch(TRUE)
           \/ Keys!StartFetch(FALSE) \/ Keys!FetchAnswered \/ Keys!FetchFails
           \/ Keys!StoreKeys \/ Keys!StoreTime
    PROVE  JwksInv'
<1>1. JwksTypes' /\ TimedAfterStored'
  BY DEF JwksInv, JwksTypes, TimedAfterStored, Keys!Tick, Keys!RotateKey,
         Keys!StartFetch, Keys!FetchAnswered, Keys!FetchFails, Keys!StoreKeys,
         Keys!StoreTime, Keys!Waiting
<1>2. UNCHANGED <<expiry, validator>> /\ keys.since <= keys'.since /\ keys'.since \in Nat
  BY DEF JwksInv, JwksTypes, TimedAfterStored, Keys!Tick, Keys!RotateKey,
         Keys!StartFetch, Keys!FetchAnswered, Keys!FetchFails, Keys!StoreKeys,
         Keys!StoreTime
<1>3. CheckedInTime'
  BY <1>2 DEF JwksInv, JwksTypes, CheckedInTime
<1> QED
  BY <1>1, <1>3 DEF JwksInv

\* The invariant JwksInv holds at first and every step of JwksCache keeps it.
THEOREM JwksInductive ==
    ASSUME Expiries \subseteq Nat \cup {None}, Token \subseteq [key : Nat, kid : BOOLEAN]
    PROVE  Keys!Spec => []JwksInv
<1>1. Keys!Init => JwksInv
  BY DEF Keys!Init, Keys!Waiting, Keys!Outside, JwksInv, JwksTypes, TimedAfterStored,
         CheckedInTime
<1>2. JwksInv /\ [Keys!Next]_(Keys!vars) => JwksInv'
  <2> SUFFICES ASSUME JwksInv, [Keys!Next]_(Keys!vars) PROVE JwksInv'
    OBVIOUS
  <2>1. ASSUME NEW v \in Validator \ Retrying, NEW t \in Token, Keys!Present(v, t)
        PROVE  JwksInv'
    <3>1. v \in Validator /\ t \in [key : Nat, kid : BOOLEAN]
      OBVIOUS
    <3> QED
      BY <2>1, <3>1, PresentKeeps
  <2>2. ASSUME NEW v \in Validator, Keys!Retry(v) PROVE JwksInv'
    <3> DEFINE t == [key |-> signing, kid |-> TRUE]
    <3>1. t \in [key : Nat, kid : BOOLEAN]
      BY DEF JwksInv, JwksTypes
    <3>2. Keys!Present(v, t)
      BY <2>2 DEF Keys!Retry
    <3> HIDE DEF t
    <3> QED
      BY <3>1, <3>2, PresentKeeps
  <2>3. CASE UNCHANGED Keys!vars
    BY <2>3 DEF Keys!vars, JwksInv, JwksTypes, TimedAfterStored, CheckedInTime
  <2> QED
    BY <2>1, <2>2, <2>3, ValidateKeeps, RefresherKeeps DEF Keys!Next
<1> QED
  BY <1>1, <1>2, PTL DEF Keys!Spec

\* JwksHandle: with a cache_expiry, a token is accepted only against keys
\* stored within it of the moment it was presented, wherever the refresher's two
\* stores fall between the validator's two reads.
THEOREM AcceptedAgainstFreshKeys ==
    ASSUME Expiries \subseteq Nat \cup {None}, Token \subseteq [key : Nat, kid : BOOLEAN]
    PROVE  Keys!Spec => AcceptedFresh
<1>1. JwksInv
        => [\A v \in Validator :
              validator[v].phase = "verify" /\ validator'[v].phase = "accepted"
                => \/ expiry = None \/ validator[v].seen = 0
                   \/ validator[v].now - keys.since <= expiry]_(Keys!vars)
  <2> SUFFICES ASSUME JwksInv, NEW v \in Validator, validator[v].phase = "verify",
                      expiry # None, validator[v].seen # 0
               PROVE  validator[v].now - keys.since <= expiry
    OBVIOUS
  <2>1. validator[v] \in Call
    BY DEF JwksInv, JwksTypes, Keys!Outside
  <2> QED
    BY <2>1 DEF JwksInv, JwksTypes, CheckedInTime, Call
<1> QED
  BY <1>1, JwksInductive, PTL DEF Keys!Spec, AcceptedFresh, Keys!AcceptedFresh

=============================================================================
