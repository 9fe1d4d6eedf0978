------------------------------- MODULE Gssapi -------------------------------
(***************************************************************************)
(* The SASL/GSSAPI handshake of gssapi/client.rs and gssapi/server.rs: a   *)
(* client exchange and a server exchange that take turns, a token each,    *)
(* first to establish the Kerberos context, then to agree on RFC 4752's    *)
(* security layer.  Who owes the next token, and what the other side will  *)
(* read it as, depends on how many legs the context takes and on which     *)
(* side completes it.                                                      *)
(*                                                                         *)
(* The GSS library is external: a context of n legs is n tokens, the odd   *)
(* ones the initiator's, each read by the other side in turn.  A token     *)
(* read out of turn, or unwrapped though it is not a wrapped one, is a     *)
(* GssError.  A peer of another implementation may offer and choose other  *)
(* layers than this crate does.                                            *)
(*                                                                         *)
(* Of the adapter to that library (provider.rs) the model has what decides *)
(* the turns: is_established, which takes CompleteAndContinue for          *)
(* established, and that an established step hands on its last token only  *)
(* if it is not empty.  A step that continues is taken to write a token,   *)
(* as every Kerberos leg but the last does; the adapter would pass on an   *)
(* empty one as it is.                                                     *)
(***************************************************************************)
EXTENDS Integers

CONSTANTS
    MaxLegs,    \* bound: the longest context establishment
    Principal,  \* Kerberos source principals
    Layer,      \* RFC 4752 layers
    AUTH,       \* the one this crate supports
    None

VARIABLES
    legs,       \* tokens this context takes
    user,       \* the initiator's Kerberos principal
    offers,     \* the layers the server side offers
    picks,      \* the layer the client side picks
    client,     \* phase of the client exchange
    server,     \* phase of the server exchange
    read,       \* read[side]: context tokens that side has read or written
    token,      \* the token in flight
    garbled,    \* whether a token was damaged on its way
    turn,       \* whose move it is
    result      \* principal of ServerStep::Done

vars == <<legs, user, offers, picks, client, server, read, token, garbled,
          turn, result>>
setup == <<legs, user, offers, picks, garbled>>

Context(n)     == [kind |-> "context", leg |-> n]
Empty          == [kind |-> "empty"]
Offer(layers)  == [kind |-> "offer", layers |-> layers]
Garbled        == [kind |-> "garbled"]
Choice(layer)  == [kind |-> "choice", layer |-> layer]

Init ==
    /\ legs \in 1..MaxLegs
    /\ user \in Principal
    /\ offers \in SUBSET Layer
    /\ picks \in Layer
    /\ client = "establishing" /\ server = "accepting"
    /\ read = [client |-> 0, server |-> 0]
    /\ token = None /\ garbled = FALSE /\ turn = "client" /\ result = None

(* The GSS context: side `a` reads the token it was handed and writes the  *)
(* next one if the context has one left (the library's part), and          *)
(* SspiAcceptor and SspiInitiator tell from the status and the token which *)
(* step it was.                                                            *)
Readable(a) ==
    IF read[a] = 0 /\ a = "client" THEN token = None
    ELSE token.kind = "context" /\ token.leg > read[a]
Arrived(a)     == IF token = None THEN 0 ELSE token.leg
Writes(a)      == Arrived(a) < legs
Established(a) == Arrived(a) + 1 >= legs
Advance(a)     == read' = [read EXCEPT ![a] = IF Writes(a) THEN Arrived(a) + 1
                                                           ELSE Arrived(a)]

ClientFails == client' = "failed" /\ turn' = "none" /\ token' = None
               /\ UNCHANGED <<server, read, result, setup>>
ServerFails == server' = "failed" /\ turn' = "none" /\ token' = None
               /\ UNCHANGED <<client, read, result, setup>>

(* Establishing::step: once the context stands the client waits for the    *)
(* offer, and sends the context's last token or, without one, an empty     *)
(* token to give the server its turn.                                      *)
ClientEstablish ==
    /\ turn = "client" /\ client = "establishing"
    /\ \/ /\ Readable("client")
          /\ Advance("client")
          /\ client' = IF Established("client") THEN "awaiting_offer" ELSE client
          /\ token' = IF Writes("client") THEN Context(Arrived("client") + 1) ELSE Empty
          /\ turn' = "server"
          /\ UNCHANGED <<server, result, setup>>
       \/ ~Readable("client") /\ ClientFails

\* decode_offer_layers, then the mask test.
Acceptable == token.kind = "offer" /\ AUTH \in token.layers

(* AwaitingOffer::choose *)
ClientChoose ==
    /\ turn = "client" /\ client = "awaiting_offer"
    /\ \/ /\ Acceptable
          /\ client' = "final" /\ token' = Choice(picks) /\ turn' = "server"
          /\ UNCHANGED <<server, read, result, setup>>
       \/ ~Acceptable /\ ClientFails

\* Mutant: the client is taken to have had its turn once the context stands.
AfterContextEager == "awaiting_choice"

\* With an AP-REP to send the offer waits for the client's next token;
\* without one it goes out at once.
AfterContext == IF Writes("server") THEN "offering" ELSE "awaiting_choice"

(* AcceptingContext::accept *)
ServerAccept ==
    /\ turn = "server" /\ server = "accepting"
    /\ \/ /\ Readable("server")
          /\ Advance("server")
          /\ server' = IF Established("server") THEN AfterContext ELSE server
          /\ token' = IF Writes("server") THEN Context(Arrived("server") + 1)
                                          ELSE Offer(offers)
          /\ turn' = "client"
          /\ UNCHANGED <<client, result, setup>>
       \/ ~Readable("server") /\ ServerFails

(* OfferingLayer::offer does not look at the token it is handed. *)
ServerOffer ==
    /\ turn = "server" /\ server = "offering"
    /\ server' = "awaiting_choice" /\ token' = Offer(offers) /\ turn' = "client"
    /\ UNCHANGED <<client, read, result, setup>>

\* Mutant: the choice is decoded, and its layer not looked at.
DecodesAny == token.kind = "choice"

\* unwrap and decode_choice: only the authentication layer is accepted.
Decodes == token.kind = "choice" /\ token.layer = AUTH

(* AwaitingChoice::finish *)
ServerFinish ==
    /\ turn = "server" /\ server = "awaiting_choice"
    /\ \/ /\ Decodes
          /\ server' = "done" /\ result' = user /\ turn' = "none" /\ token' = None
          /\ UNCHANGED <<client, read, setup>>
       \/ ~Decodes /\ ServerFails

(* A token that the library will not read: damaged, expired, or for        *)
(* another context.                                                        *)
Garble ==
    /\ ~garbled /\ token # None
    /\ garbled' = TRUE /\ token' = Garbled
    /\ UNCHANGED <<legs, user, offers, picks, client, server, read, turn, result>>

Ended == turn = "none" /\ UNCHANGED vars

Step == ClientEstablish \/ ClientChoose \/ ServerAccept \/ ServerOffer \/ ServerFinish

Next == Step \/ Garble \/ Ended

\* The peers answer each other: a token that arrived is stepped.
Spec == Init /\ [][Next]_vars /\ WF_vars(Step)

----------------------------------------------------------------------------

\* Done is reached only through the authentication layer, offered by the
\* server and picked by a client that has finished too, and for the
\* principal of the context.
DoneAgreed ==
    server = "done" => /\ client = "final" /\ result = user
                       /\ picks = AUTH /\ AUTH \in offers

\* Every handshake ends; and unless a token was damaged it ends in Done
\* exactly when both sides are for the authentication layer, whichever side
\* completes the context and after however many legs.
Concludes ==
    <>(/\ turn = "none"
       /\ garbled \/ (server = "done" <=> picks = AUTH /\ AUTH \in offers))
=============================================================================
