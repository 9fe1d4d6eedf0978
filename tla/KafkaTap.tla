------------------------------- MODULE KafkaTap -------------------------------
(***************************************************************************)
(* One connection of the wire tap (crates/kafka-tap/src/lib.rs, frame.rs). *)
(* Two threads, the request pump and the response pump, each move frames   *)
(* from one peer to the other and tee them to the recorder; they share the *)
(* Pending map, which gives a response the API key of its request.         *)
(*                                                                         *)
(* arriving[d] and leaving[d] are the socket buffers before and behind     *)
(* pump d.  The peers are external: a client that does not reuse a         *)
(* correlation id it still awaits an answer to, and a broker that answers  *)
(* each request once, or never when the request asks for no answer.        *)
(***************************************************************************)
EXTENDS Naturals, Sequences, FiniteSets, MetadataMaps

CONSTANTS
  Corr,      \* correlation ids
  Api,       \* pairs of API key and version
  Kinds,     \* the kinds of frames the peers send
  Buffer,    \* frames a socket buffer holds
  MaxSent    \* bound: the requests of a client

ASSUME TapAssumption ==
  Buffer \in Nat \ {0} /\ MaxSent \in Nat /\ Kinds \subseteq {"full", "short", "negative"}

VARIABLES
  conn,      \* whether each peer's socket is open, closed or reset
  arriving, leaving,
  pump,      \* where each pump thread stands
  held,      \* the frame each pump has read, and the api it goes to the recorder with
  pending,   \* Pending: correlation id -> api
  spool,     \* what the recorder was called with
  sent, got  \* every frame a source sent, every frame a destination read

vars == <<conn, arriving, leaving, pump, held, pending, spool, sent, got>>

Peer == {"client", "broker"}
Direction == {"req", "resp"}
Source == [req |-> "client", resp |-> "broker"]
Dest == [req |-> "broker", resp |-> "client"]

\* A frame by what the pump reads of it: "full" carries a request prefix or a
\* correlation id, "short" is too short for one, "negative" has a negative
\* length.  n numbers the request, and a response has its request's n.
Frame ==
  [kind : Kinds, corr : Corr, api : Api, answered : BOOLEAN,
   n : 1..MaxSent]

\* Nothing is read of the other fields of a frame that is not full.
Unreadable ==
  LET any == CHOOSE f \in Frame : ~f.answered
  IN  {f \in Frame : [any EXCEPT !.kind = f.kind, !.n = f.n] = f}

\* CapturedFrame; n stands for the body.
Captured == [isRequest : BOOLEAN, api : Api, n : 1..MaxSent]

Ended(d) == pump[d] \in {"ok", "err"}

Init ==
  /\ conn = [peer \in Peer |-> "open"]
  /\ arriving = [d \in Direction |-> <<>>]
  /\ leaving = [d \in Direction |-> <<>>]
  /\ pump = [d \in Direction |-> "read"]
  /\ held = [d \in Direction |-> None]
  /\ pending = EmptyMap
  /\ spool = <<>>
  /\ sent = [d \in Direction |-> <<>>]
  /\ got = [d \in Direction |-> <<>>]

-----------------------------------------------------------------------------
(* The peers *)

\* The requests the client still awaits an answer to.
Awaited(corr) ==
  {i \in DOMAIN sent["req"] :
     /\ sent["req"][i].corr = corr
     /\ sent["req"][i].kind = "full"
     /\ sent["req"][i].answered
     /\ \A j \in DOMAIN got["resp"] : got["resp"][j].n # sent["req"][i].n}

SendFrame(d, f) ==
  /\ conn[Source[d]] = "open"
  /\ Len(arriving[d]) < Buffer
  /\ arriving' = [arriving EXCEPT ![d] = Append(@, f)]
  /\ sent' = [sent EXCEPT ![d] = Append(@, f)]

ClientSend ==
  /\ Len(sent["req"]) < MaxSent
  /\ \E f \in Frame :
       /\ f.n = Len(sent["req"]) + 1
       /\ IF f.kind = "full" THEN Awaited(f.corr) = {} ELSE f \in Unreadable
       /\ SendFrame("req", f)
  /\ UNCHANGED <<conn, leaving, pump, held, pending, spool, got>>

ClientRead ==
  /\ conn["client"] = "open"
  /\ leaving["resp"] # <<>>
  /\ got' = [got EXCEPT !["resp"] = Append(@, Head(leaving["resp"]))]
  /\ leaving' = [leaving EXCEPT !["resp"] = Tail(@)]
  /\ UNCHANGED <<conn, arriving, pump, held, pending, spool, sent>>

\* The broker reads a request and, if it asks for one, sends an answer.
BrokerServe ==
  /\ conn["broker"] = "open"
  /\ leaving["req"] # <<>>
  /\ LET f == Head(leaving["req"])
     IN  /\ got' = [got EXCEPT !["req"] = Append(@, f)]
         /\ leaving' = [leaving EXCEPT !["req"] = Tail(@)]
         /\ IF f.kind = "full" /\ f.answered
              THEN SendFrame("resp", f)
              ELSE UNCHANGED <<arriving, sent>>
  /\ UNCHANGED <<conn, pump, held, pending, spool>>

\* The broker answers with a frame too short for a correlation id, or with a
\* negative length.
BrokerGarble ==
  /\ conn["broker"] = "open"
  /\ leaving["req"] # <<>>
  /\ LET f == Head(leaving["req"])
     IN  /\ got' = [got EXCEPT !["req"] = Append(@, f)]
         /\ leaving' = [leaving EXCEPT !["req"] = Tail(@)]
         /\ f.kind = "full" /\ f.answered
         /\ \E kind \in Kinds \ {"full"} : SendFrame("resp", [f EXCEPT !.kind = kind])
  /\ UNCHANGED <<conn, pump, held, pending, spool>>

\* A close lets the tap read what was sent; a reset, or a close in the middle
\* of a frame, does not.
Close(peer) ==
  /\ conn[peer] = "open"
  /\ \E how \in {"closed", "reset"} : conn' = [conn EXCEPT ![peer] = how]
  /\ UNCHANGED <<arriving, leaving, pump, held, pending, spool, sent, got>>

-----------------------------------------------------------------------------
(* pump *)

\* Mutant: a frame is written on before it is recorded.
WriteFirst == [read |-> "write", write |-> "pending", pending |-> "recorder", recorder |-> "read"]

\* The order of the steps of a round of the loop.
Follows == [read |-> "pending", pending |-> "recorder", recorder |-> "write", write |-> "read"]

Goto(d, to) == pump' = [pump EXCEPT ![d] = to]

\* read_exact of the length and of the body; a negative length ends the relay.
PumpRead(d) ==
  /\ pump[d] = "read"
  /\ arriving[d] # <<>>
  /\ arriving' = [arriving EXCEPT ![d] = Tail(@)]
  /\ IF Head(arriving[d]).kind = "negative"
       THEN Goto(d, "ok") /\ held' = [held EXCEPT ![d] = None]
       ELSE /\ Goto(d, Follows["read"])
            /\ held' = [held EXCEPT ![d] = Some([frame |-> Head(arriving[d]), api |-> None])]
  /\ UNCHANGED <<conn, leaving, pending, spool, sent, got>>

\* Mutant: the end of the stream is read again and again.
PumpEofIgnored(d) ==
  /\ pump[d] = "read" /\ arriving[d] = <<>> /\ conn[Source[d]] = "closed"
  /\ Goto(d, "read")
  /\ UNCHANGED <<conn, arriving, leaving, held, pending, spool, sent, got>>

\* The source closed between two frames.
PumpEof(d) ==
  /\ pump[d] = "read" /\ arriving[d] = <<>> /\ conn[Source[d]] = "closed"
  /\ Goto(d, "ok")
  /\ UNCHANGED <<conn, arriving, leaving, held, pending, spool, sent, got>>

\* read_exact fails; an end of the stream inside the length is no error.
PumpBreak(d) ==
  /\ pump[d] = "read" /\ conn[Source[d]] = "reset"
  /\ \E to \in {"ok", "err"} : Goto(d, to)
  /\ UNCHANGED <<conn, arriving, leaving, held, pending, spool, sent, got>>

\* Mutant: an id that is already pending keeps its entry.
RecordFirst(map, f) == IF f.corr \in DOMAIN map THEN map ELSE Put(map, f.corr, f.api)

\* Pending::record
Record(map, f) == Put(map, f.corr, f.api)

\* Pending::take: the api, as an Option.
Take(map, f) == {map[c] : c \in DOMAIN map \cap {f.corr}}

\* A request is recorded in Pending and a response takes its request out of
\* it.  A frame without an api skips the recorder.
UsePending(d) ==
  /\ pump[d] = "pending"
  /\ \E h \in held[d] :
       LET f == h.frame
           full == f.kind = "full"
           api == IF ~full THEN None ELSE IF d = "req" THEN Some(f.api) ELSE Take(pending, f)
       IN  /\ pending' = IF ~full THEN pending
                         ELSE IF d = "req" THEN Record(pending, f)
                         ELSE Drop(pending, {f.corr})
           /\ held' = [held EXCEPT ![d] = Some([frame |-> f, api |-> api])]
           /\ Goto(d, IF api = None THEN Follows["recorder"] ELSE Follows["pending"])
  /\ UNCHANGED <<conn, arriving, leaving, spool, sent, got>>

\* Mutant: the guard of the lock lives until the frame is written on.
PumpPendingHeld(d) ==
  UsePending(d) /\ \A other \in Direction \ {d} : pump[other] \notin {"recorder", "write"}

\* The lock on Pending, whose guard is dropped at the end of the statement.
PumpPending(d) == UsePending(d)

\* The call of the recorder.
PumpRecorder(d) ==
  /\ pump[d] = "recorder"
  /\ \E h \in held[d] : \E api \in h.api :
       spool' = Append(spool, [isRequest |-> d = "req", api |-> api, n |-> h.frame.n])
  /\ Goto(d, Follows["recorder"])
  /\ UNCHANGED <<conn, arriving, leaving, held, pending, sent, got>>

\* Mutant: a frame that was not recorded is not written on.
WriteRecorded(d) ==
  /\ pump[d] = "write"
  /\ conn[Dest[d]] = "open"
  /\ Len(leaving[d]) < Buffer
  /\ \E h \in held[d] :
       leaving' = IF h.api = None THEN leaving ELSE [leaving EXCEPT ![d] = Append(@, h.frame)]
  /\ Goto(d, Follows["write"])
  /\ UNCHANGED <<conn, arriving, held, pending, spool, sent, got>>

\* write_all of the length and the body; it waits for room in the buffer.
PumpWrite(d) ==
  /\ pump[d] = "write"
  /\ conn[Dest[d]] = "open"
  /\ Len(leaving[d]) < Buffer
  /\ \E h \in held[d] : leaving' = [leaving EXCEPT ![d] = Append(@, h.frame)]
  /\ Goto(d, Follows["write"])
  /\ UNCHANGED <<conn, arriving, held, pending, spool, sent, got>>

\* A write to a destination that has closed fails once the reset is known.
PumpWriteLost(d) ==
  /\ pump[d] = "write"
  /\ conn[Dest[d]] # "open"
  /\ \E to \in {Follows["write"], "err"} : Goto(d, to)
  /\ UNCHANGED <<conn, arriving, leaving, held, pending, spool, sent, got>>

PumpStep(d) ==
  \/ PumpRead(d) \/ PumpEof(d) \/ PumpBreak(d)
  \/ PumpPending(d) \/ PumpRecorder(d)
  \/ PumpWrite(d) \/ PumpWriteLost(d)

Next ==
  \/ ClientSend \/ ClientRead \/ BrokerServe \/ BrokerGarble
  \/ \E peer \in Peer : Close(peer)
  \/ \E d \in Direction : PumpStep(d)

\* The two threads run.  No peer need send, read or close.
Fairness == \A d \in Direction : WF_vars(PumpStep(d))

Spec == Init /\ [][Next]_vars /\ Fairness

-----------------------------------------------------------------------------
(* Properties *)

\* Each variable has its type.
TypeOK ==
  /\ conn \in [Peer -> {"open", "closed", "reset"}]
  /\ arriving \in [Direction -> Seq(Frame)] /\ leaving \in [Direction -> Seq(Frame)]
  /\ pump \in [Direction -> {"read", "pending", "recorder", "write", "ok", "err"}]
  /\ held \in [Direction -> SUBSET [frame : Frame, api : SUBSET Api]]
  /\ DOMAIN pending \subseteq Corr /\ \A c \in DOMAIN pending : pending[c] \in Api
  /\ spool \in Seq(Captured)
  /\ sent \in [Direction -> Seq(Frame)] /\ got \in [Direction -> Seq(Frame)]

\* "This is what makes a request reach the recorder before its own response
\* does" (pump): every response of the spool comes behind its request.
RequestBeforeResponse ==
  \A i \in DOMAIN spool :
    ~spool[i].isRequest =>
      \E j \in 1..i - 1 : spool[j].isRequest /\ spool[j].n = spool[i].n

\* The two threads' steps on Pending never give a response the api of another
\* request, even where an unanswered request left its id in the map.
ResponseClassified ==
  \A i, j \in DOMAIN spool : spool[i].n = spool[j].n => spool[i].api = spool[j].api

\* What a peer has read, the recorder has seen: every frame with a prefix or a
\* correlation id that came out of the tap is in the spool.
TeeComplete ==
  \A d \in Direction : \A i \in DOMAIN got[d] :
    got[d][i].kind = "full" =>
      \E j \in DOMAIN spool : /\ spool[j].isRequest = (d = "req")
                              /\ spool[j].n = got[d][i].n

Requests == INSTANCE FrameChannel WITH sent <- sent["req"], got <- got["req"]
Responses == INSTANCE FrameChannel WITH sent <- sent["resp"], got <- got["resp"]

\* Each direction is a FIFO channel of frames: "it forwards the bytes
\* byte-for-byte" (lib.rs), the frames it cannot record included.
FramesRelayed == Requests!Spec /\ Responses!Spec

\* Nothing broke direction d off.
Intact(d) ==
  /\ \A peer \in Peer : conn[peer] = "open"
  /\ \A i \in DOMAIN sent[d] : sent[d][i].kind # "negative"

Through(d) == Len(got[d]) + Len(leaving[d])
HeldUp(d) == Intact(d) /\ Through(d) < Len(sent[d]) /\ Len(leaving[d]) < Buffer

\* A full socket buffer holds up its own direction and nothing else: while
\* frames wait in a direction whose destination has room for one, frames go
\* on getting through, although the other pump may for ever be in a write to a
\* peer that does not read (pump: the lock on Pending is not held over a
\* write, and the directions share nothing else).
OnlyOwnPeerBlocks ==
  \A d \in Direction :
    \/ []<>~HeldUp(d)
    \/ []<><<Through(d)' > Through(d)>>_vars

\* Once both peers have closed, both threads end and so does handle_conn,
\* wherever each stands: in a read, before the lock or in a write to a full
\* buffer, with frames left to relay.
ThreadsEnd == (\A peer \in Peer : conn[peer] # "open") ~> \A d \in Direction : Ended(d)
=============================================================================
