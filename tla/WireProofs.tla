----------------------------- MODULE WireProofs -----------------------------
(***************************************************************************)
(* Proofs about what travels over a connection.                            *)
(*                                                                         *)
(* KafkaTap, for any correlation ids, apis, buffer size and number of      *)
(* requests: types, the order of the spool, that each direction implements *)
(* FrameChannel, that every response in the spool has the api of its       *)
(* request, and that no frame passes the tap unrecorded.                   *)
(*                                                                         *)
(* TaggedRelay, for any tags, values, versions and number of connections:  *)
(* a tagged value arrives as it was sent or is not carried.                *)
(*                                                                         *)
(* RecordLog, for any payloads, timestamps, horizons and numbers of        *)
(* records, batches, rewrites and faults: what a consumer reads is what    *)
(* the producers wrote.                                                    *)
(***************************************************************************)
EXTENDS KafkaTap, RecordLog, TaggedRelay, TLAPS, FiniteSetTheorems

\* A pump holds a frame it has read and not yet written.
Busy(d) == pump[d] \in {"pending", "recorder", "write"}

-----------------------------------------------------------------------------
(* Sequences *)

\* Appending to a buffer.
LEMMA AppendFacts ==
  ASSUME NEW S, NEW s \in Seq(S), NEW e \in S
  PROVE  /\ Append(s, e) \in Seq(S)
         /\ Len(Append(s, e)) = Len(s) + 1
         /\ Append(s, e)[Len(s) + 1] = e
         /\ \A i \in 1..Len(s) : Append(s, e)[i] = s[i]
         /\ DOMAIN s = 1..Len(s) /\ Len(s) \in Nat
         /\ DOMAIN Append(s, e) = 1..Len(s) + 1
OBVIOUS

\* Reading the first frame of a buffer.
LEMMA HeadFacts ==
  ASSUME NEW S, NEW s \in Seq(S), s # <<>>
  PROVE  /\ Head(s) \in S /\ Head(s) = s[1]
         /\ Tail(s) \in Seq(S)
         /\ Len(s) \in Nat /\ Len(s) >= 1
         /\ Len(Tail(s)) = Len(s) - 1
         /\ \A i \in 1..Len(s) - 1 : Tail(s)[i] = s[i + 1]
         /\ DOMAIN s = 1..Len(s) /\ DOMAIN Tail(s) = 1..Len(s) - 1
OBVIOUS

-----------------------------------------------------------------------------
(* Types *)

\* The initial state has the types.
LEMMA InitType == Init => TypeOK
BY DEF Init, TypeOK, None, EmptyMap, Direction, Peer

\* Sending a frame keeps the types of the buffer and of the history.
LEMMA SendType ==
  ASSUME TypeOK, NEW d \in Direction, NEW f \in Frame, SendFrame(d, f)
  PROVE  arriving' \in [Direction -> Seq(Frame)] /\ sent' \in [Direction -> Seq(Frame)]
BY DEF TypeOK, SendFrame

\* Reading the first frame behind a pump keeps the types.
LEMMA DeliverType ==
  ASSUME TypeOK, NEW d \in Direction, leaving[d] # <<>>,
         got' = [got EXCEPT ![d] = Append(@, Head(leaving[d]))],
         leaving' = [leaving EXCEPT ![d] = Tail(@)]
  PROVE  /\ got' \in [Direction -> Seq(Frame)] /\ leaving' \in [Direction -> Seq(Frame)]
         /\ Head(leaving[d]) \in Frame
BY HeadFacts DEF TypeOK

\* Every step keeps the types.
LEMMA NextType == TypeOK /\ [Next]_vars => TypeOK'
<1> SUFFICES ASSUME TypeOK, [Next]_vars PROVE TypeOK'
  OBVIOUS
<1> USE DEF Direction, Peer
<1>1. CASE ClientSend
  <2>1. PICK f \in Frame : SendFrame("req", f)
    BY <1>1 DEF ClientSend
  <2>2. arriving' \in [Direction -> Seq(Frame)] /\ sent' \in [Direction -> Seq(Frame)]
    BY <2>1, SendType
  <2> QED
    BY <1>1, <2>2 DEF ClientSend, TypeOK
<1>2. CASE ClientRead
  BY <1>2, DeliverType DEF ClientRead, TypeOK
<1>3. CASE BrokerServe
  <2> DEFINE f == Head(leaving["req"])
  <2>1. /\ got' \in [Direction -> Seq(Frame)] /\ leaving' \in [Direction -> Seq(Frame)]
        /\ f \in Frame
    BY <1>3, DeliverType DEF BrokerServe
  <2>2. SendFrame("resp", f) \/ UNCHANGED <<arriving, sent>>
    BY <1>3 DEF BrokerServe
  <2>3. arriving' \in [Direction -> Seq(Frame)] /\ sent' \in [Direction -> Seq(Frame)]
    BY <2>1, <2>2, SendType DEF TypeOK
  <2> QED
    BY <1>3, <2>1, <2>3 DEF BrokerServe, TypeOK
<1>4. CASE BrokerGarble
  <2> DEFINE f == Head(leaving["req"])
  <2>1. /\ got' \in [Direction -> Seq(Frame)] /\ leaving' \in [Direction -> Seq(Frame)]
        /\ f \in Frame
    BY <1>4, DeliverType DEF BrokerGarble
  <2>2. PICK kind \in Kinds \ {"full"} : SendFrame("resp", [f EXCEPT !.kind = kind])
    BY <1>4 DEF BrokerGarble
  <2>3. [f EXCEPT !.kind = kind] \in Frame
    BY <2>1 DEF Frame
  <2>4. arriving' \in [Direction -> Seq(Frame)] /\ sent' \in [Direction -> Seq(Frame)]
    BY <2>2, <2>3, SendType
  <2> QED
    BY <1>4, <2>1, <2>4 DEF BrokerGarble, TypeOK
<1>5. ASSUME NEW peer \in Peer, Close(peer) PROVE TypeOK'
  BY <1>5 DEF Close, TypeOK
<1>6. ASSUME NEW d \in Direction, PumpRead(d) PROVE TypeOK'
  <2>1. Head(arriving[d]) \in Frame /\ arriving' \in [Direction -> Seq(Frame)]
    BY <1>6, HeadFacts DEF PumpRead, TypeOK
  <2>2. pump' \in [Direction -> {"read", "pending", "recorder", "write", "ok", "err"}]
    BY <1>6 DEF PumpRead, TypeOK, Goto, Follows
  <2>3. held' \in [Direction -> SUBSET [frame : Frame, api : SUBSET Api]]
    <3>1. [frame |-> Head(arriving[d]), api |-> {}] \in [frame : Frame, api : SUBSET Api]
      BY <2>1
    <3>2. held \in [Direction -> SUBSET [frame : Frame, api : SUBSET Api]]
      BY DEF TypeOK
    <3>3. \/ held' = [held EXCEPT ![d] = {}]
          \/ held' = [held EXCEPT ![d] = {[frame |-> Head(arriving[d]), api |-> {}]}]
      BY <1>6 DEF PumpRead, Some, None
    <3> QED
      BY <3>1, <3>2, <3>3
  <2> QED
    BY <1>6, <2>1, <2>2, <2>3 DEF PumpRead, TypeOK
<1>7. ASSUME NEW d \in Direction, PumpEof(d) \/ PumpBreak(d) \/ PumpWriteLost(d) PROVE TypeOK'
  BY <1>7 DEF PumpEof, PumpBreak, PumpWriteLost, TypeOK, Goto, Follows
<1>8. ASSUME NEW d \in Direction, PumpPending(d) PROVE TypeOK'
  <2>1. PICK h \in held[d] :
          LET f == h.frame
              full == f.kind = "full"
              api == IF ~full THEN None ELSE IF d = "req" THEN Some(f.api) ELSE Take(pending, f)
          IN  /\ pending' = IF ~full THEN pending
                            ELSE IF d = "req" THEN Record(pending, f)
                            ELSE Drop(pending, {f.corr})
              /\ held' = [held EXCEPT ![d] = Some([frame |-> f, api |-> api])]
              /\ Goto(d, IF api = None THEN Follows["recorder"] ELSE Follows["pending"])
    BY <1>8 DEF PumpPending, UsePending
  <2>2. h \in [frame : Frame, api : SUBSET Api]
    BY <2>1 DEF TypeOK
  <2>3. h.frame.corr \in Corr /\ h.frame.api \in Api
    BY <2>2 DEF Frame
  <2>4. Take(pending, h.frame) \in SUBSET Api
    BY DEF Take, TypeOK
  <2>5. held' \in [Direction -> SUBSET [frame : Frame, api : SUBSET Api]]
    BY <2>1, <2>2, <2>3, <2>4 DEF TypeOK, Some, None
  <2>6. pump' \in [Direction -> {"read", "pending", "recorder", "write", "ok", "err"}]
    BY <2>1 DEF TypeOK, Goto, Follows
  <2>7. DOMAIN pending' \subseteq Corr /\ \A c \in DOMAIN pending' : pending'[c] \in Api
    BY <2>1, <2>3 DEF TypeOK, Record, Put, Drop
  <2> QED
    BY <1>8, <2>5, <2>6, <2>7 DEF PumpPending, UsePending, TypeOK
<1>9. ASSUME NEW d \in Direction, PumpRecorder(d) PROVE TypeOK'
  <2>0. PICK h \in held[d] : \E api \in h.api :
          spool' = Append(spool, [isRequest |-> d = "req", api |-> api, n |-> h.frame.n])
    BY <1>9 DEF PumpRecorder
  <2>1. PICK api \in h.api :
          spool' = Append(spool, [isRequest |-> d = "req", api |-> api, n |-> h.frame.n])
    BY <2>0
  <2>2. h \in [frame : Frame, api : SUBSET Api]
    BY <2>0 DEF TypeOK
  <2>3. [isRequest |-> d = "req", api |-> api, n |-> h.frame.n] \in Captured
    BY <2>1, <2>2 DEF Captured, Frame
  <2>4. spool' \in Seq(Captured)
    BY <2>1, <2>3, AppendFacts DEF TypeOK
  <2> QED
    BY <1>9, <2>4 DEF PumpRecorder, TypeOK, Goto, Follows
<1>10. ASSUME NEW d \in Direction, PumpWrite(d) PROVE TypeOK'
  <2>1. PICK h \in held[d] : leaving' = [leaving EXCEPT ![d] = Append(@, h.frame)]
    BY <1>10 DEF PumpWrite
  <2>2. leaving' \in [Direction -> Seq(Frame)]
    BY <2>1, AppendFacts DEF TypeOK
  <2> QED
    BY <1>10, <2>2 DEF PumpWrite, TypeOK, Goto, Follows
<1>11. CASE UNCHANGED vars
  BY <1>11 DEF vars, TypeOK
<1> QED
  BY <1>1, <1>2, <1>3, <1>4, <1>5, <1>6, <1>7, <1>8, <1>9, <1>10, <1>11
     DEF Next, PumpStep

\* Every variable keeps its type, in every behaviour.
THEOREM TypeCorrect == Spec => []TypeOK
<1>1. Init => TypeOK
  BY InitType
<1>2. TypeOK /\ [Next]_vars => TypeOK'
  BY NextType
<1> QED
  BY <1>1, <1>2, PTL DEF Spec

-----------------------------------------------------------------------------
(* The order of the spool *)

\* The recorder has been called with request n.
Recorded(n) == \E j \in DOMAIN spool : spool[j].isRequest /\ spool[j].n = n

\* Full frames that a buffer holds, and the full frame a pump holds.
FullIn(s) == {i \in DOMAIN s : s[i].kind = "full"}
FullHeld(d) == {h \in held[d] : h.frame.kind = "full"}

\* A request that is past the recorder, and an answer anywhere, belongs to a
\* recorded request: the broker answers only what was forwarded.
Teed ==
  /\ \A i \in FullIn(leaving["req"]) : Recorded(leaving["req"][i].n)
  /\ pump["req"] = "write" => \A h \in FullHeld("req") : Recorded(h.frame.n)
  /\ \A i \in FullIn(arriving["resp"]) : Recorded(arriving["resp"][i].n)
  /\ Busy("resp") => \A h \in FullHeld("resp") : Recorded(h.frame.n)
  /\ pump["resp"] = "recorder" => FullHeld("resp") = held["resp"]
  /\ \A d \in Direction : \A h, k \in held[d] : h = k

\* The inductive invariant of the spool.
SpoolInv == TypeOK /\ Teed /\ RequestBeforeResponse

\* The spool only grows.
LEMMA SpoolGrows ==
  ASSUME TypeOK, [Next]_vars
  PROVE  \A j \in DOMAIN spool : j \in DOMAIN spool' /\ spool'[j] = spool[j]
<1>1. spool' = spool \/ \E e \in Captured : spool' = Append(spool, e)
  <2>1. ASSUME NEW d \in Direction, PumpRecorder(d)
        PROVE  \E e \in Captured : spool' = Append(spool, e)
    <3>1. PICK h \in held[d] : \E api \in h.api :
            spool' = Append(spool, [isRequest |-> d = "req", api |-> api, n |-> h.frame.n])
      BY <2>1 DEF PumpRecorder
    <3>2. h \in [frame : Frame, api : SUBSET Api]
      BY <3>1 DEF TypeOK
    <3>3. PICK api \in h.api :
            spool' = Append(spool, [isRequest |-> d = "req", api |-> api, n |-> h.frame.n])
      BY <3>1
    <3>4. [isRequest |-> d = "req", api |-> api, n |-> h.frame.n] \in Captured
      BY <3>2, <3>3 DEF Captured, Frame
    <3> QED
      BY <3>3, <3>4
  <2> QED
    BY <2>1 DEF Next, PumpStep, ClientSend, ClientRead, BrokerServe, BrokerGarble, Close,
                PumpRead, PumpEof, PumpBreak, PumpPending, UsePending, PumpWrite, PumpWriteLost, vars
<1>2. spool \in Seq(Captured)
  BY DEF TypeOK
<1> QED
  BY <1>1, <1>2, AppendFacts

\* What was recorded stays so.
LEMMA RecordedStable ==
  ASSUME TypeOK, [Next]_vars, NEW n, Recorded(n)
  PROVE  Recorded(n)'
<1>1. PICK j \in DOMAIN spool : spool[j].isRequest /\ spool[j].n = n
  BY DEF Recorded
<1>2. j \in DOMAIN spool' /\ spool'[j] = spool[j]
  BY <1>1, SpoolGrows
<1> QED
  BY <1>1, <1>2 DEF Recorded

\* A step that leaves the spool, the buffers around the broker and the pumps'
\* frames alone keeps the invariant.
LEMMA SpoolKept ==
  ASSUME SpoolInv, TypeOK', UNCHANGED <<spool, held>>,
         leaving'["req"] = leaving["req"], arriving'["resp"] = arriving["resp"],
         pump'["req"] = "write" => pump["req"] = "write",
         Busy("resp")' => Busy("resp"),
         pump'["resp"] = "recorder" => pump["resp"] = "recorder"
  PROVE  SpoolInv'
<1>1. \A n : Recorded(n)' = Recorded(n)
  BY DEF Recorded
<1>2. FullHeld("req")' = FullHeld("req") /\ FullHeld("resp")' = FullHeld("resp")
  BY DEF FullHeld
<1> QED
  BY <1>1, <1>2 DEF SpoolInv, Teed, RequestBeforeResponse, FullIn

\* Every step keeps the inductive invariant.
LEMMA NextSpool == SpoolInv /\ [Next]_vars => SpoolInv'
<1> SUFFICES ASSUME SpoolInv, [Next]_vars PROVE SpoolInv'
  OBVIOUS
<1>t. TypeOK /\ TypeOK'
  BY NextType DEF SpoolInv
<1>s. \A n : Recorded(n) => Recorded(n)'
  BY <1>t, RecordedStable
<1>b. /\ leaving["req"] \in Seq(Frame) /\ leaving["resp"] \in Seq(Frame)
      /\ arriving["req"] \in Seq(Frame) /\ arriving["resp"] \in Seq(Frame)
      /\ spool \in Seq(Captured)
      /\ DOMAIN leaving = Direction /\ DOMAIN arriving = Direction /\ DOMAIN held = Direction
      /\ DOMAIN pump = Direction
  BY <1>t DEF TypeOK, Direction
<1>1. CASE ClientSend
  <2>1. /\ UNCHANGED <<spool, held, pump>> /\ leaving'["req"] = leaving["req"]
        /\ arriving'["resp"] = arriving["resp"]
    BY <1>1 DEF ClientSend, SendFrame
  <2> QED
    BY <2>1, <1>t, SpoolKept DEF Busy
<1>2. CASE ClientRead
  <2>1. /\ UNCHANGED <<spool, held, pump>> /\ leaving'["req"] = leaving["req"]
        /\ arriving'["resp"] = arriving["resp"]
    BY <1>2 DEF ClientRead
  <2> QED
    BY <2>1, <1>t, SpoolKept DEF Busy
<1>3. CASE BrokerServe \/ BrokerGarble
  <2>1. UNCHANGED <<spool, held, pump>>
    BY <1>3 DEF BrokerServe, BrokerGarble
  <2>2. \A n : Recorded(n)' = Recorded(n)
    BY <2>1 DEF Recorded
  <2>3. leaving["req"] # <<>> /\ leaving'["req"] = Tail(leaving["req"])
    BY <1>3, <1>b DEF BrokerServe, BrokerGarble, Direction
  <2>4. \A i \in FullIn(leaving["req"])' : Recorded(leaving["req"][i].n)'
    BY <2>2, <2>3, <1>b, HeadFacts DEF SpoolInv, Teed, FullIn
  <2>5. \A i \in FullIn(arriving["resp"])' : Recorded(arriving["resp"][i].n)'
    <3> DEFINE f == Head(leaving["req"])
    <3>1. f \in Frame /\ (f.kind = "full" => Recorded(f.n))
      BY <2>3, <1>b, HeadFacts DEF SpoolInv, Teed, FullIn
    <3>2. \/ arriving'["resp"] = arriving["resp"]
          \/ \E kind \in Kinds :
               /\ kind = "full" => f.kind = "full"
               /\ arriving'["resp"] = Append(arriving["resp"], [f EXCEPT !.kind = kind])
      <4>1. CASE BrokerServe
        <5>1. f.kind = "full" => f = [f EXCEPT !.kind = "full"] /\ "full" \in Kinds
          BY <3>1 DEF Frame
        <5> QED
          BY <4>1, <5>1, <1>b DEF BrokerServe, SendFrame, Direction
      <4>2. CASE BrokerGarble
        BY <4>2, <1>b DEF BrokerGarble, SendFrame, Direction
      <4> QED
        BY <4>1, <4>2, <1>3
    <3>3. ASSUME NEW kind \in Kinds, kind = "full" => f.kind = "full",
                 arriving'["resp"] = Append(arriving["resp"], [f EXCEPT !.kind = kind])
          PROVE  \A i \in FullIn(arriving["resp"])' : Recorded(arriving["resp"][i].n)'
      <4> DEFINE e == [f EXCEPT !.kind = kind]
      <4>1. e \in Frame /\ e.kind = kind /\ e.n = f.n
        BY <3>1 DEF Frame
      <4> HIDE DEF e, f
      <4>2. arriving'["resp"] = Append(arriving["resp"], e)
        BY <3>3 DEF e
      <4> QED
        BY <4>1, <4>2, <3>1, <3>3, <2>2, <1>b, AppendFacts DEF SpoolInv, Teed, FullIn
    <3> QED
      BY <3>2, <3>3, <2>2 DEF SpoolInv, Teed, FullIn
  <2> QED
    BY <2>1, <2>2, <2>4, <2>5, <1>t
       DEF SpoolInv, Teed, RequestBeforeResponse, FullHeld, Busy
<1>4. ASSUME NEW peer \in Peer, Close(peer) PROVE SpoolInv'
  BY <1>4, <1>t, SpoolKept DEF Close, Busy
<1>5. ASSUME NEW d \in Direction, PumpEof(d) \/ PumpBreak(d) \/ PumpWriteLost(d)
      PROVE  SpoolInv'
  <2>1. \E to \in {"ok", "err", "read"} : pump' = [pump EXCEPT ![d] = to]
    BY <1>5 DEF PumpEof, PumpBreak, PumpWriteLost, Goto, Follows
  <2>2. UNCHANGED <<spool, held, leaving, arriving>>
    BY <1>5 DEF PumpEof, PumpBreak, PumpWriteLost
  <2> QED
    BY <2>1, <2>2, <1>b, <1>t, SpoolKept DEF Busy, Direction
<1>6. ASSUME NEW d \in Direction, PumpRead(d) PROVE SpoolInv'
  <2>1. UNCHANGED <<spool, leaving>> /\ \A n : Recorded(n)' = Recorded(n)
    BY <1>6 DEF PumpRead, Recorded
  <2>2. arriving[d] \in Seq(Frame) /\ arriving[d] # <<>>
        /\ arriving' = [arriving EXCEPT ![d] = Tail(@)]
    BY <1>6, <1>b DEF PumpRead, Direction
  <2>3. \/ pump' = [pump EXCEPT ![d] = "ok"] /\ held' = [held EXCEPT ![d] = {}]
        \/ /\ pump' = [pump EXCEPT ![d] = "pending"]
           /\ held' = [held EXCEPT ![d] = {[frame |-> Head(arriving[d]), api |-> {}]}]
    BY <1>6 DEF PumpRead, Goto, Follows, Some, None
  <2>4. \A i \in FullIn(arriving["resp"])' : Recorded(arriving["resp"][i].n)'
    BY <2>1, <2>2, <1>b, HeadFacts DEF SpoolInv, Teed, FullIn, Direction
  <2>5. CASE d = "req"
    <3>1. held'["resp"] = held["resp"] /\ pump'["resp"] = pump["resp"] /\ pump'["req"] # "write"
      BY <2>3, <2>5, <1>b DEF Direction
    <3>0. held'["req"] = {} \/ \E x : held'["req"] = {x}
      BY <2>3, <2>5, <1>b DEF Direction
    <3>2. \A h, k \in held'["req"] : h = k
      BY <3>0
    <3> QED
      BY <2>1, <2>4, <3>1, <3>2, <1>t
         DEF SpoolInv, Teed, RequestBeforeResponse, FullHeld, FullIn, Busy, Direction
  <2>6. CASE d = "resp"
    <3>1. held'["req"] = held["req"] /\ pump'["req"] = pump["req"] /\ pump'["resp"] # "recorder"
      BY <2>3, <2>6, <1>b DEF Direction
    <3>0. held'["resp"] = {} \/ \E x : held'["resp"] = {x}
      BY <2>3, <2>6, <1>b DEF Direction
    <3>2. \A h, k \in held'["resp"] : h = k
      BY <3>0
    <3>3. Head(arriving["resp"]).kind = "full" => Recorded(Head(arriving["resp"]).n)
      BY <2>2, <2>6, <1>b, HeadFacts DEF SpoolInv, Teed, FullIn
    <3>4. \A h \in FullHeld("resp")' : Recorded(h.frame.n)
      BY <2>3, <2>6, <3>3, <1>b DEF FullHeld, Direction
    <3> QED
      BY <2>1, <2>4, <3>1, <3>2, <3>4, <1>t
         DEF SpoolInv, Teed, RequestBeforeResponse, FullHeld, FullIn, Busy, Direction
  <2> QED
    BY <2>5, <2>6 DEF Direction
<1>7. ASSUME NEW d \in Direction, PumpPending(d) PROVE SpoolInv'
  <2>1. UNCHANGED <<spool, leaving, arriving>> /\ \A n : Recorded(n)' = Recorded(n)
    BY <1>7 DEF PumpPending, UsePending, Recorded
  <2>2. PICK h \in held[d] : \E api :
          /\ held' = [held EXCEPT ![d] = {[frame |-> h.frame, api |-> api]}]
          /\ h.frame.kind # "full" => api = {}
          /\ h.frame.kind = "full" /\ d = "req" => api # {}
          /\ pump' = [pump EXCEPT ![d] = IF api = {} THEN "write" ELSE "recorder"]
    BY <1>7 DEF PumpPending, UsePending, Some, None, Goto, Follows
  <2>3. PICK api :
          /\ held' = [held EXCEPT ![d] = {[frame |-> h.frame, api |-> api]}]
          /\ h.frame.kind # "full" => api = {}
          /\ h.frame.kind = "full" /\ d = "req" => api # {}
          /\ pump' = [pump EXCEPT ![d] = IF api = {} THEN "write" ELSE "recorder"]
    BY <2>2
  <2>4. held'[d] = {[frame |-> h.frame, api |-> api]}
    BY <2>3, <1>b
  <2>5. pump[d] = "pending"
    BY <1>7 DEF PumpPending, UsePending
  <2>6. CASE d = "req"
    <3>1. held'["resp"] = held["resp"] /\ pump'["resp"] = pump["resp"]
      BY <2>3, <2>6, <1>b DEF Direction
    <3>2. \A k, l \in held'["req"] : k = l
      BY <2>4, <2>6
    <3>3. pump'["req"] = "write" => h.frame.kind # "full"
      BY <2>3, <2>6, <1>b
    <3>4. pump'["req"] = "write" => FullHeld("req")' = {}
      BY <3>3, <2>4, <2>6 DEF FullHeld
    <3> QED
      BY <2>1, <3>1, <3>2, <3>4, <1>t
         DEF SpoolInv, Teed, RequestBeforeResponse, FullHeld, FullIn, Busy, Direction
  <2>7. CASE d = "resp"
    <3>1. held'["req"] = held["req"] /\ pump'["req"] = pump["req"]
      BY <2>3, <2>7, <1>b DEF Direction
    <3>2. \A k, l \in held'["resp"] : k = l
      BY <2>4, <2>7
    <3>3. h.frame.kind = "full" => Recorded(h.frame.n)
      BY <2>2, <2>5, <2>7 DEF SpoolInv, Teed, FullHeld, Busy
    <3>4. \A k \in FullHeld("resp")' : Recorded(k.frame.n)
      BY <3>3, <2>4, <2>7 DEF FullHeld
    <3>5. pump'["resp"] = "recorder" => FullHeld("resp")' = held'["resp"]
      BY <2>3, <2>4, <2>7, <1>b DEF FullHeld
    <3> QED
      BY <2>1, <3>1, <3>2, <3>4, <3>5, <1>t
         DEF SpoolInv, Teed, RequestBeforeResponse, FullHeld, FullIn, Busy, Direction
  <2> QED
    BY <2>6, <2>7 DEF Direction
<1>8. ASSUME NEW d \in Direction, PumpRecorder(d) PROVE SpoolInv'
  <2>1. UNCHANGED <<held, leaving, arriving>> /\ pump[d] = "recorder"
        /\ pump' = [pump EXCEPT ![d] = "write"]
    BY <1>8 DEF PumpRecorder, Goto, Follows
  <2>2. PICK h \in held[d] : \E api \in h.api :
          spool' = Append(spool, [isRequest |-> d = "req", api |-> api, n |-> h.frame.n])
    BY <1>8 DEF PumpRecorder
  <2>3. PICK api \in h.api :
          spool' = Append(spool, [isRequest |-> d = "req", api |-> api, n |-> h.frame.n])
    BY <2>2
  <2> DEFINE e == [isRequest |-> d = "req", api |-> api, n |-> h.frame.n]
  <2>4. h \in [frame : Frame, api : SUBSET Api]
    BY <1>t, <2>2 DEF TypeOK
  <2>5. /\ e \in Captured /\ e.n = h.frame.n
        /\ d = "req" => e.isRequest
        /\ d = "resp" => ~e.isRequest
    BY <2>3, <2>4 DEF Captured, Frame
  <2>6. spool' = Append(spool, e)
    BY <2>3
  <2> HIDE DEF e
  <2>7. /\ DOMAIN spool = 1..Len(spool) /\ Len(spool) \in Nat
        /\ DOMAIN spool' = 1..Len(spool) + 1
        /\ spool'[Len(spool) + 1] = e
        /\ \A i \in 1..Len(spool) : spool'[i] = spool[i]
    BY <2>5, <2>6, <1>b, AppendFacts
  <2>8. CASE d = "req"
    <3>1. Recorded(h.frame.n)'
      BY <2>5, <2>7, <2>8 DEF Recorded
    <3>2. \A k \in FullHeld("req")' : Recorded(k.frame.n)'
      BY <3>1, <2>1, <2>2, <2>8 DEF FullHeld, SpoolInv, Teed, Direction
    <3>3. RequestBeforeResponse'
      <4> SUFFICES ASSUME NEW i \in DOMAIN spool', ~spool'[i].isRequest
                   PROVE  \E j \in 1..i - 1 : spool'[j].isRequest /\ spool'[j].n = spool'[i].n
        BY DEF RequestBeforeResponse
      <4>1. i \in 1..Len(spool) /\ spool'[i] = spool[i]
        BY <2>5, <2>7, <2>8
      <4>2. PICK j \in 1..i - 1 : spool[j].isRequest /\ spool[j].n = spool[i].n
        BY <4>1, <2>7 DEF SpoolInv, RequestBeforeResponse
      <4> QED
        BY <4>1, <4>2, <2>7
    <3>4. pump'["resp"] = pump["resp"]
      BY <2>1, <2>8, <1>b DEF Direction
    <3> QED
      BY <2>1, <3>2, <3>3, <3>4, <1>s, <1>t DEF SpoolInv, Teed, FullHeld, FullIn, Busy
  <2>9. CASE d = "resp"
    <3>1. Recorded(h.frame.n)
      BY <2>1, <2>2, <2>9 DEF SpoolInv, Teed, FullHeld, Busy
    <3>2. RequestBeforeResponse'
      BY <3>1, <2>5, <2>7, <2>9 DEF SpoolInv, RequestBeforeResponse, Recorded
    <3>3. pump'["req"] = pump["req"] /\ pump'["resp"] = "write"
      BY <2>1, <2>9, <1>b DEF Direction
    <3>4. \A k \in FullHeld("resp")' : Recorded(k.frame.n)'
      BY <2>1, <2>9, <1>s DEF SpoolInv, Teed, FullHeld, Busy
    <3>5. /\ \A i \in FullIn(leaving["req"])' : Recorded(leaving["req"][i].n)'
          /\ \A i \in FullIn(arriving["resp"])' : Recorded(arriving["resp"][i].n)'
      BY <2>1, <1>s DEF SpoolInv, Teed, FullIn
    <3>6. pump'["req"] = "write" => \A k \in FullHeld("req")' : Recorded(k.frame.n)'
      BY <2>1, <3>3, <1>s DEF SpoolInv, Teed, FullHeld
    <3>7. \A d1 \in Direction : \A k, l \in held'[d1] : k = l
      BY <2>1 DEF SpoolInv, Teed
    <3> QED
      BY <3>2, <3>3, <3>4, <3>5, <3>6, <3>7, <1>t DEF SpoolInv, Teed
  <2> QED
    BY <2>8, <2>9 DEF Direction
<1>9. ASSUME NEW d \in Direction, PumpWrite(d) PROVE SpoolInv'
  <2>1. UNCHANGED <<held, spool, arriving>> /\ pump[d] = "write"
        /\ pump' = [pump EXCEPT ![d] = "read"] /\ \A n : Recorded(n)' = Recorded(n)
    BY <1>9 DEF PumpWrite, Goto, Follows, Recorded
  <2>2. PICK h \in held[d] : leaving' = [leaving EXCEPT ![d] = Append(@, h.frame)]
    BY <1>9 DEF PumpWrite
  <2>3. h.frame \in Frame
    BY <1>t, <2>2 DEF TypeOK
  <2>4. \A i \in FullIn(leaving["req"])' : Recorded(leaving'["req"][i].n)
    <3>1. CASE d = "req"
      <4>1. leaving'["req"] = Append(leaving["req"], h.frame)
        BY <2>2, <3>1, <1>b DEF Direction
      <4>2. h.frame.kind = "full" => Recorded(h.frame.n)
        BY <2>1, <2>2, <3>1 DEF SpoolInv, Teed, FullHeld
      <4>3. /\ DOMAIN leaving["req"] = 1..Len(leaving["req"])
            /\ DOMAIN leaving'["req"] = 1..Len(leaving["req"]) + 1
            /\ leaving'["req"][Len(leaving["req"]) + 1] = h.frame
            /\ \A i \in 1..Len(leaving["req"]) : leaving'["req"][i] = leaving["req"][i]
            /\ Len(leaving["req"]) \in Nat
        BY <4>1, <2>3, <1>b, AppendFacts
      <4>4. \A i \in FullIn(leaving["req"]) : Recorded(leaving["req"][i].n)
        BY DEF SpoolInv, Teed
      <4> SUFFICES ASSUME NEW i \in DOMAIN leaving'["req"], leaving'["req"][i].kind = "full"
                   PROVE  Recorded(leaving'["req"][i].n)
        BY DEF FullIn
      <4>5. CASE i = Len(leaving["req"]) + 1
        BY <4>2, <4>3, <4>5
      <4>6. CASE i \in 1..Len(leaving["req"])
        <5>1. i \in FullIn(leaving["req"]) /\ leaving'["req"][i] = leaving["req"][i]
          BY <4>3, <4>6 DEF FullIn
        <5> QED
          BY <5>1, <4>4
      <4> QED
        BY <4>3, <4>5, <4>6
    <3>2. CASE d = "resp"
      BY <2>1, <2>2, <3>2, <1>b DEF SpoolInv, Teed, FullIn, Direction
    <3> QED
      BY <3>1, <3>2 DEF Direction
  <2>5. /\ pump'["req"] = "write" => pump["req"] = "write"
        /\ Busy("resp")' => Busy("resp")
        /\ pump'["resp"] = "recorder" => pump["resp"] = "recorder"
    BY <2>1, <1>b DEF Busy, Direction
  <2>6. \A i \in FullIn(leaving["req"])' : Recorded(leaving["req"][i].n)'
    BY <2>1, <2>4
  <2>7. RequestBeforeResponse'
    BY <2>1 DEF SpoolInv, RequestBeforeResponse
  <2>8. FullHeld("req")' = FullHeld("req") /\ FullHeld("resp")' = FullHeld("resp")
    BY <2>1 DEF FullHeld
  <2> QED
    BY <2>1, <2>5, <2>6, <2>7, <2>8, <1>t DEF SpoolInv, Teed, FullIn
<1>10. CASE UNCHANGED vars
  BY <1>10, <1>t, SpoolKept DEF vars, Busy
<1> QED
  BY <1>1, <1>2, <1>3, <1>4, <1>5, <1>6, <1>7, <1>8, <1>9, <1>10 DEF Next, PumpStep

\* However the two pump threads interleave, no response is recorded before the
\* request it answers (pump's doc comment).
THEOREM SpoolOrdered == Spec => []RequestBeforeResponse
<1>1. Init => SpoolInv
  BY InitType DEF Init, SpoolInv, Teed, RequestBeforeResponse, FullHeld, FullIn, Busy,
                  None, Direction
<1>2. SpoolInv /\ [Next]_vars => SpoolInv'
  BY NextSpool
<1>3. SpoolInv => RequestBeforeResponse
  BY DEF SpoolInv
<1> QED
  BY <1>1, <1>2, <1>3, PTL DEF Spec

-----------------------------------------------------------------------------
(* Each direction implements FrameChannel *)

\* The frames of l continue the frames of g in s.
MovedTo(s, g, l) ==
  Len(g) + Len(l) <= Len(s) /\ \A i \in 1..Len(l) : l[i] = s[Len(g) + i]

\* The frames of a are what s has behind its first k.
Behind(s, k, a) == k + Len(a) = Len(s) /\ \A i \in 1..Len(a) : a[i] = s[k + i]

\* How many frames the pump has read.
At(d) == Len(got[d]) + Len(leaving[d]) + (IF Busy(d) THEN 1 ELSE 0)

\* While the destination reads, what it has read, the buffer behind the pump,
\* the frame the pump holds and the buffer before it are, in that order, the
\* frames the source sent; the last two as long as the pump runs.
Flow(d) ==
  conn[Dest[d]] = "open" =>
    /\ MovedTo(sent[d], got[d], leaving[d])
    /\ ~Ended(d) =>
         /\ Behind(sent[d], At(d), arriving[d])
         /\ Busy(d) => \A h \in held[d] : h.frame = sent[d][At(d)]

\* The inductive invariant of the relay.
FlowInv == TypeOK /\ \A d \in Direction : Flow(d)

\* The destination reads the first frame behind the pump.
LEMMA CarriedDeliver ==
  ASSUME NEW S, NEW s \in Seq(S), NEW g \in Seq(S), NEW l \in Seq(S), l # <<>>, MovedTo(s, g, l)
  PROVE  /\ MovedTo(s, Append(g, Head(l)), Tail(l))
         /\ Len(Append(g, Head(l))) + Len(Tail(l)) = Len(g) + Len(l)
         /\ Len(g) < Len(s) /\ Head(l) = s[Len(g) + 1]
<1>1. /\ Head(l) \in S /\ Head(l) = l[1] /\ Len(l) \in Nat /\ Len(l) >= 1
      /\ Len(Tail(l)) = Len(l) - 1 /\ \A i \in 1..Len(l) - 1 : Tail(l)[i] = l[i + 1]
  BY HeadFacts
<1>2. Len(Append(g, Head(l))) = Len(g) + 1 /\ Len(g) \in Nat /\ Len(s) \in Nat
  BY <1>1, AppendFacts
<1> QED
  BY <1>1, <1>2 DEF MovedTo

\* The pump writes the next frame.
LEMMA CarriedWrite ==
  ASSUME NEW S, NEW s \in Seq(S), NEW g \in Seq(S), NEW l \in Seq(S), NEW f \in S,
         MovedTo(s, g, l), Len(g) + Len(l) < Len(s), f = s[Len(g) + Len(l) + 1]
  PROVE  MovedTo(s, g, Append(l, f)) /\ Len(Append(l, f)) = Len(l) + 1
<1>1. /\ Len(Append(l, f)) = Len(l) + 1 /\ Append(l, f)[Len(l) + 1] = f /\ Len(l) \in Nat
      /\ \A i \in 1..Len(l) : Append(l, f)[i] = l[i]
  BY AppendFacts
<1>2. Len(g) \in Nat /\ Len(s) \in Nat
  OBVIOUS
<1> QED
  BY <1>1, <1>2 DEF MovedTo

\* The source sends a frame.
LEMMA FlowSend ==
  ASSUME NEW S, NEW s \in Seq(S), NEW g \in Seq(S), NEW l \in Seq(S), NEW a \in Seq(S),
         NEW f \in S, NEW k \in Nat, MovedTo(s, g, l)
  PROVE  /\ MovedTo(Append(s, f), g, l)
         /\ Behind(s, k, a) => Behind(Append(s, f), k, Append(a, f))
         /\ k \in 1..Len(s) => Append(s, f)[k] = s[k]
<1>1. /\ Len(Append(s, f)) = Len(s) + 1 /\ Append(s, f)[Len(s) + 1] = f /\ Len(s) \in Nat
      /\ \A i \in 1..Len(s) : Append(s, f)[i] = s[i]
  BY AppendFacts
<1>2. /\ Len(Append(a, f)) = Len(a) + 1 /\ Append(a, f)[Len(a) + 1] = f /\ Len(a) \in Nat
      /\ \A i \in 1..Len(a) : Append(a, f)[i] = a[i]
  BY AppendFacts
<1>3. Len(g) \in Nat /\ Len(l) \in Nat
  OBVIOUS
<1>4. MovedTo(Append(s, f), g, l)
  BY <1>1, <1>3 DEF MovedTo
<1>5. ASSUME Behind(s, k, a) PROVE Behind(Append(s, f), k, Append(a, f))
  <2>1. k + Len(a) = Len(s) /\ \A i \in 1..Len(a) : a[i] = s[k + i]
    BY <1>5 DEF Behind
  <2>2. k + Len(Append(a, f)) = Len(Append(s, f))
    BY <1>1, <1>2, <2>1
  <2>3. ASSUME NEW i \in 1..Len(Append(a, f)) PROVE Append(a, f)[i] = Append(s, f)[k + i]
    <3>1. CASE i = Len(a) + 1
      <4>1. k + i = Len(s) + 1
        <5>1. Len(s) \in Nat /\ Len(a) \in Nat /\ k + Len(a) = Len(s)
          BY <1>1, <1>2, <2>1
        <5> QED BY <3>1, <5>1
      <4> QED BY <1>1, <1>2, <3>1, <4>1
    <3>2. CASE i # Len(a) + 1
      <4>1. i \in 1..Len(a) /\ k + i \in 1..Len(s)
        BY <1>1, <1>2, <2>1, <3>2
      <4> QED BY <1>1, <1>2, <2>1, <4>1
    <3> QED BY <3>1, <3>2
  <2> QED BY <2>2, <2>3 DEF Behind
<1> QED
  BY <1>1, <1>4, <1>5

\* The pump reads a frame.
LEMMA BehindRead ==
  ASSUME NEW S, NEW s \in Seq(S), NEW a \in Seq(S), NEW k \in Nat, a # <<>>, Behind(s, k, a)
  PROVE  Behind(s, k + 1, Tail(a)) /\ Head(a) = s[k + 1]
<1>1. /\ Head(a) = a[1] /\ Len(a) \in Nat /\ Len(a) >= 1
      /\ Len(Tail(a)) = Len(a) - 1 /\ \A i \in 1..Len(a) - 1 : Tail(a)[i] = a[i + 1]
  BY HeadFacts
<1>2. Len(s) \in Nat
  OBVIOUS
<1> QED
  BY <1>1, <1>2 DEF Behind

\* A direction that a step does not touch keeps its flow.
LEMMA FlowKept ==
  ASSUME NEW d \in Direction, Flow(d),
         conn'[Dest[d]] = "open" => conn[Dest[d]] = "open",
         sent'[d] = sent[d], got'[d] = got[d], leaving'[d] = leaving[d],
         arriving'[d] = arriving[d], pump'[d] = pump[d], held'[d] = held[d]
  PROVE  Flow(d)'
BY DEF Flow, Busy, Ended, At

\* The lengths and types that a direction's sequences have.
LEMMA SeqTypes ==
  ASSUME TypeOK, NEW d \in Direction
  PROVE  /\ sent[d] \in Seq(Frame) /\ got[d] \in Seq(Frame)
         /\ leaving[d] \in Seq(Frame) /\ arriving[d] \in Seq(Frame)
         /\ Len(got[d]) \in Nat /\ Len(leaving[d]) \in Nat /\ At(d) \in Nat
         /\ Len(sent[d]) \in Nat /\ Len(arriving[d]) \in Nat
BY DEF TypeOK, At

\* The frame that a pump holds is one of those that were sent.
LEMMA Within ==
  ASSUME NEW g \in Nat, NEW l \in Nat, NEW a \in Nat, NEW n \in Nat, NEW k,
         k = g + l + 1, k + a = n
  PROVE  k \in 1..n /\ g + l < n
OBVIOUS

\* The frame that leaves the pump enters the buffer behind it.
LEMMA OneMoved ==
  ASSUME NEW g \in Nat, NEW l \in Nat
  PROVE  g + (l + 1) + 0 = g + l + 1
OBVIOUS

\* The flow of a direction whose source sends a frame.
LEMMA SendKeeps ==
  ASSUME FlowInv, NEW d \in Direction, NEW f \in Frame, SendFrame(d, f),
         UNCHANGED conn, got'[d] = got[d], leaving'[d] = leaving[d],
         pump'[d] = pump[d], held'[d] = held[d]
  PROVE  Flow(d)'
<1>1. TypeOK /\ Flow(d) /\ d \in DOMAIN sent /\ d \in DOMAIN arriving
  BY DEF FlowInv, TypeOK
<1>2. sent'[d] = Append(sent[d], f) /\ arriving'[d] = Append(arriving[d], f)
  BY <1>1 DEF SendFrame
<1>3. At(d)' = At(d) /\ Busy(d)' = Busy(d) /\ Ended(d)' = Ended(d)
  BY DEF At, Busy, Ended
<1> SUFFICES ASSUME conn[Dest[d]] = "open"
             PROVE  /\ MovedTo(sent'[d], got[d], leaving[d])
                    /\ ~Ended(d) =>
                         /\ Behind(sent'[d], At(d), arriving'[d])
                         /\ Busy(d) => \A h \in held[d] : h.frame = sent'[d][At(d)]
  BY <1>3 DEF Flow
<1>4. MovedTo(sent[d], got[d], leaving[d])
  BY <1>1 DEF Flow
<1>5. MovedTo(sent'[d], got[d], leaving[d])
  BY <1>1, <1>2, <1>4, SeqTypes, FlowSend
<1>6. ASSUME ~Ended(d)
      PROVE  /\ Behind(sent'[d], At(d), arriving'[d])
             /\ Busy(d) => \A h \in held[d] : h.frame = sent'[d][At(d)]
  <2>1. Behind(sent[d], At(d), arriving[d])
    BY <1>1, <1>6 DEF Flow
  <2>2. Behind(sent'[d], At(d), arriving'[d])
    BY <1>1, <1>2, <1>4, <2>1, SeqTypes, FlowSend
  <2>3. ASSUME Busy(d) PROVE At(d) \in 1..Len(sent[d])
    <3>1. At(d) = Len(got[d]) + Len(leaving[d]) + 1 /\ Len(arriving[d]) \in Nat
      BY <1>1, <2>3, SeqTypes DEF At
    <3>2. At(d) + Len(arriving[d]) = Len(sent[d])
      BY <2>1 DEF Behind
    <3>3. Len(got[d]) \in Nat /\ Len(leaving[d]) \in Nat /\ Len(sent[d]) \in Nat
      BY <1>1, SeqTypes
    <3> QED
      BY <3>1, <3>2, <3>3, Within
  <2>4. ASSUME Busy(d) PROVE sent'[d][At(d)] = sent[d][At(d)]
    BY <1>1, <1>2, <1>4, <2>3, <2>4, SeqTypes, FlowSend
  <2> QED
    BY <1>1, <1>6, <2>2, <2>4 DEF Flow
<1> QED
  BY <1>5, <1>6

\* The flow of a direction whose destination reads a frame, which is the next
\* frame of those that were sent.
LEMMA DeliverKeeps ==
  ASSUME FlowInv, NEW d \in Direction, leaving[d] # <<>>, conn[Dest[d]] = "open",
         UNCHANGED conn, sent'[d] = sent[d], arriving'[d] = arriving[d],
         got' = [got EXCEPT ![d] = Append(@, Head(leaving[d]))],
         leaving' = [leaving EXCEPT ![d] = Tail(@)],
         pump'[d] = pump[d], held'[d] = held[d]
  PROVE  /\ Flow(d)'
         /\ Len(got[d]) < Len(sent[d])
         /\ got'[d] = Append(got[d], sent[d][Len(got[d]) + 1])
<1>1. TypeOK /\ Flow(d) /\ d \in DOMAIN got /\ d \in DOMAIN leaving
  BY DEF FlowInv, TypeOK
<1>2. got'[d] = Append(got[d], Head(leaving[d])) /\ leaving'[d] = Tail(leaving[d])
  BY <1>1
<1>3. MovedTo(sent[d], got[d], leaving[d])
  BY <1>1 DEF Flow
<1>4. /\ MovedTo(sent[d], got'[d], leaving'[d])
      /\ Len(got'[d]) + Len(leaving'[d]) = Len(got[d]) + Len(leaving[d])
      /\ Len(got[d]) < Len(sent[d]) /\ Head(leaving[d]) = sent[d][Len(got[d]) + 1]
  BY <1>1, <1>2, <1>3, SeqTypes, CarriedDeliver
<1>5. At(d)' = At(d) /\ Busy(d)' = Busy(d) /\ Ended(d)' = Ended(d)
  BY <1>4 DEF At, Busy, Ended
<1> QED
  BY <1>1, <1>2, <1>4, <1>5 DEF Flow

\* The flow of a direction whose pump takes a step.
LEMMA PumpKeeps ==
  ASSUME FlowInv, NEW d \in Direction, PumpStep(d)
  PROVE  Flow(d)'
<1>1. TypeOK /\ Flow(d)
  BY DEF FlowInv
<1>2. /\ sent'[d] = sent[d] /\ got'[d] = got[d] /\ UNCHANGED conn
      /\ d \in DOMAIN leaving /\ d \in DOMAIN arriving /\ d \in DOMAIN pump /\ d \in DOMAIN held
  BY DEF PumpStep, PumpRead, PumpEof, PumpBreak, PumpPending, UsePending, PumpRecorder, PumpWrite,
         PumpWriteLost, FlowInv, TypeOK
<1> SUFFICES ASSUME conn[Dest[d]] = "open"
             PROVE  /\ MovedTo(sent[d], got[d], leaving'[d])
                    /\ ~Ended(d)' =>
                         /\ Behind(sent[d], At(d)', arriving'[d])
                         /\ Busy(d)' => \A h \in held'[d] : h.frame = sent[d][At(d)']
  BY <1>2 DEF Flow
<1>3. MovedTo(sent[d], got[d], leaving[d])
  BY <1>1 DEF Flow
<1>4. ASSUME ~Ended(d) PROVE Behind(sent[d], At(d), arriving[d])
  BY <1>1, <1>4 DEF Flow
<1>5. CASE PumpRead(d)
  <2>1. /\ pump[d] = "read" /\ arriving[d] # <<>> /\ arriving'[d] = Tail(arriving[d])
        /\ leaving'[d] = leaving[d]
    BY <1>2, <1>5 DEF PumpRead
  <2>2. CASE Ended(d)'
    BY <2>1, <2>2, <1>3
  <2>3. CASE ~Ended(d)'
    <3>1. /\ pump'[d] = "pending"
          /\ held'[d] = {[frame |-> Head(arriving[d]), api |-> {}]}
      BY <1>2, <1>5, <2>3 DEF PumpRead, Goto, Follows, Some, None, Ended
    <3>2. Behind(sent[d], At(d), arriving[d]) /\ At(d)' = At(d) + 1
      BY <1>1, <1>2, <1>4, <2>1, <3>1, SeqTypes DEF Ended, At, Busy
    <3>3. Behind(sent[d], At(d) + 1, Tail(arriving[d]))
          /\ Head(arriving[d]) = sent[d][At(d) + 1]
      BY <1>1, <2>1, <3>2, SeqTypes, BehindRead
    <3> QED
      BY <1>3, <2>1, <3>1, <3>2, <3>3
  <2> QED
    BY <2>2, <2>3
<1>6. CASE PumpEof(d) \/ PumpBreak(d)
  <2>1. leaving'[d] = leaving[d] /\ Ended(d)'
    BY <1>2, <1>6 DEF PumpEof, PumpBreak, Goto, Ended
  <2> QED
    BY <2>1, <1>3
<1>7. CASE PumpPending(d)
  <2>1. /\ pump[d] = "pending" /\ pump'[d] \in {"recorder", "write"}
        /\ leaving'[d] = leaving[d] /\ arriving'[d] = arriving[d]
    BY <1>2, <1>7 DEF PumpPending, UsePending, Goto, Follows
  <2>2. PICK h \in held[d] : \E api : held'[d] = {[frame |-> h.frame, api |-> api]}
    BY <1>2, <1>7 DEF PumpPending, UsePending, Some
  <2>3. At(d)' = At(d) /\ Busy(d) /\ ~Ended(d)
    BY <1>2, <2>1 DEF At, Busy, Ended
  <2>4. h.frame = sent[d][At(d)]
    BY <1>1, <2>2, <2>3 DEF Flow
  <2> QED
    BY <1>3, <1>4, <2>1, <2>2, <2>3, <2>4
<1>8. CASE PumpRecorder(d)
  <2>1. /\ pump[d] = "recorder" /\ pump'[d] = "write" /\ held'[d] = held[d]
        /\ leaving'[d] = leaving[d] /\ arriving'[d] = arriving[d]
    BY <1>2, <1>8 DEF PumpRecorder, Goto, Follows
  <2>2. At(d)' = At(d) /\ Busy(d) /\ ~Ended(d)
    BY <1>2, <2>1 DEF At, Busy, Ended
  <2> QED
    BY <1>1, <1>3, <1>4, <2>1, <2>2 DEF Flow
<1>9. CASE PumpWrite(d)
  <2>1. /\ pump[d] = "write" /\ pump'[d] = "read" /\ arriving'[d] = arriving[d]
    BY <1>2, <1>9 DEF PumpWrite, Goto, Follows
  <2>2. PICK h \in held[d] : leaving'[d] = Append(leaving[d], h.frame)
    BY <1>2, <1>9 DEF PumpWrite
  <2>3. h.frame \in Frame
    BY <1>1, <2>2 DEF TypeOK
  <2>4. /\ Busy(d) /\ ~Busy(d)' /\ ~Ended(d)
        /\ At(d) = Len(got[d]) + Len(leaving[d]) + 1
    BY <2>1 DEF Busy, Ended, At
  <2>5. Behind(sent[d], At(d), arriving[d]) /\ h.frame = sent[d][At(d)]
    BY <1>1, <1>4, <2>2, <2>4 DEF Flow
  <2>6. Len(got[d]) + Len(leaving[d]) < Len(sent[d])
    <3>1. At(d) + Len(arriving[d]) = Len(sent[d]) /\ Len(arriving[d]) \in Nat
      BY <1>1, <2>5, SeqTypes DEF Behind
    <3>2. Len(got[d]) \in Nat /\ Len(leaving[d]) \in Nat /\ Len(sent[d]) \in Nat
      BY <1>1, SeqTypes
    <3> QED
      BY <2>4, <3>1, <3>2, Within
  <2>7. MovedTo(sent[d], got[d], leaving'[d]) /\ Len(leaving'[d]) = Len(leaving[d]) + 1
    <3>1. h.frame = sent[d][Len(got[d]) + Len(leaving[d]) + 1]
      BY <2>4, <2>5
    <3>2. sent[d] \in Seq(Frame) /\ got[d] \in Seq(Frame) /\ leaving[d] \in Seq(Frame)
      BY <1>1, SeqTypes
    <3> DEFINE s == sent[d]
               g == got[d]
               l == leaving[d]
               f == h.frame
    <3>3. /\ s \in Seq(Frame) /\ g \in Seq(Frame) /\ l \in Seq(Frame) /\ f \in Frame
          /\ MovedTo(s, g, l) /\ Len(g) + Len(l) < Len(s) /\ f = s[Len(g) + Len(l) + 1]
          /\ leaving'[d] = Append(l, f)
      BY <1>3, <2>2, <2>3, <2>6, <3>1, <3>2
    <3> HIDE DEF s, g, l, f
    <3>4. MovedTo(s, g, Append(l, f)) /\ Len(Append(l, f)) = Len(l) + 1
      BY <3>3, CarriedWrite
    <3> QED
      BY <3>3, <3>4 DEF s, g, l
  <2>8. At(d)' = At(d)
    <3>1. At(d)' = Len(got[d]) + (Len(leaving[d]) + 1) + 0
      <4>1. At(d)' = Len(got'[d]) + Len(leaving'[d]) + (IF Busy(d)' THEN 1 ELSE 0)
        BY DEF At
      <4> QED
        BY <4>1, <1>2, <2>4, <2>7
    <3>2. Len(got[d]) \in Nat /\ Len(leaving[d]) \in Nat
      BY <1>1, SeqTypes
    <3>3. At(d) = Len(got[d]) + Len(leaving[d]) + 1
      BY <2>4
    <3> QED
      BY <3>1, <3>2, <3>3, OneMoved
  <2> QED
    BY <2>1, <2>4, <2>5, <2>7, <2>8
<1>10. CASE PumpWriteLost(d)
  BY <1>10 DEF PumpWriteLost
<1> QED
  BY <1>5, <1>6, <1>7, <1>8, <1>9, <1>10 DEF PumpStep

\* Every step keeps the inductive invariant of the relay and is a step, or a
\* stutter, of both channels.
LEMMA NextFlow ==
  ASSUME FlowInv, [Next]_vars
  PROVE  /\ FlowInv'
         /\ [Requests!Next]_<<sent["req"], got["req"]>>
         /\ [Responses!Next]_<<sent["resp"], got["resp"]>>
<1>t. TypeOK /\ TypeOK' /\ Flow("req") /\ Flow("resp")
  BY NextType DEF FlowInv, Direction
<1>d. /\ DOMAIN sent = Direction /\ DOMAIN got = Direction /\ DOMAIN leaving = Direction
      /\ DOMAIN arriving = Direction /\ DOMAIN pump = Direction /\ DOMAIN held = Direction
      /\ "req" \in Direction /\ "resp" \in Direction
  BY <1>t DEF TypeOK, Direction
<1>i. Flow("req")' /\ Flow("resp")' => FlowInv'
  BY <1>t DEF FlowInv, Direction
<1>1. CASE ClientSend
  <2>1. PICK f \in Frame : SendFrame("req", f)
    BY <1>1 DEF ClientSend
  <2>2. sent'["req"] = Append(sent["req"], f) /\ sent'["resp"] = sent["resp"]
        /\ arriving'["resp"] = arriving["resp"] /\ UNCHANGED <<conn, leaving, pump, held, got>>
    BY <1>1, <2>1, <1>d DEF ClientSend, SendFrame
  <2>3. Flow("req")'
    BY <2>1, <2>2, <1>d, SendKeeps
  <2>4. Flow("resp")'
    BY <2>2, <1>t, <1>d, FlowKept
  <2> QED
    BY <2>2, <2>3, <2>4, <1>i DEF Requests!Next, Requests!Send
<1>2. CASE ClientRead
  <2>1. /\ UNCHANGED <<conn, sent, arriving, pump, held>> /\ leaving["resp"] # <<>>
        /\ conn[Dest["resp"]] = "open"
        /\ got' = [got EXCEPT !["resp"] = Append(@, Head(leaving["resp"]))]
        /\ leaving' = [leaving EXCEPT !["resp"] = Tail(@)]
    BY <1>2 DEF ClientRead, Dest
  <2>2. /\ Flow("resp")' /\ Len(got["resp"]) < Len(sent["resp"])
        /\ got'["resp"] = Append(got["resp"], sent["resp"][Len(got["resp"]) + 1])
    BY <2>1, <1>d, DeliverKeeps
  <2>3. got'["req"] = got["req"] /\ leaving'["req"] = leaving["req"]
    BY <2>1, <1>d
  <2>4. Flow("req")'
    BY <2>1, <2>3, <1>t, <1>d, FlowKept
  <2> QED
    BY <2>1, <2>2, <2>3, <2>4, <1>i DEF Responses!Next, Responses!Deliver
<1>3. CASE BrokerServe \/ BrokerGarble
  <2>1. /\ UNCHANGED <<conn, pump, held>> /\ leaving["req"] # <<>>
        /\ conn[Dest["req"]] = "open"
        /\ got' = [got EXCEPT !["req"] = Append(@, Head(leaving["req"]))]
        /\ leaving' = [leaving EXCEPT !["req"] = Tail(@)]
    BY <1>3 DEF BrokerServe, BrokerGarble, Dest
  <2>2. UNCHANGED <<arriving, sent>> \/ \E f \in Frame : SendFrame("resp", f)
    <3>1. Head(leaving["req"]) \in Frame
      BY <2>1, <1>t, <1>d, SeqTypes, HeadFacts
    <3> DEFINE f == Head(leaving["req"])
    <3>2. \A kind \in Kinds : [f EXCEPT !.kind = kind] \in Frame
      BY <3>1 DEF Frame
    <3>3. CASE BrokerServe
      BY <3>1, <3>3 DEF BrokerServe
    <3>4. CASE BrokerGarble
      BY <3>2, <3>4 DEF BrokerGarble
    <3> QED
      BY <3>3, <3>4, <1>3
  <2>3. sent'["req"] = sent["req"] /\ arriving'["req"] = arriving["req"]
    BY <2>2, <1>d DEF SendFrame
  <2>4. /\ Flow("req")' /\ Len(got["req"]) < Len(sent["req"])
        /\ got'["req"] = Append(got["req"], sent["req"][Len(got["req"]) + 1])
    BY <2>1, <2>3, <1>d, DeliverKeeps
  <2>5. got'["resp"] = got["resp"] /\ leaving'["resp"] = leaving["resp"]
    BY <2>1, <1>d
  <2>6. CASE UNCHANGED <<arriving, sent>>
    <3>1. Flow("resp")'
      BY <2>1, <2>5, <2>6, <1>t, <1>d, FlowKept
    <3> QED
      BY <2>4, <2>5, <2>6, <3>1, <1>i DEF Requests!Next, Requests!Deliver
  <2>7. ASSUME NEW f \in Frame, SendFrame("resp", f)
        PROVE  /\ FlowInv'
               /\ [Requests!Next]_<<sent["req"], got["req"]>>
               /\ [Responses!Next]_<<sent["resp"], got["resp"]>>
    <3>1. Flow("resp")'
      BY <2>1, <2>5, <2>7, <1>d, SendKeeps
    <3>2. sent'["resp"] = Append(sent["resp"], f)
      BY <2>7, <1>d DEF SendFrame
    <3> QED
      BY <2>3, <2>4, <2>5, <3>1, <3>2, <1>i
         DEF Requests!Next, Requests!Deliver, Responses!Next, Responses!Send
  <2> QED
    BY <2>2, <2>6, <2>7
<1>4. ASSUME NEW peer \in Peer, Close(peer)
      PROVE  FlowInv' /\ UNCHANGED <<sent, got>>
  <2>1. /\ UNCHANGED <<arriving, leaving, pump, held, sent, got>>
        /\ \A p \in Peer : conn'[p] = "open" => conn[p] = "open"
    BY <1>4, <1>t DEF Close, TypeOK
  <2>2. Dest["req"] \in Peer /\ Dest["resp"] \in Peer
    BY DEF Dest, Peer
  <2>3. Flow("req")' /\ Flow("resp")'
    BY <2>1, <2>2, <1>t, <1>d, FlowKept
  <2> QED
    BY <2>1, <2>3, <1>i
<1>5. ASSUME NEW d \in Direction, PumpStep(d)
      PROVE  FlowInv' /\ UNCHANGED <<sent, got>>
  <2>1. Flow(d)'
    BY <1>5, PumpKeeps
  <2>2. UNCHANGED <<conn, sent, got>>
    BY <1>5 DEF PumpStep, PumpRead, PumpEof, PumpBreak, PumpPending, UsePending, PumpRecorder, PumpWrite,
                PumpWriteLost
  <2>3. ASSUME NEW e \in Direction, e # d
        PROVE  /\ leaving'[e] = leaving[e] /\ arriving'[e] = arriving[e]
               /\ pump'[e] = pump[e] /\ held'[e] = held[e]
    <3>1. CASE PumpRead(d) \/ PumpEof(d) \/ PumpBreak(d)
      BY <2>3, <3>1, <1>d DEF PumpRead, PumpEof, PumpBreak, Goto
    <3>2. CASE PumpPending(d) \/ PumpRecorder(d)
      BY <2>3, <3>2, <1>d DEF PumpPending, UsePending, PumpRecorder, Goto
    <3>3. CASE PumpWrite(d) \/ PumpWriteLost(d)
      BY <2>3, <3>3, <1>d DEF PumpWrite, PumpWriteLost, Goto
    <3> QED
      BY <1>5, <3>1, <3>2, <3>3 DEF PumpStep
  <2>4. ASSUME NEW e \in Direction, e # d PROVE Flow(e)'
    BY <2>2, <2>3, <2>4, <1>t, FlowKept DEF FlowInv, Direction
  <2> QED
    BY <2>1, <2>2, <2>4, <1>i, <1>d
<1>6. CASE UNCHANGED vars
  BY <1>6, <1>t, <1>d, <1>i, FlowKept DEF vars
<1> QED
  BY <1>1, <1>2, <1>3, <1>4, <1>5, <1>6 DEF Next

\* Each direction of the tap is a FIFO channel of frames: nothing is altered,
\* reordered, repeated or left out on the way (lib.rs, "byte-for-byte").
THEOREM Relayed == Spec => FramesRelayed
<1>1. Init => FlowInv /\ Requests!Init /\ Responses!Init
  <2> SUFFICES ASSUME Init PROVE FlowInv /\ Requests!Init /\ Responses!Init
    OBVIOUS
  <2>1. TypeOK
    BY InitType
  <2>2. ASSUME NEW d \in Direction
        PROVE  sent[d] = <<>> /\ got[d] = <<>> /\ leaving[d] = <<>> /\ arriving[d] = <<>>
               /\ ~Busy(d)
    BY <2>2 DEF Init, Busy, Direction
  <2>3. ASSUME NEW d \in Direction PROVE Flow(d)
    <3>1. sent[d] = <<>> /\ got[d] = <<>> /\ leaving[d] = <<>> /\ arriving[d] = <<>>
      BY <2>2, <2>3
    <3>2. ~Busy(d)
      BY <2>2, <2>3
    <3>3. Len(got[d]) = 0 /\ Len(leaving[d]) = 0 /\ Len(sent[d]) = 0 /\ Len(arriving[d]) = 0
      BY <3>1
    <3>4. At(d) = 0
      BY <3>2, <3>3 DEF At
    <3>5. MovedTo(sent[d], got[d], leaving[d])
      BY <3>3 DEF MovedTo
    <3>6. Behind(sent[d], At(d), arriving[d])
      BY <3>3, <3>4 DEF Behind
    <3> QED
      BY <3>2, <3>5, <3>6 DEF Flow
  <2> QED
    BY <2>1, <2>2, <2>3 DEF FlowInv, Requests!Init, Responses!Init, Direction
<1>2. FlowInv /\ [Next]_vars =>
        /\ FlowInv'
        /\ [Requests!Next]_<<sent["req"], got["req"]>>
        /\ [Responses!Next]_<<sent["resp"], got["resp"]>>
  BY NextFlow
<1> QED
  BY <1>1, <1>2, PTL DEF Spec, FramesRelayed, Requests!Spec, Responses!Spec
-----------------------------------------------------------------------------
(* The recorder sees what comes through, under the api of its request *)

Req == sent["req"]

\* A request on its way to the broker is the one the client sent under its
\* number; a response has the id and the api of its request, which asked for
\* one, whatever the broker made of the rest of it.
Forwarded(f) == f.n \in DOMAIN Req /\ f = Req[f.n]
Answers(f) ==
  /\ f.n \in DOMAIN Req
  /\ Req[f.n].kind = "full" /\ Req[f.n].answered
  /\ f.corr = Req[f.n].corr /\ f.api = Req[f.n].api

Frames(s) == {s[i] : i \in DOMAIN s}
HeldFrames(d) == IF Busy(d) THEN {h.frame : h \in held[d]} ELSE {}

\* The places of a frame, from the last to the first: what the client has read,
\* the response direction, the request direction.
Place ==
  <<Frames(got["resp"]), Frames(leaving["resp"]), HeldFrames("resp"), Frames(arriving["resp"]),
    Frames(leaving["req"]), HeldFrames("req"), Frames(arriving["req"])>>

KnownFrames ==
  /\ \A i \in DOMAIN Req : Req[i].n = i
  /\ \A k \in 1..4 : \A f \in Place[k] : Answers(f)
  /\ \A k \in 5..7 : \A f \in Place[k] : Forwarded(f)

\* Frames do not overtake each other: numbers increase within a buffer, and
\* the later requests are at the earlier places.
Increasing(s) == \A i, j \in DOMAIN s : i < j => s[i].n < s[j].n
Chain(place) == \A k, l \in 1..7 : k < l => \A f \in place[k], g \in place[l] : f.n < g.n

FramesInOrder ==
  /\ \A d \in Direction : Increasing(arriving[d]) /\ Increasing(leaving[d])
  /\ Chain(Place)

\* An id is sent again only after the client has read an answer to the request
\* that had it.
ReusedWhenRead ==
  \A i, j \in DOMAIN Req :
    /\ i < j
    /\ Req[i].kind = "full" /\ Req[i].answered
    /\ Req[j].kind = "full" /\ Req[j].corr = Req[i].corr
    => \E f \in Place[1] : f.n = i

\* The frames whose entry in Pending is still to be taken.
Open ==
  {f \in (IF pump["req"] \in {"recorder", "write"} THEN Place[6] ELSE {})
           \cup Place[5] \cup Place[4]
           \cup (IF pump["resp"] = "pending" THEN Place[3] ELSE {}) :
     Req[f.n].kind = "full" /\ Req[f.n].answered}

\* Pending has their api under their id.
Entries == \A f \in Open : f.corr \in DOMAIN pending /\ pending[f.corr] = f.api

\* The recorder is called with the api of the request, by both pumps.
Classified ==
  /\ \A i \in DOMAIN spool : spool[i].n \in DOMAIN Req /\ spool[i].api = Req[spool[i].n].api
  /\ \A d \in Direction :
       pump[d] = "recorder" => \A h \in held[d] : h.api = {Req[h.frame.n].api}

\* What is behind the recorder is in the spool.
Spooled(n) == \E j \in DOMAIN spool : ~spool[j].isRequest /\ spool[j].n = n
ResponsesTeed ==
  /\ \A i \in FullIn(got["req"]) : Recorded(got["req"][i].n)
  /\ pump["resp"] = "write" => \A h \in FullHeld("resp") : Spooled(h.frame.n)
  /\ \A f \in Place[2] \cup Place[1] : f.kind = "full" => Spooled(f.n)

\* The inductive invariant of the two properties.
ClassInv ==
  /\ SpoolInv /\ KnownFrames /\ FramesInOrder
  /\ ReusedWhenRead /\ Entries /\ Classified /\ ResponsesTeed

\* A frame moves on from the front of its place, or is lost.
Shift(old, new, k, f, g) ==
  /\ f \in old[k] /\ g.n = f.n
  /\ \A e \in new[k] : e \in old[k] /\ f.n < e.n
  /\ new[k - 1] \subseteq old[k - 1] \cup {g}
  /\ \A l \in 1..7 \ {k - 1, k} : new[l] \subseteq old[l]

\* A moved frame stays between those before and those behind it.
LEMMA ShiftChain ==
  ASSUME NEW old, NEW new, NEW k \in 2..7, NEW f, NEW g, Shift(old, new, k, f, g), Chain(old),
         \A l \in 1..7 : \A e \in old[l] : e.n \in Nat
  PROVE  Chain(new)
<1> SUFFICES ASSUME NEW i \in 1..7, NEW j \in 1..7, i < j, NEW x \in new[i], NEW y \in new[j]
             PROVE  x.n < y.n
  BY DEF Chain
<1>1. \A l \in 1..7 : \A e \in new[l] : e \in old[l] \/ (l = k - 1 /\ e.n = f.n)
  BY DEF Shift
<1>2. \A e \in new[k] : f.n < e.n
  BY DEF Shift
<1>3. f \in old[k] /\ f.n \in Nat
  BY DEF Shift
<1>4. CASE x \in old[i] /\ y \in old[j]
  BY <1>4 DEF Chain
<1>5. CASE i = k - 1 /\ x.n = f.n /\ y \in old[j]
  <2>1. CASE j = k
    BY <1>5, <1>2, <2>1
  <2>2. CASE j > k
    BY <1>5, <1>3, <2>2 DEF Chain
  <2> QED
    BY <1>5, <2>1, <2>2
<1>6. CASE j = k - 1 /\ y.n = f.n /\ x \in old[i]
  BY <1>6, <1>3 DEF Chain
<1> QED
  BY <1>1, <1>4, <1>5, <1>6

\* Taking the first frame of a buffer.
LEMMA TailOrder ==
  ASSUME NEW s \in Seq(Frame), s # <<>>, Increasing(s)
  PROVE  /\ Increasing(Tail(s))
         /\ Head(s) \in Frames(s) /\ Head(s) \in Frame
         /\ \A f \in Frames(Tail(s)) : f \in Frames(s) /\ Head(s).n < f.n
<1>1. /\ Head(s) \in Frame /\ Head(s) = s[1] /\ Len(s) \in Nat /\ Len(s) >= 1
      /\ \A i \in 1..Len(s) - 1 : Tail(s)[i] = s[i + 1]
      /\ DOMAIN s = 1..Len(s) /\ DOMAIN Tail(s) = 1..Len(s) - 1
  BY HeadFacts
<1>2. ASSUME NEW i \in 1..Len(s) - 1, NEW j \in 1..Len(s) - 1, i < j
      PROVE  Tail(s)[i].n < Tail(s)[j].n
  <2>1. i + 1 \in DOMAIN s /\ j + 1 \in DOMAIN s /\ i + 1 < j + 1
    BY <1>1, <1>2
  <2> QED
    BY <1>1, <2>1 DEF Increasing
<1>3. ASSUME NEW i \in 1..Len(s) - 1
      PROVE  Tail(s)[i] \in Frames(s) /\ Head(s).n < Tail(s)[i].n
  <2>1. i + 1 \in DOMAIN s /\ 1 \in DOMAIN s /\ 1 < i + 1
    BY <1>1
  <2> QED
    BY <1>1, <2>1 DEF Increasing, Frames
<1> QED
  BY <1>1, <1>2, <1>3 DEF Increasing, Frames

\* Appending a frame with a higher number.
LEMMA AppendOrder ==
  ASSUME NEW s \in Seq(Frame), NEW f \in Frame, Increasing(s), \A g \in Frames(s) : g.n < f.n
  PROVE  Increasing(Append(s, f)) /\ Frames(Append(s, f)) = Frames(s) \cup {f}
<1>1. /\ Append(s, f)[Len(s) + 1] = f /\ \A i \in 1..Len(s) : Append(s, f)[i] = s[i]
      /\ DOMAIN s = 1..Len(s) /\ Len(s) \in Nat /\ DOMAIN Append(s, f) = 1..Len(s) + 1
  BY AppendFacts
<1>2. Frames(Append(s, f)) = Frames(s) \cup {f}
  BY <1>1 DEF Frames
<1>3. ASSUME NEW i \in 1..Len(s) + 1, NEW j \in 1..Len(s) + 1, i < j
      PROVE  Append(s, f)[i].n < Append(s, f)[j].n
  <2>1. i \in 1..Len(s) /\ Append(s, f)[i] = s[i] /\ s[i] \in Frames(s)
    BY <1>1, <1>3 DEF Frames
  <2>2. CASE j = Len(s) + 1
    BY <1>1, <2>1, <2>2
  <2>3. CASE j # Len(s) + 1
    BY <1>1, <1>3, <2>1, <2>3 DEF Increasing
  <2> QED
    BY <2>2, <2>3
<1> QED
  BY <1>1, <1>2, <1>3 DEF Increasing

\* The buffers and the pump of a direction, by their places.
Arrival(d) == IF d = "req" THEN 7 ELSE 4

\* Where the frames of one direction are, before and after a step.
LEMMA PlacesOf ==
  ASSUME NEW d \in Direction
  PROVE  /\ Arrival(d) \in {4, 7}
         /\ Place[Arrival(d)] = Frames(arriving[d])
         /\ Place[Arrival(d) - 1] = HeldFrames(d)
         /\ Place[Arrival(d) - 2] = Frames(leaving[d])
         /\ Place'[Arrival(d)] = Frames(arriving'[d])
         /\ Place'[Arrival(d) - 1] = HeldFrames(d)'
         /\ Place'[Arrival(d) - 2] = Frames(leaving'[d])
         /\ Place[1] = Frames(got["resp"]) /\ Place'[1] = Frames(got'["resp"])
BY DEF Place, Arrival, Direction, Frames

\* A step of one direction leaves the other places alone.
LEMMA PlacesElse ==
  ASSUME NEW d \in Direction, got'["resp"] = got["resp"],
         \A e \in Direction \ {d} :
           /\ arriving'[e] = arriving[e] /\ leaving'[e] = leaving[e]
           /\ held'[e] = held[e] /\ pump'[e] = pump[e]
  PROVE  \A l \in 1..7 \ {Arrival(d) - 2, Arrival(d) - 1, Arrival(d)} : Place'[l] = Place[l]
<1>1. \A e \in Direction \ {d} : HeldFrames(e)' = HeldFrames(e)
  BY DEF HeldFrames, Busy
<1>2. CASE d = "req"
  <2>1. "resp" \in Direction \ {d}
    BY <1>2 DEF Direction
  <2>2. Place'[1] = Place[1] /\ Place'[2] = Place[2] /\ Place'[3] = Place[3] /\ Place'[4] = Place[4]
    BY <1>1, <2>1 DEF Place, Frames
  <2>3. \A l \in 1..7 \ {Arrival(d) - 2, Arrival(d) - 1, Arrival(d)} : l \in {1, 2, 3, 4}
    BY <1>2 DEF Arrival
  <2> QED
    BY <2>2, <2>3
<1>3. CASE d = "resp"
  <2>1. "req" \in Direction \ {d}
    BY <1>3 DEF Direction
  <2>2. Place'[1] = Place[1] /\ Place'[5] = Place[5] /\ Place'[6] = Place[6] /\ Place'[7] = Place[7]
    BY <1>1, <2>1 DEF Place, Frames
  <2>3. \A l \in 1..7 \ {Arrival(d) - 2, Arrival(d) - 1, Arrival(d)} : l \in {1, 5, 6, 7}
    BY <1>3 DEF Arrival
  <2> QED
    BY <2>2, <2>3
<1> QED
  BY <1>2, <1>3 DEF Direction

\* What a step does to the places when no request is sent.
Advance ==
  \/ \A l \in 1..7 : Place'[l] \subseteq Place[l]
  \/ \E k \in 2..7, f, g \in Frame :
       /\ Shift(Place, Place', k, f, g)
       /\ IF k = 5 THEN Answers(g) ELSE g = f

\* Frames that only move on stay known and in order.
LEMMA AdvanceKeeps ==
  ASSUME TypeOK, KnownFrames, Chain(Place), sent'["req"] = sent["req"], Advance
  PROVE  KnownFrames' /\ Chain(Place)'
<1>1. \A l \in 1..7 : \A e \in Place[l] : e.n \in Nat
  <2>1. DOMAIN Req \subseteq Nat
    BY DEF Req, TypeOK, Direction
  <2>2. \A l \in 1..7 : \A e \in Place[l] : e.n \in DOMAIN Req
    BY DEF KnownFrames, Answers, Forwarded
  <2> QED
    BY <2>1, <2>2
<1>2. \A f : Answers(f)' = Answers(f) /\ Forwarded(f)' = Forwarded(f)
  BY DEF Answers, Forwarded, Req
<1>3. \A i \in DOMAIN Req' : Req'[i].n = i
  BY DEF KnownFrames, Req
<1>4. CASE \A l \in 1..7 : Place'[l] \subseteq Place[l]
  <2>1. Chain(Place')
    BY <1>4 DEF Chain
  <2> QED
    BY <1>2, <1>3, <1>4, <2>1 DEF KnownFrames, Chain
<1>5. CASE \E k \in 2..7, f, g \in Frame :
             Shift(Place, Place', k, f, g) /\ IF k = 5 THEN Answers(g) ELSE g = f
  <2>1. PICK k \in 2..7, f \in Frame, g \in Frame :
          Shift(Place, Place', k, f, g) /\ IF k = 5 THEN Answers(g) ELSE g = f
    BY <1>5
  <2>2. Chain(Place')
    BY <1>1, <2>1, ShiftChain
  <2>3. \A l \in 1..7 : \A e \in Place'[l] : e \in Place[l] \/ (l = k - 1 /\ e = g)
    BY <2>1 DEF Shift
  <2>4. f \in Place[k] /\ (k \in 1..4 => Answers(f)) /\ (k \in 5..7 => Forwarded(f))
    BY <2>1 DEF Shift, KnownFrames
  <2>5. \A l \in 1..4 : \A e \in Place'[l] : Answers(e)'
    BY <1>2, <2>1, <2>3, <2>4 DEF KnownFrames
  <2>6. \A l \in 5..7 : \A e \in Place'[l] : Forwarded(e)'
    BY <1>2, <2>1, <2>3, <2>4 DEF KnownFrames
  <2> QED
    BY <1>3, <2>2, <2>5, <2>6 DEF KnownFrames, Chain
<1> QED
  BY <1>4, <1>5 DEF Advance

\* The buffers stay in order and what the client has read stays read.
Orderly == \A d \in Direction : Increasing(arriving[d]) /\ Increasing(leaving[d])

\* A pump that reads takes the first frame out of its buffer.
LEMMA ReadAdvances ==
  ASSUME TypeOK, FramesInOrder, NEW d \in Direction, PumpRead(d)
  PROVE  /\ Advance /\ Orderly' /\ Place'[1] = Place[1]
         /\ \A l \in 1..7 \ {Arrival(d) - 1} : Place'[l] \subseteq Place[l]
         /\ Place'[Arrival(d) - 1] \subseteq Place[Arrival(d)]
<1> DEFINE f == Head(arriving[d])
           k == Arrival(d)
<1>1. /\ arriving[d] \in Seq(Frame) /\ arriving[d] # <<>> /\ Increasing(arriving[d])
      /\ arriving'[d] = Tail(arriving[d]) /\ UNCHANGED <<leaving, got>>
      /\ \A e \in Direction \ {d} :
           arriving'[e] = arriving[e] /\ held'[e] = held[e] /\ pump'[e] = pump[e]
      /\ HeldFrames(d) = {} /\ HeldFrames(d)' \subseteq {f}
  BY DEF PumpRead, TypeOK, FramesInOrder, Goto, Follows, HeldFrames, Busy, None, Some
<1>2. /\ Increasing(Tail(arriving[d])) /\ f \in Frames(arriving[d]) /\ f \in Frame
      /\ \A e \in Frames(Tail(arriving[d])) : e \in Frames(arriving[d]) /\ f.n < e.n
  BY <1>1, TailOrder
<1>3. /\ k \in {4, 7} /\ Place[k] = Frames(arriving[d]) /\ Place[k - 1] = HeldFrames(d)
      /\ Place[k - 2] = Frames(leaving[d])
      /\ Place'[k] = Frames(arriving'[d]) /\ Place'[k - 1] = HeldFrames(d)'
      /\ Place'[k - 2] = Frames(leaving'[d])
      /\ Place[1] = Frames(got["resp"]) /\ Place'[1] = Frames(got'["resp"])
  BY PlacesOf
<1>4. \A l \in 1..7 \ {k - 2, k - 1, k} : Place'[l] = Place[l]
  BY <1>1, PlacesElse
<1> HIDE DEF k, f
<1>5. Shift(Place, Place', k, f, f)
  <2>1. \A l \in 1..7 \ {k - 1, k} : Place'[l] \subseteq Place[l]
    BY <1>1, <1>3, <1>4
  <2> QED
    BY <1>1, <1>2, <1>3, <2>1 DEF Shift
<1>6. Advance
  BY <1>2, <1>3, <1>5 DEF Advance
<1>7. Orderly'
  BY <1>1, <1>2 DEF FramesInOrder, Orderly
<1>8. \A l \in 1..7 \ {k - 1} : Place'[l] \subseteq Place[l]
  BY <1>1, <1>2, <1>3, <1>4
<1>9. Place'[k - 1] \subseteq Place[k]
  BY <1>1, <1>2, <1>3
<1> QED
  BY <1>1, <1>3, <1>6, <1>7, <1>8, <1>9 DEF k

\* A pump that writes hands its frame to the end of the next buffer.
LEMMA WriteAdvances ==
  ASSUME TypeOK, FramesInOrder, NEW d \in Direction, PumpWrite(d)
  PROVE  /\ Advance /\ Orderly' /\ Place'[1] = Place[1]
         /\ \A l \in 1..7 \ {Arrival(d) - 2} : Place'[l] \subseteq Place[l]
         /\ Place'[Arrival(d) - 2] \subseteq Place[Arrival(d) - 2] \cup Place[Arrival(d) - 1]
<1> DEFINE k == Arrival(d)
<1>1. PICK h \in held[d] : leaving' = [leaving EXCEPT ![d] = Append(@, h.frame)]
  BY DEF PumpWrite
<1> DEFINE f == h.frame
<1>2. /\ leaving[d] \in Seq(Frame) /\ Increasing(leaving[d]) /\ f \in Frame
      /\ leaving'[d] = Append(leaving[d], f) /\ UNCHANGED <<arriving, held, got>>
      /\ \A e \in Direction \ {d} : leaving'[e] = leaving[e] /\ pump'[e] = pump[e]
      /\ f \in HeldFrames(d) /\ HeldFrames(d)' = {}
  BY <1>1 DEF PumpWrite, TypeOK, FramesInOrder, Goto, Follows, HeldFrames, Busy
<1>3. /\ k \in {4, 7} /\ Place[k] = Frames(arriving[d]) /\ Place[k - 1] = HeldFrames(d)
      /\ Place[k - 2] = Frames(leaving[d])
      /\ Place'[k] = Frames(arriving'[d]) /\ Place'[k - 1] = HeldFrames(d)'
      /\ Place'[k - 2] = Frames(leaving'[d])
      /\ Place[1] = Frames(got["resp"]) /\ Place'[1] = Frames(got'["resp"])
  BY PlacesOf
<1>4. \A l \in 1..7 \ {k - 2, k - 1, k} : Place'[l] = Place[l]
  BY <1>2, PlacesElse
<1> HIDE DEF k, f
<1>5. \A g \in Frames(leaving[d]) : g.n < f.n
  BY <1>2, <1>3 DEF FramesInOrder, Chain
<1>6. Increasing(leaving'[d]) /\ Frames(leaving'[d]) = Frames(leaving[d]) \cup {f}
  BY <1>2, <1>5, AppendOrder
<1>7. Shift(Place, Place', k - 1, f, f)
  <2>1. \A l \in 1..7 \ {k - 2, k - 1} : Place'[l] \subseteq Place[l]
    BY <1>2, <1>3, <1>4
  <2>2. k - 1 - 1 = k - 2
    BY <1>3
  <2> QED
    BY <1>2, <1>3, <1>6, <2>1, <2>2 DEF Shift
<1>8. Advance
  BY <1>2, <1>3, <1>7 DEF Advance
<1>9. Orderly'
  BY <1>2, <1>6 DEF FramesInOrder, Orderly
<1>10. \A l \in 1..7 \ {k - 2} : Place'[l] \subseteq Place[l]
  BY <1>2, <1>3, <1>4
<1>11. Place'[k - 2] \subseteq Place[k - 2] \cup Place[k - 1]
  BY <1>2, <1>3, <1>6
<1> QED
  BY <1>2, <1>3, <1>8, <1>9, <1>10, <1>11 DEF k

\* The other steps of a pump, and a peer that closes, move no frame.
LEMMA QuietAdvances ==
  ASSUME FramesInOrder, NEW d \in Direction, UNCHANGED <<arriving, leaving, got>>,
         \A e \in Direction \ {d} : held'[e] = held[e] /\ pump'[e] = pump[e],
         HeldFrames(d)' \subseteq HeldFrames(d)
  PROVE  Advance /\ Orderly' /\ Place'[1] = Place[1] /\ \A l \in 1..7 : Place'[l] \subseteq Place[l]
<1> DEFINE k == Arrival(d)
<1>1. /\ k \in {4, 7} /\ Place[k] = Frames(arriving[d]) /\ Place[k - 1] = HeldFrames(d)
      /\ Place[k - 2] = Frames(leaving[d])
      /\ Place'[k] = Frames(arriving'[d]) /\ Place'[k - 1] = HeldFrames(d)'
      /\ Place'[k - 2] = Frames(leaving'[d])
      /\ Place[1] = Frames(got["resp"]) /\ Place'[1] = Frames(got'["resp"])
  BY PlacesOf
<1>2. \A l \in 1..7 \ {k - 2, k - 1, k} : Place'[l] = Place[l]
  BY PlacesElse
<1> HIDE DEF k
<1>3. \A l \in 1..7 : Place'[l] \subseteq Place[l]
  BY <1>1, <1>2
<1> QED
  BY <1>1, <1>3 DEF Advance, FramesInOrder, Orderly

\* The client reads the first response.
LEMMA ClientReadAdvances ==
  ASSUME TypeOK, FramesInOrder, ClientRead
  PROVE  /\ Advance /\ Orderly' /\ Place[1] \subseteq Place'[1]
         /\ Place'[1] \subseteq Place[1] \cup Place[2]
         /\ \A l \in 2..7 : Place'[l] \subseteq Place[l]
<1> DEFINE f == Head(leaving["resp"])
<1>1. /\ leaving["resp"] \in Seq(Frame) /\ leaving["resp"] # <<>> /\ Increasing(leaving["resp"])
      /\ leaving'["resp"] = Tail(leaving["resp"]) /\ leaving'["req"] = leaving["req"]
      /\ got["resp"] \in Seq(Frame) /\ got'["resp"] = Append(got["resp"], f)
      /\ UNCHANGED <<arriving, held, pump>>
  BY DEF ClientRead, TypeOK, FramesInOrder, Direction
<1>2. /\ Increasing(Tail(leaving["resp"])) /\ f \in Frames(leaving["resp"]) /\ f \in Frame
      /\ \A e \in Frames(Tail(leaving["resp"])) : e \in Frames(leaving["resp"]) /\ f.n < e.n
  BY <1>1, TailOrder
<1> HIDE DEF f
<1>3. Frames(got'["resp"]) = Frames(got["resp"]) \cup {f}
  BY <1>1, <1>2, AppendFacts DEF Frames
<1>4. \A d \in Direction : HeldFrames(d)' = HeldFrames(d)
  BY <1>1 DEF HeldFrames, Busy
<1>5. /\ Place[1] = Frames(got["resp"]) /\ Place'[1] = Frames(got'["resp"])
      /\ Place[2] = Frames(leaving["resp"]) /\ Place'[2] = Frames(leaving'["resp"])
      /\ \A l \in {3, 4, 5, 6, 7} : Place'[l] = Place[l]
  BY <1>1, <1>4 DEF Place, Direction, Frames
<1>6. Shift(Place, Place', 2, f, f)
  <2>1. \A l \in 1..7 \ {1, 2} : Place'[l] = Place[l]
    BY <1>5
  <2> QED
    BY <1>1, <1>2, <1>3, <1>5, <2>1 DEF Shift
<1>7. Orderly'
  BY <1>1, <1>2 DEF FramesInOrder, Orderly, Direction
<1>8. \A l \in 2..7 : Place'[l] \subseteq Place[l]
  BY <1>1, <1>2, <1>5
<1> QED
  BY <1>2, <1>3, <1>5, <1>6, <1>7, <1>8 DEF Advance

\* What the broker makes of the first request behind the pump: an answer to it,
\* if it asked for one, or nothing.
LEMMA BrokerActs ==
  ASSUME TypeOK, KnownFrames, BrokerServe \/ BrokerGarble
  PROVE  /\ leaving["req"] # <<>> /\ leaving'["req"] = Tail(leaving["req"])
         /\ leaving'["resp"] = leaving["resp"] /\ arriving'["req"] = arriving["req"]
         /\ got' = [got EXCEPT !["req"] = Append(@, Head(leaving["req"]))]
         /\ sent'["req"] = sent["req"] /\ UNCHANGED <<conn, pump, held, pending, spool>>
         /\ \/ arriving'["resp"] = arriving["resp"]
            \/ \E g \in Frame :
                 /\ arriving'["resp"] = Append(arriving["resp"], g)
                 /\ g.n = Head(leaving["req"]).n /\ Answers(g)
<1> DEFINE f == Head(leaving["req"])
<1>1. leaving["req"] \in Seq(Frame) /\ leaving["req"] # <<>>
  BY DEF BrokerServe, BrokerGarble, TypeOK, Direction
<1>2. f \in Frame /\ f \in Frames(leaving["req"])
  BY <1>1, HeadFacts DEF Frames
<1>3. Forwarded(f)
  <2>1. Place[5] = Frames(leaving["req"])
    BY DEF Place
  <2> HIDE DEF f
  <2> QED
    BY <1>2, <2>1 DEF KnownFrames
<1>4. ASSUME f.kind = "full", f.answered, NEW kind \in Kinds
      PROVE  LET g == [f EXCEPT !.kind = kind] IN g \in Frame /\ g.n = f.n /\ Answers(g)
  <2> DEFINE g == [f EXCEPT !.kind = kind]
  <2>1. g \in Frame /\ g.n = f.n /\ g.corr = f.corr /\ g.api = f.api
    BY <1>2 DEF Frame
  <2> HIDE DEF f
  <2>2. Answers(g)
    <3> HIDE DEF g
    <3> QED
      BY <1>3, <1>4, <2>1 DEF Answers, Forwarded
  <2> QED
    BY <2>1, <2>2
<1>5. CASE BrokerServe
  <2>1. f.kind = "full" /\ f.answered => SendFrame("resp", f)
    BY <1>5 DEF BrokerServe
  <2>2. ~(f.kind = "full" /\ f.answered) => UNCHANGED <<arriving, sent>>
    BY <1>5 DEF BrokerServe
  <2>3. f.kind = "full" /\ f.answered => Answers(f)
    <3> HIDE DEF f
    <3> QED
      BY <1>3 DEF Answers, Forwarded
  <2> QED
    BY <1>2, <1>5, <2>1, <2>2, <2>3 DEF BrokerServe, SendFrame, TypeOK, Direction
<1>6. CASE BrokerGarble
  <2>1. PICK kind \in Kinds \ {"full"} : SendFrame("resp", [f EXCEPT !.kind = kind])
    BY <1>6 DEF BrokerGarble
  <2>2. f.kind = "full" /\ f.answered
    BY <1>6 DEF BrokerGarble
  <2> DEFINE g == [f EXCEPT !.kind = kind]
  <2>3. g \in Frame /\ g.n = f.n /\ Answers(g)
    BY <1>4, <2>2
  <2>4. arriving'["resp"] = Append(arriving["resp"], g)
    BY <2>1 DEF SendFrame, TypeOK, Direction
  <2>5. arriving'["req"] = arriving["req"] /\ sent'["req"] = sent["req"]
    BY <2>1 DEF SendFrame, TypeOK, Direction
  <2> HIDE DEF g
  <2> QED
    BY <1>6, <2>3, <2>4, <2>5 DEF BrokerGarble, TypeOK, Direction
<1> QED
  BY <1>5, <1>6

\* The broker takes the first request and answers it, or does not.
LEMMA BrokerAdvances ==
  ASSUME TypeOK, KnownFrames, FramesInOrder, BrokerServe \/ BrokerGarble
  PROVE  /\ Advance /\ Orderly' /\ Place'[1] = Place[1]
         /\ \A l \in 1..7 \ {4} : Place'[l] \subseteq Place[l]
         /\ \A e \in Place'[4] : e \in Place[4] \/ (Answers(e) /\ \E f \in Place[5] : f.n = e.n)
<1> DEFINE f == Head(leaving["req"])
<1>1. /\ leaving["req"] # <<>> /\ leaving'["req"] = Tail(leaving["req"])
      /\ leaving'["resp"] = leaving["resp"] /\ arriving'["req"] = arriving["req"]
      /\ got'["resp"] = got["resp"] /\ UNCHANGED <<pump, held>>
      /\ \/ arriving'["resp"] = arriving["resp"]
         \/ \E g \in Frame : arriving'["resp"] = Append(arriving["resp"], g) /\ g.n = f.n /\ Answers(g)
  BY BrokerActs DEF TypeOK, Direction
<1>2. /\ leaving["req"] \in Seq(Frame) /\ Increasing(leaving["req"])
      /\ arriving["resp"] \in Seq(Frame) /\ Increasing(arriving["resp"])
  BY DEF TypeOK, FramesInOrder, Direction
<1>3. /\ Increasing(Tail(leaving["req"])) /\ f \in Frames(leaving["req"]) /\ f \in Frame
      /\ \A e \in Frames(Tail(leaving["req"])) : e \in Frames(leaving["req"]) /\ f.n < e.n
  BY <1>1, <1>2, TailOrder
<1> HIDE DEF f
<1>4. \A d \in Direction : HeldFrames(d)' = HeldFrames(d)
  BY <1>1 DEF HeldFrames, Busy
<1>5. /\ Place[4] = Frames(arriving["resp"]) /\ Place'[4] = Frames(arriving'["resp"])
      /\ Place[5] = Frames(leaving["req"]) /\ Place'[5] = Frames(leaving'["req"])
      /\ \A l \in {1, 2, 3, 6, 7} : Place'[l] = Place[l]
  BY <1>1, <1>4 DEF Place, Direction, Frames
<1>6. CASE arriving'["resp"] = arriving["resp"]
  <2>1. \A l \in 1..7 : Place'[l] \subseteq Place[l]
    BY <1>1, <1>3, <1>5, <1>6
  <2>2. Orderly'
    BY <1>1, <1>3, <1>6 DEF FramesInOrder, Orderly, Direction
  <2> QED
    BY <1>5, <2>1, <2>2 DEF Advance
<1>7. ASSUME NEW g \in Frame, arriving'["resp"] = Append(arriving["resp"], g), g.n = f.n, Answers(g)
      PROVE  /\ Advance /\ Orderly'
             /\ \A e \in Place'[4] : e \in Place[4] \/ (Answers(e) /\ \E x \in Place[5] : x.n = e.n)
  <2>1. \A e \in Frames(arriving["resp"]) : e.n < g.n
    BY <1>3, <1>5, <1>7 DEF FramesInOrder, Chain
  <2>2. Increasing(arriving'["resp"]) /\ Frames(arriving'["resp"]) = Frames(arriving["resp"]) \cup {g}
    BY <1>2, <1>7, <2>1, AppendOrder
  <2>3. \A l \in 1..7 \ {5 - 1, 5} : Place'[l] \subseteq Place[l]
    BY <1>5
  <2>4. Shift(Place, Place', 5, f, g)
    BY <1>1, <1>3, <1>5, <1>7, <2>2, <2>3 DEF Shift
  <2>5. Orderly'
    BY <1>1, <1>3, <2>2 DEF FramesInOrder, Orderly, Direction
  <2>6. \A e \in Place'[4] : e \in Place[4] \/ (Answers(e) /\ \E x \in Place[5] : x.n = e.n)
    BY <1>3, <1>5, <1>7, <2>2
  <2> QED
    BY <1>3, <1>7, <2>4, <2>5, <2>6 DEF Advance
<1>8. \A l \in 1..7 \ {4} : Place'[l] \subseteq Place[l]
  BY <1>1, <1>3, <1>5
<1> QED
  BY <1>1, <1>5, <1>6, <1>7, <1>8

\* A request gets the next number, and an id nobody awaits.
LEMMA ClientSends ==
  ASSUME TypeOK, ClientSend
  PROVE  \E f \in Frame :
           /\ f.n = Len(Req) + 1
           /\ sent'["req"] = Append(sent["req"], f)
           /\ arriving'["req"] = Append(arriving["req"], f)
           /\ f.kind = "full" => Awaited(f.corr) = {}
           /\ arriving'["resp"] = arriving["resp"]
           /\ UNCHANGED <<conn, leaving, pump, held, pending, spool, got>>
<1>1. PICK f \in Frame :
        /\ f.n = Len(sent["req"]) + 1
        /\ IF f.kind = "full" THEN Awaited(f.corr) = {} ELSE f \in Unreadable
        /\ SendFrame("req", f)
  BY DEF ClientSend
<1>2. sent'["req"] = Append(sent["req"], f) /\ arriving'["req"] = Append(arriving["req"], f)
  BY <1>1 DEF SendFrame, TypeOK, Direction
<1>3. arriving'["resp"] = arriving["resp"]
  BY <1>1 DEF SendFrame, TypeOK, Direction
<1> QED
  BY <1>1, <1>2, <1>3 DEF ClientSend, Req

\* A request that is sent comes after all others, and its correlation id
\* is not one that the client still waits for.
LEMMA SendInOrder ==
  ASSUME TypeOK, KnownFrames, FramesInOrder, ReusedWhenRead, ClientSend
  PROVE  /\ KnownFrames' /\ FramesInOrder' /\ ReusedWhenRead'
         /\ \A l \in 1..6 : Place'[l] = Place[l]
         /\ DOMAIN Req \subseteq DOMAIN Req' /\ \A i \in DOMAIN Req : Req'[i] = Req[i]
<1>1. PICK f \in Frame :
        /\ f.n = Len(Req) + 1
        /\ sent'["req"] = Append(sent["req"], f)
        /\ arriving'["req"] = Append(arriving["req"], f)
        /\ f.kind = "full" => Awaited(f.corr) = {}
        /\ arriving'["resp"] = arriving["resp"]
        /\ UNCHANGED <<conn, leaving, pump, held, pending, spool, got>>
  BY ClientSends
<1>2. /\ sent["req"] \in Seq(Frame) /\ arriving["req"] \in Seq(Frame) /\ Increasing(arriving["req"])
      /\ got["resp"] \in Seq(Frame)
  BY DEF TypeOK, FramesInOrder, Direction
<1>3. /\ Len(Req) \in Nat /\ DOMAIN Req = 1..Len(Req) /\ DOMAIN Req' = 1..Len(Req) + 1
      /\ Req'[Len(Req) + 1] = f /\ \A i \in 1..Len(Req) : Req'[i] = Req[i]
  BY <1>1, <1>2, AppendFacts DEF Req
<1>4. \A d \in Direction : HeldFrames(d)' = HeldFrames(d)
  BY <1>1 DEF HeldFrames, Busy
<1>5. /\ Place[7] = Frames(arriving["req"]) /\ Place'[7] = Frames(arriving'["req"])
      /\ \A l \in {1, 2, 3, 4, 5, 6} : Place'[l] = Place[l]
  BY <1>1, <1>4 DEF Place, Direction, Frames
<1>6. \A l \in 1..7 : \A e \in Place[l] : e.n \in 1..Len(Req)
  BY <1>3 DEF KnownFrames, Answers, Forwarded
<1>7. \A e \in Frames(arriving["req"]) : e.n < f.n
  BY <1>1, <1>3, <1>5, <1>6
<1>8. Increasing(arriving'["req"]) /\ Frames(arriving'["req"]) = Frames(arriving["req"]) \cup {f}
  BY <1>1, <1>2, <1>7, AppendOrder
<1>9. FramesInOrder'
  <2>1. Chain(Place')
    <3> SUFFICES ASSUME NEW i \in 1..7, NEW j \in 1..7, i < j, NEW x \in Place'[i], NEW y \in Place'[j]
                 PROVE  x.n < y.n
      BY DEF Chain
    <3>1. x \in Place[i]
      BY <1>5
    <3>2. y \in Place[j] \/ y = f
      BY <1>5, <1>8
    <3> QED
      BY <1>1, <1>3, <1>6, <3>1, <3>2 DEF FramesInOrder, Chain
  <2>2. Orderly'
    BY <1>1, <1>8 DEF FramesInOrder, Orderly, Direction
  <2> QED
    BY <2>1, <2>2 DEF FramesInOrder, Orderly, Chain
<1>10. KnownFrames'
  <2>1. \A i \in DOMAIN Req' : Req'[i].n = i
    BY <1>1, <1>3 DEF KnownFrames
  <2>2. \A e : e.n \in 1..Len(Req) => (Answers(e) => Answers(e)') /\ (Forwarded(e) => Forwarded(e)')
    BY <1>3 DEF Answers, Forwarded
  <2>3. Forwarded(f)'
    BY <1>1, <1>3 DEF Forwarded
  <2>4. \A k \in 1..4 : \A e \in Place'[k] : Answers(e)'
    BY <1>5, <1>6, <2>2 DEF KnownFrames
  <2>5. \A k \in 5..7 : \A e \in Place'[k] : Forwarded(e)'
    BY <1>5, <1>6, <1>8, <2>2, <2>3 DEF KnownFrames
  <2> QED
    BY <2>1, <2>4, <2>5 DEF KnownFrames
<1>11. ReusedWhenRead'
  <2> SUFFICES ASSUME NEW i \in DOMAIN Req', NEW j \in DOMAIN Req', i < j,
                      Req'[i].kind = "full", Req'[i].answered,
                      Req'[j].kind = "full", Req'[j].corr = Req'[i].corr
               PROVE  \E e \in Place'[1] : e.n = i
    BY DEF ReusedWhenRead
  <2>1. i \in 1..Len(Req) /\ Req'[i] = Req[i] /\ Req[i].n = i
    BY <1>3 DEF KnownFrames
  <2>2. CASE j \in 1..Len(Req)
    BY <1>3, <1>5, <2>1, <2>2 DEF ReusedWhenRead
  <2>3. CASE j = Len(Req) + 1
    <3>1. i \notin Awaited(f.corr)
      BY <1>1, <1>3, <2>3
    <3>2. PICK k \in DOMAIN got["resp"] : got["resp"][k].n = i
      BY <1>3, <2>1, <2>3, <3>1 DEF Awaited, Req
    <3>3. Place[1] = Frames(got["resp"])
      BY DEF Place
    <3> QED
      BY <1>5, <3>2, <3>3 DEF Frames
  <2> QED
    BY <1>3, <2>2, <2>3
<1> QED
  BY <1>3, <1>5, <1>9, <1>10, <1>11

\* Every step keeps the frames known and in order.
LEMMA NextInOrder ==
  ASSUME SpoolInv, KnownFrames, FramesInOrder, ReusedWhenRead, [Next]_vars
  PROVE  KnownFrames' /\ FramesInOrder' /\ ReusedWhenRead'
<1>t. TypeOK
  BY DEF SpoolInv
<1>1. CASE ClientSend
  BY <1>1, <1>t, SendInOrder
<1>2. ASSUME Advance, Orderly', Place[1] \subseteq Place'[1], sent'["req"] = sent["req"]
      PROVE  KnownFrames' /\ FramesInOrder' /\ ReusedWhenRead'
  <2>1. KnownFrames' /\ Chain(Place)'
    BY <1>2, <1>t, AdvanceKeeps DEF FramesInOrder
  <2>2. ReusedWhenRead'
    BY <1>2 DEF ReusedWhenRead, Req
  <2> QED
    BY <1>2, <2>1, <2>2 DEF FramesInOrder, Orderly
<1>3. CASE ClientRead
  BY <1>2, <1>3, <1>t, ClientReadAdvances DEF ClientRead
<1>4. CASE BrokerServe \/ BrokerGarble
  BY <1>2, <1>4, <1>t, BrokerAdvances, BrokerActs
<1>5. CASE (\E peer \in Peer : Close(peer)) \/ UNCHANGED vars
  <2>1. UNCHANGED <<arriving, leaving, pump, held, sent, got>>
    BY <1>5 DEF Close, vars
  <2>2. HeldFrames("req")' = HeldFrames("req")
    BY <2>1 DEF HeldFrames, Busy
  <2> QED
    BY <1>2, <2>1, <2>2, QuietAdvances DEF Direction
<1>6. ASSUME NEW d \in Direction, PumpStep(d)
      PROVE  KnownFrames' /\ FramesInOrder' /\ ReusedWhenRead'
  <2>1. UNCHANGED sent
    BY <1>6 DEF PumpStep, PumpRead, PumpEof, PumpBreak, PumpPending, UsePending, PumpRecorder, PumpWrite,
                PumpWriteLost
  <2>2. CASE PumpRead(d)
    BY <1>2, <1>t, <2>1, <2>2, ReadAdvances
  <2>3. CASE PumpWrite(d)
    BY <1>2, <1>t, <2>1, <2>3, WriteAdvances
  <2>4. CASE PumpEof(d) \/ PumpBreak(d) \/ PumpPending(d) \/ PumpRecorder(d) \/ PumpWriteLost(d)
    <3>1. /\ UNCHANGED <<arriving, leaving, got>>
          /\ \A e \in Direction \ {d} : held'[e] = held[e] /\ pump'[e] = pump[e]
      BY <1>t, <2>4
      DEF TypeOK, PumpEof, PumpBreak, PumpPending, UsePending, PumpRecorder, PumpWriteLost, Goto
    <3>2. HeldFrames(d)' \subseteq HeldFrames(d)
      <4>1. CASE PumpPending(d)
        <5>1. PICK h \in held[d] : \E api :
                held' = [held EXCEPT ![d] = {[frame |-> h.frame, api |-> api]}]
          BY <4>1 DEF PumpPending, UsePending, Some
        <5>2. \E api : held'[d] = {[frame |-> h.frame, api |-> api]}
          BY <1>t, <5>1 DEF TypeOK
        <5>3. \A x \in held'[d] : x.frame = h.frame
          BY <5>2
        <5> QED
          BY <4>1, <5>1, <5>3 DEF HeldFrames, Busy, PumpPending, UsePending
      <4>2. CASE ~PumpPending(d)
        <5>1. UNCHANGED held /\ (Busy(d)' => Busy(d))
          BY <1>t, <2>4, <4>2
          DEF TypeOK, Busy, Follows, PumpEof, PumpBreak, PumpRecorder, PumpWriteLost, Goto
        <5> QED
          BY <5>1 DEF HeldFrames
      <4> QED
        BY <4>1, <4>2
    <3> QED
      BY <1>2, <2>1, <3>1, <3>2, QuietAdvances
  <2> QED
    BY <1>6, <2>2, <2>3, <2>4 DEF PumpStep
<1> QED
  BY <1>1, <1>3, <1>4, <1>5, <1>6 DEF Next

\* Two requests under way that have the same id, the first of which asked for
\* an answer: there are none.
LEMMA IdsApart ==
  ASSUME TypeOK, KnownFrames, FramesInOrder, ReusedWhenRead,
         NEW k \in 2..7, NEW l \in 2..7, k < l, NEW e \in Place[k], NEW g \in Place[l],
         Req[e.n].kind = "full", Req[e.n].answered, Req[g.n].kind = "full"
  PROVE  e.corr # g.corr
<1>1. /\ e.n \in DOMAIN Req /\ e.corr = Req[e.n].corr
      /\ g.n \in DOMAIN Req /\ g.corr = Req[g.n].corr
  BY DEF KnownFrames, Answers, Forwarded
<1>2. e.n < g.n
  BY DEF FramesInOrder, Chain
<1>3. \A f \in Place[1] : f.n < e.n
  BY DEF FramesInOrder, Chain
<1>4. e.n \in Nat
  BY <1>1 DEF Req, TypeOK, Direction
<1> QED
  BY <1>1, <1>2, <1>3, <1>4 DEF ReusedWhenRead

\* The requests whose entry in `pending` is still needed, spelled out.
LEMMA OpenMembers ==
  /\ \A e : e \in Open <=>
       /\ Req[e.n].kind = "full" /\ Req[e.n].answered
       /\ \/ e \in Place[5] \/ e \in Place[4]
          \/ pump["req"] \in {"recorder", "write"} /\ e \in Place[6]
          \/ pump["resp"] = "pending" /\ e \in Place[3]
  /\ \A e : e \in Open' <=>
       /\ Req'[e.n].kind = "full" /\ Req'[e.n].answered
       /\ \/ e \in Place'[5] \/ e \in Place'[4]
          \/ pump'["req"] \in {"recorder", "write"} /\ e \in Place'[6]
          \/ pump'["resp"] = "pending" /\ e \in Place'[3]
BY DEF Open

\* A step that leaves Pending and the spool alone and gives the recorder
\* nothing new.
LEMMA RecorderIdle ==
  ASSUME ClassInv, [Next]_vars, UNCHANGED <<pending, spool>>,
         sent'["req"] = sent["req"],
         \A e \in Open' : \E f \in Open : e.corr = f.corr /\ e.api = f.api,
         \A d \in Direction : pump'[d] = "recorder" => pump[d] = "recorder" /\ held'[d] = held[d],
         pump'["resp"] = "write" => pump["resp"] = "write" /\ held'["resp"] = held["resp"],
         \A i \in FullIn(got["req"])' : Recorded(got["req"][i].n)',
         \A f \in Place'[2] \cup Place'[1] : f.kind = "full" => Spooled(f.n)
  PROVE  Entries' /\ Classified' /\ ResponsesTeed'
<1>1. Entries'
  BY DEF ClassInv, Entries
<1>2. Classified'
  BY DEF ClassInv, Classified, Req
<1>3. \A n : Spooled(n)' = Spooled(n)
  BY DEF Spooled
<1>4. ResponsesTeed'
  BY <1>3 DEF ClassInv, ResponsesTeed, FullHeld
<1> QED
  BY <1>1, <1>2, <1>4

\* The steps of the peers do not touch `pending` or the spool.
LEMMA PeersKeepClass ==
  ASSUME ClassInv, [Next]_vars,
         ClientRead \/ BrokerServe \/ BrokerGarble \/ (\E peer \in Peer : Close(peer)) \/ UNCHANGED vars
  PROVE  Entries' /\ Classified' /\ ResponsesTeed'
<1>t. TypeOK /\ KnownFrames /\ FramesInOrder
  BY DEF ClassInv, SpoolInv
<1>r. \A n : Recorded(n) => Recorded(n)'
  BY <1>t, RecordedStable
<1>1. UNCHANGED <<pump, held, pending, spool>>
  BY DEF ClientRead, BrokerServe, BrokerGarble, Close, vars
<1>2. CASE ClientRead
  <2>1. /\ Place'[1] \subseteq Place[1] \cup Place[2]
        /\ \A l \in 2..7 : Place'[l] \subseteq Place[l]
    BY <1>2, <1>t, ClientReadAdvances
  <2>2. UNCHANGED sent /\ got'["req"] = got["req"]
    BY <1>2, <1>t DEF ClientRead, TypeOK, Direction
  <2>3. \A e \in Open' : e \in Open
    BY <1>1, <2>1, <2>2, OpenMembers DEF Req
  <2>4. \A f \in Place'[2] \cup Place'[1] : f.kind = "full" => Spooled(f.n)
    BY <2>1 DEF ClassInv, ResponsesTeed
  <2>5. \A i \in FullIn(got["req"])' : Recorded(got["req"][i].n)'
    BY <1>r, <2>2 DEF ClassInv, ResponsesTeed, FullIn
  <2> QED
    BY <1>1, <2>2, <2>3, <2>4, <2>5, RecorderIdle
<1>3. CASE BrokerServe \/ BrokerGarble
  <2>1. /\ \A l \in 1..7 \ {4} : Place'[l] \subseteq Place[l]
        /\ \A e \in Place'[4] : e \in Place[4] \/ (Answers(e) /\ \E f \in Place[5] : f.n = e.n)
    BY <1>3, <1>t, BrokerAdvances
  <2>2. /\ sent'["req"] = sent["req"] /\ leaving["req"] # <<>>
        /\ got'["req"] = Append(got["req"], Head(leaving["req"]))
    BY <1>3, <1>t, BrokerActs DEF TypeOK, Direction
  <2>3. ASSUME NEW e \in Open'
        PROVE  \E f \in Open : e.corr = f.corr /\ e.api = f.api
    <3>1. CASE e \in Place'[4] /\ e \notin Place[4]
      <4>1. PICK f \in Place[5] : f.n = e.n
        BY <2>1, <3>1
      <4>2. Answers(e) /\ Forwarded(f)
        BY <1>t, <2>1, <3>1 DEF KnownFrames
      <4>3. f \in Open
        BY <4>1, <4>2, OpenMembers DEF Answers
      <4> QED
        BY <4>1, <4>2, <4>3 DEF Answers, Forwarded
    <3>2. CASE ~(e \in Place'[4] /\ e \notin Place[4])
      BY <1>1, <2>1, <2>2, <3>2, OpenMembers DEF Req
    <3> QED
      BY <3>1, <3>2
  <2>4. \A f \in Place'[2] \cup Place'[1] : f.kind = "full" => Spooled(f.n)
    BY <2>1 DEF ClassInv, ResponsesTeed
  <2>5. \A i \in FullIn(got["req"])' : Recorded(got["req"][i].n)'
    <3>1. got["req"] \in Seq(Frame) /\ leaving["req"] \in Seq(Frame)
      BY <1>t DEF TypeOK, Direction
    <3> DEFINE f == Head(leaving["req"])
    <3>2. f \in Frame /\ (f.kind = "full" => Recorded(f.n))
      BY <2>2, <3>1, HeadFacts DEF ClassInv, SpoolInv, Teed, FullIn
    <3> HIDE DEF f
    <3>3. got'["req"] = Append(got["req"], f)
      BY <2>2 DEF f
    <3> QED
      BY <1>r, <3>1, <3>2, <3>3, AppendFacts DEF ClassInv, ResponsesTeed, FullIn
  <2> QED
    BY <1>1, <2>2, <2>3, <2>4, <2>5, RecorderIdle
<1>4. CASE (\E peer \in Peer : Close(peer)) \/ UNCHANGED vars
  <2>1. UNCHANGED <<arriving, leaving, sent, got>>
    BY <1>4 DEF Close, vars
  <2>2. Place' = Place
    BY <1>1, <2>1 DEF Place, HeldFrames, Busy, Frames
  <2>3. \A e \in Open' : e \in Open
    BY <1>1, <2>1, <2>2, OpenMembers DEF Req
  <2>4. \A i \in FullIn(got["req"])' : Recorded(got["req"][i].n)'
    BY <1>r, <2>1 DEF ClassInv, ResponsesTeed, FullIn
  <2> QED
    BY <1>1, <2>1, <2>2, <2>3, <2>4, RecorderIdle DEF ClassInv, ResponsesTeed
<1> QED
  BY <1>2, <1>3, <1>4

\* A new request opens no entry before a pump has read it.
LEMMA SendKeepsClass ==
  ASSUME ClassInv, [Next]_vars, ClientSend
  PROVE  Entries' /\ Classified' /\ ResponsesTeed'
<1>t. TypeOK /\ KnownFrames /\ FramesInOrder /\ ReusedWhenRead
  BY DEF ClassInv, SpoolInv
<1>1. UNCHANGED <<pump, held, pending, spool, got>>
  BY DEF ClientSend
<1>2. /\ \A l \in 1..6 : Place'[l] = Place[l]
      /\ DOMAIN Req \subseteq DOMAIN Req' /\ \A i \in DOMAIN Req : Req'[i] = Req[i]
  BY <1>t, SendInOrder
<1>3. \A l \in 1..7 : \A e \in Place[l] : e.n \in DOMAIN Req
  BY <1>t DEF KnownFrames, Answers, Forwarded
<1>4. Entries'
  <2>1. \A e \in Open' : e \in Open
    BY <1>1, <1>2, <1>3, OpenMembers
  <2> QED
    BY <1>1, <2>1 DEF ClassInv, Entries
<1>5. Classified'
  <2>1. ASSUME NEW d \in Direction, pump'[d] = "recorder", NEW h \in held'[d]
        PROVE  h.api = {Req'[h.frame.n].api}
    <3>1. h.frame \in HeldFrames(d)
      BY <1>1, <2>1 DEF HeldFrames, Busy
    <3>2. h.frame.n \in DOMAIN Req
      BY <1>3, <3>1, PlacesOf
    <3> QED
      BY <1>1, <1>2, <2>1, <3>2 DEF ClassInv, Classified
  <2>2. \A i \in DOMAIN spool' : spool'[i].n \in DOMAIN Req' /\ spool'[i].api = Req'[spool'[i].n].api
    BY <1>1, <1>2 DEF ClassInv, Classified
  <2> QED
    BY <2>1, <2>2 DEF Classified
<1>6. ResponsesTeed'
  BY <1>1, <1>2 DEF ClassInv, ResponsesTeed, FullIn, FullHeld, Recorded, Spooled
<1> QED
  BY <1>4, <1>5, <1>6

\* The steps of a pump around the recorder: none writes `pending`, and a
\* frame that leaves the pump has been recorded.
LEMMA PumpKeepsClass ==
  ASSUME ClassInv, [Next]_vars, NEW d \in Direction,
         PumpRead(d) \/ PumpEof(d) \/ PumpBreak(d) \/ PumpWrite(d) \/ PumpWriteLost(d)
  PROVE  Entries' /\ Classified' /\ ResponsesTeed'
<1>t. TypeOK /\ KnownFrames /\ FramesInOrder /\ Arrival(d) \in {4, 7}
  BY PlacesOf DEF ClassInv, SpoolInv
<1>r. \A n : Recorded(n) => Recorded(n)'
  BY <1>t, RecordedStable
<1>1. /\ UNCHANGED <<pending, spool, sent, got>>
      /\ \A e \in Direction : pump'[e] = pump[e] \/ (e = d /\ pump'[e] \in {"read", "pending", "ok", "err"})
      /\ \A e \in Direction : held'[e] = held[e] \/ (e = d /\ pump'[e] \notin {"recorder", "write"})
  BY <1>t DEF PumpRead, PumpEof, PumpBreak, PumpWrite, PumpWriteLost, TypeOK, Goto, Follows
<1>2. \A i \in FullIn(got["req"])' : Recorded(got["req"][i].n)'
  BY <1>1, <1>r DEF ClassInv, ResponsesTeed, FullIn
<1>3. ASSUME \A e \in Open' : e \in Open,
             \A f \in Place'[2] : f.kind = "full" => Spooled(f.n), Place'[1] = Place[1]
      PROVE  Entries' /\ Classified' /\ ResponsesTeed'
  BY <1>1, <1>2, <1>3, RecorderIdle DEF ClassInv, ResponsesTeed, Direction
<1>4. CASE PumpRead(d)
  <2>1. /\ Place'[1] = Place[1]
        /\ \A l \in 1..7 \ {Arrival(d) - 1} : Place'[l] \subseteq Place[l]
        /\ Place'[Arrival(d) - 1] \subseteq Place[Arrival(d)]
    BY <1>4, <1>t, ReadAdvances
  <2>2. pump'[d] \notin {"recorder", "write"}
    BY <1>4, <1>t DEF PumpRead, TypeOK, Goto, Follows
  <2>3. \A e \in Open' : e \in Open
    <3>1. CASE d = "req"
      <4>1. \A l \in {3, 4, 5} : Place'[l] \subseteq Place[l]
        BY <2>1, <3>1 DEF Arrival
      <4>2. pump'["resp"] = pump["resp"]
        BY <1>1, <3>1 DEF Direction
      <4> QED
        BY <1>1, <2>2, <3>1, <4>1, <4>2, OpenMembers DEF Req
    <3>2. CASE d = "resp"
      <4>1. (\A l \in {4, 5, 6} : Place'[l] \subseteq Place[l]) /\ Place'[3] \subseteq Place[4]
        BY <2>1, <3>2 DEF Arrival
      <4>2. pump'["req"] = pump["req"]
        BY <1>1, <3>2 DEF Direction
      <4> QED
        BY <1>1, <4>1, <4>2, OpenMembers DEF Req
    <3> QED
      BY <3>1, <3>2 DEF Direction
  <2>4. Place'[2] \subseteq Place[2]
    BY <1>t, <2>1
  <2> QED
    BY <1>3, <2>1, <2>3, <2>4 DEF ClassInv, ResponsesTeed
<1>5. CASE PumpWrite(d)
  <2>1. /\ Place'[1] = Place[1]
        /\ \A l \in 1..7 \ {Arrival(d) - 2} : Place'[l] \subseteq Place[l]
        /\ Place'[Arrival(d) - 2] \subseteq Place[Arrival(d) - 2] \cup Place[Arrival(d) - 1]
    BY <1>5, <1>t, WriteAdvances
  <2>2. pump[d] = "write" /\ pump'[d] = "read"
    BY <1>5, <1>t DEF PumpWrite, TypeOK, Goto, Follows
  <2>3. CASE d = "req"
    <3>1. (\A l \in {2, 3, 4} : Place'[l] \subseteq Place[l]) /\ Place'[5] \subseteq Place[5] \cup Place[6]
      BY <2>1, <2>3 DEF Arrival
    <3>2. pump'["resp"] = pump["resp"]
      BY <1>1, <2>3 DEF Direction
    <3>3. \A e \in Open' : e \in Open
      BY <1>1, <2>2, <2>3, <3>1, <3>2, OpenMembers DEF Req
    <3> QED
      BY <1>3, <2>1, <3>1, <3>3 DEF ClassInv, ResponsesTeed
  <2>4. CASE d = "resp"
    <3>1. (\A l \in {4, 5, 6} : Place'[l] \subseteq Place[l]) /\ Place'[2] \subseteq Place[2] \cup Place[3]
      BY <2>1, <2>4 DEF Arrival
    <3>2. pump'["req"] = pump["req"]
      BY <1>1, <2>4 DEF Direction
    <3>3. \A e \in Open' : e \in Open
      BY <1>1, <2>2, <2>4, <3>1, <3>2, OpenMembers DEF Req
    <3>4. \A f \in Place[3] : f.kind = "full" => Spooled(f.n)
      <4>1. \A f \in HeldFrames("resp") : f.kind = "full" => Spooled(f.n)
        BY <2>2, <2>4 DEF ClassInv, ResponsesTeed, HeldFrames, FullHeld
      <4>2. Place[3] = HeldFrames("resp")
        BY DEF Place
      <4> QED
        BY <4>1, <4>2
    <3> QED
      BY <1>3, <2>1, <3>1, <3>3, <3>4 DEF ClassInv, ResponsesTeed
  <2> QED
    BY <2>3, <2>4 DEF Direction
<1>6. CASE PumpEof(d) \/ PumpBreak(d) \/ PumpWriteLost(d)
  <2>1. /\ UNCHANGED <<arriving, leaving, held>> /\ pump'[d] \in {"read", "ok", "err"}
        /\ \A e \in Direction \ {d} : pump'[e] = pump[e]
    BY <1>6, <1>t DEF PumpEof, PumpBreak, PumpWriteLost, TypeOK, Goto, Follows
  <2>2. HeldFrames(d)' \subseteq HeldFrames(d)
    BY <2>1 DEF HeldFrames, Busy
  <2>3. Place'[1] = Place[1] /\ \A l \in 1..7 : Place'[l] \subseteq Place[l]
    BY <1>1, <1>t, <2>1, <2>2, QuietAdvances
  <2>4. \A e \in Open' : e \in Open
    BY <1>1, <2>1, <2>3, OpenMembers DEF Req, Direction
  <2> QED
    BY <1>3, <2>3, <2>4 DEF ClassInv, ResponsesTeed
<1> QED
  BY <1>4, <1>5, <1>6

\* The lock on Pending: the entry a request leaves is its own, and a response
\* finds the one of its request.
LEMMA PendingKeepsClass ==
  ASSUME ClassInv, [Next]_vars, NEW d \in Direction, PumpPending(d)
  PROVE  Entries' /\ Classified' /\ ResponsesTeed'
<1>t. TypeOK /\ KnownFrames /\ FramesInOrder /\ ReusedWhenRead
  BY DEF ClassInv, SpoolInv
<1>r. \A n : Recorded(n) => Recorded(n)'
  BY <1>t, RecordedStable
<1>1. PICK h \in held[d] :
        LET f == h.frame
            full == f.kind = "full"
            api == IF ~full THEN None ELSE IF d = "req" THEN Some(f.api) ELSE Take(pending, f)
        IN  /\ pending' = IF ~full THEN pending
                          ELSE IF d = "req" THEN Record(pending, f) ELSE Drop(pending, {f.corr})
            /\ held' = [held EXCEPT ![d] = Some([frame |-> f, api |-> api])]
            /\ Goto(d, IF api = None THEN Follows["recorder"] ELSE Follows["pending"])
  BY DEF PumpPending, UsePending
<1> DEFINE f == h.frame
           api == IF f.kind # "full" THEN None
                  ELSE IF d = "req" THEN Some(f.api) ELSE Take(pending, f)
<1>2. /\ pump[d] = "pending" /\ pump'[d] = (IF api = None THEN "write" ELSE "recorder")
      /\ \A e \in Direction \ {d} : pump'[e] = pump[e] /\ held'[e] = held[e]
      /\ UNCHANGED <<arriving, leaving, spool, sent, got>>
  BY <1>1, <1>t DEF PumpPending, UsePending, TypeOK, Goto, Follows
<1>3. held'[d] = {[frame |-> f, api |-> api]}
  BY <1>1, <1>t DEF TypeOK, Some
<1>4. f \in Frame /\ HeldFrames(d) = {f} /\ HeldFrames(d)' = {f}
  <2>1. \A x \in held[d] : x = h
    BY DEF ClassInv, SpoolInv, Teed
  <2>2. h \in [frame : Frame, api : SUBSET Api]
    BY <1>t DEF TypeOK
  <2>3. \A x \in held'[d] : x.frame = f
    BY <1>3
  <2>4. Busy(d) /\ Busy(d)'
    BY <1>2 DEF Busy
  <2> QED
    BY <1>3, <2>1, <2>2, <2>3, <2>4 DEF HeldFrames
<1>5. pending' = IF f.kind # "full" THEN pending
                 ELSE IF d = "req" THEN Put(pending, f.corr, f.api) ELSE Drop(pending, {f.corr})
  BY <1>1 DEF Record
<1> HIDE DEF f, api
<1>6. \A l \in 1..7 : Place'[l] \subseteq Place[l]
  BY <1>2, <1>4, <1>t, QuietAdvances
<1>7. Place[1] = Place'[1]
  BY <1>2, PlacesOf
<1>8. CASE d = "req"
  <2>1. /\ Place[6] = {f} /\ Forwarded(f) /\ api = (IF f.kind = "full" THEN {f.api} ELSE {})
        /\ pump'["resp"] = pump["resp"] /\ held'["resp"] = held["resp"]
    <3>1. Place[6] = {f}
      BY <1>4, <1>8 DEF Place
    <3>2. Forwarded(f)
      BY <1>t, <3>1 DEF KnownFrames
    <3> QED
      BY <1>2, <1>8, <3>1, <3>2 DEF api, None, Some, Direction
  <2>2. ASSUME NEW e \in Open', e # f
        PROVE  e \in Open /\ (f.kind = "full" => e.corr # f.corr)
    <3>1. e \in Open /\ e \notin Place[6]
      BY <1>2, <1>6, <2>1, <2>2, OpenMembers DEF Req
    <3>2. \E l \in {3, 4, 5} : e \in Place[l]
      BY <3>1, OpenMembers
    <3>3. Req[e.n].kind = "full" /\ Req[e.n].answered
      BY <3>1, OpenMembers
    <3>4. f.kind = "full" => Req[f.n].kind = "full"
      BY <2>1 DEF Forwarded
    <3> QED
      BY <1>t, <2>1, <3>1, <3>2, <3>3, <3>4, IdsApart
  <2>3. Entries'
    <3>1. CASE f.kind # "full"
      <4>1. f \notin Open'
        BY <1>2, <2>1, <3>1, OpenMembers DEF Forwarded, Req
      <4> QED
        BY <1>5, <2>2, <3>1, <4>1 DEF ClassInv, Entries
    <3>2. CASE f.kind = "full"
      <4>1. pending' = Put(pending, f.corr, f.api)
        BY <1>5, <1>8, <3>2
      <4>2. \A e \in Open' : e = f \/ (e.corr \in DOMAIN pending /\ pending[e.corr] = e.api /\ e.corr # f.corr)
        BY <2>2, <3>2 DEF ClassInv, Entries
      <4> QED
        BY <4>1, <4>2 DEF Entries, Put
    <3> QED
      BY <3>1, <3>2
  <2>4. Classified'
    <3>1. \A x \in held'["req"] : x.frame = f /\ x.api = api
      BY <1>3, <1>8
    <3>2. pump'["req"] = "recorder" => f.kind = "full" /\ api = {Req[f.n].api}
      BY <1>2, <1>8, <2>1 DEF None, Forwarded
    <3> QED
      BY <1>2, <2>1, <3>1, <3>2 DEF ClassInv, Classified, Req, Direction
  <2>5. ResponsesTeed'
    BY <1>2, <1>6, <1>7, <1>r, <2>1 DEF ClassInv, ResponsesTeed, FullHeld, FullIn, Spooled
  <2> QED
    BY <2>3, <2>4, <2>5
<1>9. CASE d = "resp"
  <2>1. /\ Place[3] = {f} /\ Answers(f)
        /\ pump'["req"] = pump["req"] /\ held'["req"] = held["req"]
    <3>1. Place[3] = {f}
      BY <1>4, <1>9 DEF Place
    <3>2. Answers(f)
      BY <1>t, <3>1 DEF KnownFrames
    <3> QED
      BY <1>2, <1>9, <3>1, <3>2 DEF Direction
  <2>2. f \in Open
    BY <1>2, <1>9, <2>1, OpenMembers DEF Answers
  <2>3. f.kind = "full" => api = {f.api}
    <3>1. f.corr \in DOMAIN pending /\ pending[f.corr] = f.api
      BY <2>2 DEF ClassInv, Entries
    <3> QED
      BY <1>9, <3>1 DEF api, Take
  <2>4. ASSUME NEW e \in Open'
        PROVE  e \in Open /\ e.corr # f.corr
    <3>1. e \in Open /\ \E l \in {4, 5, 6} : e \in Place[l]
      BY <1>2, <1>6, <1>9, <2>1, OpenMembers DEF Req
    <3>2. Req[e.n].kind = "full"
      BY <3>1, OpenMembers
    <3>3. Req[f.n].kind = "full" /\ Req[f.n].answered
      BY <2>1 DEF Answers
    <3> QED
      BY <1>t, <2>1, <3>1, <3>2, <3>3, IdsApart
  <2>5. Entries'
    <3>1. \A e \in Open' : e.corr \in DOMAIN pending /\ pending[e.corr] = e.api /\ e.corr # f.corr
      BY <2>4 DEF ClassInv, Entries
    <3>2. pending' = pending \/ pending' = Drop(pending, {f.corr})
      BY <1>5, <1>9
    <3> QED
      BY <3>1, <3>2 DEF Entries, Drop
  <2>6. \A x \in held'["resp"] : x.frame = f /\ x.api = api
    BY <1>3, <1>9
  <2>7. Classified'
    <3>1. pump'["resp"] = "recorder" => f.kind = "full"
      BY <1>2, <1>9 DEF api, None
    <3>2. f.api = Req[f.n].api
      BY <2>1 DEF Answers
    <3> QED
      BY <1>2, <2>1, <2>3, <2>6, <3>1, <3>2 DEF ClassInv, Classified, Req, Direction
  <2>8. ResponsesTeed'
    <3>1. pump'["resp"] = "write" => f.kind # "full"
      BY <1>2, <1>9, <2>3 DEF None
    <3>2. pump'["resp"] = "write" => FullHeld("resp")' = {}
      BY <2>6, <3>1 DEF FullHeld
    <3> QED
      BY <1>2, <1>6, <1>7, <1>r, <3>2 DEF ClassInv, ResponsesTeed, FullIn, Spooled
  <2> QED
    BY <2>5, <2>7, <2>8
<1> QED
  BY <1>8, <1>9 DEF Direction

\* The recorder appends the frame the pump holds, with the api the pump found.
LEMMA RecorderKeepsClass ==
  ASSUME ClassInv, [Next]_vars, NEW d \in Direction, PumpRecorder(d)
  PROVE  Entries' /\ Classified' /\ ResponsesTeed'
<1>t. TypeOK /\ KnownFrames /\ FramesInOrder /\ spool \in Seq(Captured)
  BY DEF ClassInv, SpoolInv, TypeOK
<1>r. /\ \A n : Recorded(n) => Recorded(n)'
      /\ \A j \in DOMAIN spool : j \in DOMAIN spool' /\ spool'[j] = spool[j]
  BY <1>t, RecordedStable, SpoolGrows
<1>0. PICK h \in held[d] : \E api \in h.api :
        spool' = Append(spool, [isRequest |-> d = "req", api |-> api, n |-> h.frame.n])
  BY DEF PumpRecorder
<1>1. PICK api \in h.api :
        spool' = Append(spool, [isRequest |-> d = "req", api |-> api, n |-> h.frame.n])
  BY <1>0
<1> DEFINE entry == [isRequest |-> d = "req", api |-> api, n |-> h.frame.n]
<1>2. /\ pump[d] = "recorder" /\ pump'[d] = "write"
      /\ \A e \in Direction \ {d} : pump'[e] = pump[e]
      /\ UNCHANGED <<arriving, leaving, held, pending, sent, got>>
  BY <1>t DEF PumpRecorder, TypeOK, Goto, Follows
<1>3. /\ h \in [frame : Frame, api : SUBSET Api] /\ entry \in Captured
      /\ entry.isRequest = (d = "req") /\ entry.api = api /\ entry.n = h.frame.n
  <2>1. h \in [frame : Frame, api : SUBSET Api]
    BY <1>t DEF TypeOK
  <2> QED
    BY <1>1, <2>1 DEF Captured, Frame
<1>4. h.frame.n \in DOMAIN Req /\ api = Req[h.frame.n].api
  <2>1. h.frame \in HeldFrames(d)
    BY <1>2 DEF HeldFrames, Busy
  <2>2. h.frame.n \in DOMAIN Req
    <3>1. \A l \in 1..7 : \A e \in Place[l] : e.n \in DOMAIN Req
      BY <1>t DEF KnownFrames, Answers, Forwarded
    <3> QED
      BY <2>1, <3>1, PlacesOf
  <2> QED
    BY <1>1, <1>2, <2>2 DEF ClassInv, Classified
<1>5. spool' = Append(spool, entry)
  BY <1>1
<1> HIDE DEF entry
<1>6. /\ Len(spool) \in Nat /\ DOMAIN spool = 1..Len(spool) /\ DOMAIN spool' = 1..Len(spool) + 1
      /\ spool'[Len(spool) + 1] = entry /\ \A i \in 1..Len(spool) : spool'[i] = spool[i]
  BY <1>3, <1>5, <1>t, AppendFacts
<1>7. HeldFrames(d)' = HeldFrames(d)
  BY <1>2 DEF HeldFrames, Busy
<1>8. Place'[1] = Place[1] /\ \A l \in 1..7 : Place'[l] \subseteq Place[l]
  BY <1>2, <1>7, <1>t, QuietAdvances
<1>9. Entries'
  <2>1. \A e \in Open' : e \in Open
    BY <1>2, <1>8, OpenMembers DEF Req, Direction
  <2> QED
    BY <1>2, <2>1 DEF ClassInv, Entries
<1>10. Classified'
  <2>1. \A i \in DOMAIN spool' : spool'[i].n \in DOMAIN Req /\ spool'[i].api = Req[spool'[i].n].api
    BY <1>3, <1>4, <1>6 DEF ClassInv, Classified
  <2> QED
    BY <1>2, <2>1 DEF ClassInv, Classified, Req
<1>11. ResponsesTeed'
  <2>1. \A n : Spooled(n) => Spooled(n)'
    BY <1>r DEF Spooled
  <2>2. d = "resp" => \A x \in FullHeld("resp")' : Spooled(x.frame.n)'
    <3>1. d = "resp" => Spooled(h.frame.n)'
      <4>1. d = "resp" => (d = "req") = FALSE
        OBVIOUS
      <4>2. d = "resp" => ~entry.isRequest
        BY <1>3, <4>1, Zenon
      <4>3. Len(spool) + 1 \in DOMAIN spool'
        BY <1>6
      <4> QED
        BY <1>3, <1>6, <4>2, <4>3, Zenon DEF Spooled
    <3>2. \A x \in held'[d] : x = h
      BY <1>2 DEF ClassInv, SpoolInv, Teed
    <3> QED
      BY <3>1, <3>2 DEF FullHeld
  <2>3. d # "resp" /\ pump'["resp"] = "write" => \A x \in FullHeld("resp")' : Spooled(x.frame.n)'
    BY <1>2, <2>1 DEF ClassInv, ResponsesTeed, FullHeld, Direction
  <2>4. \A i \in FullIn(got["req"])' : Recorded(got["req"][i].n)'
    BY <1>2, <1>r DEF ClassInv, ResponsesTeed, FullIn
  <2>5. \A f \in Place'[2] \cup Place'[1] : f.kind = "full" => Spooled(f.n)'
    BY <1>8, <2>1 DEF ClassInv, ResponsesTeed
  <2> QED
    BY <2>2, <2>3, <2>4, <2>5 DEF ResponsesTeed
<1> QED
  BY <1>9, <1>10, <1>11

\* Every step keeps ClassInv.
LEMMA NextClass == ClassInv /\ [Next]_vars => ClassInv'
<1> SUFFICES ASSUME ClassInv, [Next]_vars PROVE ClassInv'
  OBVIOUS
<1>1. SpoolInv'
  BY NextSpool DEF ClassInv
<1>2. KnownFrames' /\ FramesInOrder' /\ ReusedWhenRead'
  BY NextInOrder DEF ClassInv
<1>3. Entries' /\ Classified' /\ ResponsesTeed'
  BY SendKeepsClass, PeersKeepClass, PumpKeepsClass, PendingKeepsClass, RecorderKeepsClass
  DEF Next, PumpStep
<1> QED
  BY <1>1, <1>2, <1>3 DEF ClassInv

\* Nothing is under way at first.
LEMMA InitClass == Init => ClassInv
<1> SUFFICES ASSUME Init PROVE ClassInv
  OBVIOUS
<1>1. SpoolInv
  BY InitType DEF Init, SpoolInv, Teed, RequestBeforeResponse, FullHeld, FullIn, Busy, None, Direction
<1>2. \A d \in Direction : /\ arriving[d] = <<>> /\ leaving[d] = <<>> /\ sent[d] = <<>> /\ got[d] = <<>>
                           /\ held[d] = {} /\ pump[d] = "read"
  BY DEF Init, None
<1>3. /\ \A d \in Direction : HeldFrames(d) = {} /\ Frames(arriving[d]) = {} /\ Frames(leaving[d]) = {}
      /\ Frames(got["resp"]) = {}
  BY <1>2 DEF HeldFrames, Frames, Direction
<1>4. \A l \in 1..7 : Place[l] = {}
  BY <1>3 DEF Place, Direction
<1>5. Req = <<>> /\ spool = <<>>
  BY <1>2 DEF Req, Init, Direction
<1>6. KnownFrames /\ ReusedWhenRead
  BY <1>4, <1>5 DEF KnownFrames, ReusedWhenRead
<1>7. FramesInOrder
  BY <1>2, <1>4 DEF FramesInOrder, Chain, Increasing
<1>8. Entries
  BY <1>4, OpenMembers DEF Entries
<1>9. Classified /\ ResponsesTeed
  BY <1>2, <1>4, <1>5 DEF Classified, ResponsesTeed, FullIn, Direction
<1> QED
  BY <1>1, <1>6, <1>7, <1>8, <1>9 DEF ClassInv

\* What every reachable state of the tap has.
LEMMA ClassInvariant == Spec => []ClassInv
BY InitClass, NextClass, PTL DEF Spec

\* However the two threads take turns at Pending, a response is recorded with
\* the api of the request it answers (Pending::record, Pending::take): an entry
\* is overwritten or taken only when no answer to its request is under way.
THEOREM ResponsesClassified == Spec => []ResponseClassified
<1>1. ClassInv => ResponseClassified
  BY DEF ClassInv, Classified, ResponseClassified
<1> QED
  BY <1>1, ClassInvariant, PTL

\* Nothing comes out of the tap that the recorder has not seen (pump): no full
\* response misses its entry in Pending.
THEOREM TeeIsComplete == Spec => []TeeComplete
<1>1. ASSUME ClassInv PROVE TeeComplete
  <2>1. \A i \in DOMAIN got["req"] :
          got["req"][i].kind = "full" =>
            \E j \in DOMAIN spool : spool[j].isRequest = TRUE /\ spool[j].n = got["req"][i].n
    <3>1. \A j \in DOMAIN spool : spool[j].isRequest \in BOOLEAN
      <4>1. \A j \in DOMAIN spool : spool[j] \in Captured
        BY <1>1 DEF ClassInv, SpoolInv, TypeOK
      <4>2. \A c \in Captured : c.isRequest \in BOOLEAN
        BY DEF Captured
      <4> QED
        BY <4>1, <4>2, Zenon
    <3> QED
      BY <1>1, <3>1 DEF ClassInv, ResponsesTeed, FullIn, Recorded
  <2>2. \A i \in DOMAIN got["resp"] :
          got["resp"][i].kind = "full" =>
            \E j \in DOMAIN spool : spool[j].isRequest = FALSE /\ spool[j].n = got["resp"][i].n
    <3>1. \A i \in DOMAIN got["resp"] : got["resp"][i] \in Place[1]
      BY DEF Place, Frames
    <3>2. \A j \in DOMAIN spool : spool[j].isRequest \in BOOLEAN
      <4>1. \A j \in DOMAIN spool : spool[j] \in Captured
        BY <1>1 DEF ClassInv, SpoolInv, TypeOK
      <4>2. \A c \in Captured : c.isRequest \in BOOLEAN
        BY DEF Captured
      <4> QED
        BY <4>1, <4>2, Zenon
    <3> QED
      BY <1>1, <3>1, <3>2 DEF ClassInv, ResponsesTeed, Spooled
  <2> SUFFICES ASSUME NEW d \in Direction, NEW i \in DOMAIN got[d], got[d][i].kind = "full"
               PROVE  \E j \in DOMAIN spool : spool[j].isRequest = (d = "req") /\ spool[j].n = got[d][i].n
    BY DEF TeeComplete
  <2>3. CASE d = "req"
    <3>1. (d = "req") = TRUE
      BY <2>3
    <3> QED
      BY <2>1, <2>3, <3>1, Zenon
  <2>4. CASE d = "resp"
    <3>1. (d = "req") = FALSE
      BY <2>4
    <3> QED
      BY <2>2, <2>4, <3>1, Zenon
  <2> QED
    BY <2>3, <2>4 DEF Direction
<1> QED
  BY <1>1, ClassInvariant, PTL

-----------------------------------------------------------------------------
(* Numbers and listings *)

\* The facts about numbers and listings are those of FoldProofs; no fold is
\* needed here.
Numbers == INSTANCE FoldProofs WITH Empty <- <<>>, Apply <- Append

\* A finite set can be listed, each member once, in the order of its keys.
LEMMA Listing ==
  ASSUME NEW U, IsFiniteSet(U), NEW key, \A u \in U : key[u] \in Nat
  PROVE  \E s \in [1..Cardinality(U) -> U] :
           /\ U = {s[i] : i \in DOMAIN s}
           /\ \A i, j \in DOMAIN s : i # j => s[i] # s[j]
           /\ \A i, j \in DOMAIN s : i < j => key[s[i]] <= key[s[j]]
<1>1. Numbers!IsFiniteSet(U)
  BY DEF IsFiniteSet, Numbers!IsFiniteSet
<1>2. Numbers!Cardinality(U) = Cardinality(U)
  BY DEF Cardinality, Numbers!Cardinality
<1>3. PICK s : /\ Numbers!Lists(s, U, Cardinality(U))
               /\ \A i, j \in 1..Cardinality(U) : i < j => key[s[i]] <= key[s[j]]
  BY <1>1, <1>2, Numbers!ListingExists
<1>4. /\ s \in [1..Cardinality(U) -> U] /\ U = {s[i] : i \in 1..Cardinality(U)}
      /\ \A i, j \in 1..Cardinality(U) : i # j => s[i] # s[j]
      /\ DOMAIN s = 1..Cardinality(U)
  BY <1>3 DEF Numbers!Lists
<1> QED BY <1>3, <1>4

-----------------------------------------------------------------------------
(* Tagged fields *)

OneEach(entries) == \A e, f \in entries : e.tag = f.tag => e = f

\* What is kept or written are tags of the newest schema, each once, with
\* values that are not the default.
EntriesOK(entries) ==
  /\ IsFiniteSet(entries) /\ OneEach(entries)
  /\ \A e \in entries : e.tag \in Tag /\ e.value # Default

MessageOK(m) ==
  /\ m = [knows |-> m.knows, fields |-> m.fields, unknown |-> m.unknown]
  /\ m.knows \in SUBSET Tag
  /\ EntriesOK(m.unknown) /\ \A e \in m.unknown : e.tag \notin m.knows

TrailerOK(trailer) == EntriesOK(ToSet(trailer)) /\ Ascending(trailer)

\* A value is the one the message began with, or the version of a connection
\* took it away.
Kept(value, tag) == value = origin[tag] \/ (value = Default /\ ~Carried(tag))

TagInv ==
  /\ MessageOK(holder)
  /\ \A trailer \in wire : TrailerOK(trailer)
  /\ \A tag \in Tag : Kept(Seen(holder, tag), tag)
  /\ \A trailer \in wire : \A tag \in Tag : Kept(ValueIn(ToSet(trailer), tag), tag)
  /\ \A trailer \in wire : \A e \in ToSet(trailer) :
       e.tag \in holder.knows => TagValid(e.tag, version)
  /\ refused =>
       /\ wire = {}
       /\ \E tag \in Tag \ holder.knows : origin[tag] # Default /\ ~TagValid(tag, version)

\* An entry gives its tag its value.
LEMMA ValueOf ==
  ASSUME NEW entries, OneEach(entries), NEW tag
  PROVE  /\ \A e \in entries : e.tag = tag => ValueIn(entries, tag) = e.value
         /\ (\A e \in entries : e.tag # tag) => ValueIn(entries, tag) = Default
BY DEF ValueIn, OneEach

\* The merged trailer has the entries of both kinds in strictly ascending
\* order of their tags.
LEMMA MergedIs ==
  ASSUME NEW known, NEW unknown, EntriesOK(known), EntriesOK(unknown),
         \A e \in known, f \in unknown : e.tag # f.tag
  PROVE  ToSet(Merged(known, unknown)) = known \cup unknown /\ Ascending(Merged(known, unknown))
<1> DEFINE all == (known \X {"known"}) \cup (unknown \X {"unknown"})
           key == [u \in all |-> u[1].tag]
           n == Cardinality(all)
           Sorted(s) == /\ all = {s[i] : i \in DOMAIN s}
                        /\ \A i, j \in DOMAIN s : i < j => s[i][1].tag <= s[j][1].tag
           order == CHOOSE s \in [1..n -> all] : Sorted(s)
<1>1. IsFiniteSet(all)
  <2>1. IsFiniteSet(known \X {"known"}) /\ IsFiniteSet(unknown \X {"unknown"})
    BY FS_Singleton, FS_Product DEF EntriesOK
  <2> QED BY <2>1, FS_Union
<1>2. ASSUME NEW u \in all PROVE u[1] \in known \cup unknown /\ u[1].tag \in Nat
  BY TagAssumption DEF EntriesOK
<1>3. \A u \in all : key[u] \in Nat
  BY <1>2
<1>4. \E s \in [1..n -> all] : Sorted(s)
  <2>1. PICK s \in [1..n -> all] :
          /\ all = {s[i] : i \in DOMAIN s}
          /\ \A i, j \in DOMAIN s : i < j => key[s[i]] <= key[s[j]]
    <3> HIDE DEF all, key
    <3> QED BY <1>1, <1>3, Listing
  <2>2. \A i \in DOMAIN s : key[s[i]] = s[i][1].tag
    OBVIOUS
  <2> HIDE DEF all, key
  <2> QED BY <2>1, <2>2
<1>5. order \in [1..n -> all] /\ Sorted(order)
  <2> HIDE DEF Sorted, all, n
  <2> QED BY <1>4
<1>6. n \in Nat /\ DOMAIN order = 1..n
  BY <1>1, <1>5, FS_CardinalityType
<1>7. Merged(known, unknown) = [i \in DOMAIN order |-> order[i][1]]
  BY DEF Merged
<1> HIDE DEF order, n
<1>8. \A i, j \in 1..n : i # j => order[i] # order[j]
  <2>1. order \in Surjection(1..n, all)
    BY <1>5, <1>6 DEF Surjection
  <2>2. IsFiniteSet(1..n) /\ Cardinality(1..n) = n
    BY <1>6, FS_Interval
  <2>3. order \in Injection(1..n, all)
    <3> HIDE DEF all
    <3> QED BY <2>1, <2>2, FS_Surjection DEF n
  <2> QED BY <2>3 DEF Injection, IsInjective
<1>9. ASSUME NEW u \in all, NEW v \in all, u[1].tag = v[1].tag PROVE u = v
  <2>1. CASE u \in known \X {"known"} /\ v \in known \X {"known"}
    <3>1. u[1] = v[1]
      BY <1>9, <2>1 DEF EntriesOK, OneEach
    <3> QED BY <2>1, <3>1
  <2>2. CASE u \in unknown \X {"unknown"} /\ v \in unknown \X {"unknown"}
    <3>1. u[1] = v[1]
      BY <1>9, <2>2 DEF EntriesOK, OneEach
    <3> QED BY <2>2, <3>1
  <2>3. CASE u \in known \X {"known"} /\ v \in unknown \X {"unknown"}
    BY <1>9, <2>3
  <2>4. CASE u \in unknown \X {"unknown"} /\ v \in known \X {"known"}
    BY <1>9, <2>4
  <2> QED BY <2>1, <2>2, <2>3, <2>4
<1>10. known \cup unknown = {u[1] : u \in all}
  <2>1. ASSUME NEW e \in known PROVE \E u \in all : u[1] = e
    <3>1. <<e, "known">> \in all
      OBVIOUS
    <3> QED BY <3>1
  <2>2. ASSUME NEW e \in unknown PROVE \E u \in all : u[1] = e
    <3>1. <<e, "unknown">> \in all
      OBVIOUS
    <3> QED BY <3>1
  <2> QED BY <1>2, <2>1, <2>2
<1> HIDE DEF all
<1>11. ToSet(Merged(known, unknown)) = {u[1] : u \in all}
  BY <1>5, <1>6, <1>7 DEF ToSet
<1>12. ASSUME NEW i \in 1..n, NEW j \in 1..n, i < j PROVE order[i][1].tag < order[j][1].tag
  <2>1. order[i] \in all /\ order[j] \in all /\ order[i] # order[j]
    BY <1>5, <1>6, <1>8, <1>12
  <2>2. order[i][1].tag <= order[j][1].tag
    BY <1>5, <1>6, <1>12
  <2>3. order[i][1].tag \in Nat /\ order[j][1].tag \in Nat /\ order[i][1].tag # order[j][1].tag
    BY <1>2, <1>9, <2>1
  <2> QED BY <2>2, <2>3
<1>13. Ascending(Merged(known, unknown))
  BY <1>6, <1>7, <1>12 DEF Ascending
<1> QED BY <1>10, <1>11, <1>13

\* The entries of the known fields.
LEMMA KnownOK ==
  ASSUME NEW m, MessageOK(m), NEW v
  PROVE  /\ EntriesOK(Known(m, v)) /\ \A e \in Known(m, v) : e.tag \in m.knows
         /\ \A tag \in m.knows :
              /\ ShouldEncode(m, tag, v) =>
                   \E e \in Known(m, v) : e.tag = tag /\ e.value = m.fields[tag]
              /\ ~ShouldEncode(m, tag, v) => \A e \in Known(m, v) : e.tag # tag
<1> DEFINE K == {t \in m.knows : ShouldEncode(m, t, v)}
           f == [t \in K |-> Entry(t, m.fields[t])]
<1>1. IsFiniteSet(K)
  BY TagAssumption, FS_Subset DEF MessageOK
<1>2. Known(m, v) = {f[t] : t \in K}
  BY DEF Known
<1>3. ASSUME NEW t \in K PROVE f[t].tag = t /\ f[t].value = m.fields[t] /\ m.fields[t] # Default /\ t \in Tag
  BY DEF Entry, ShouldEncode, MessageOK
<1>4. DOMAIN f = K
  OBVIOUS
<1>5. \A t \in m.knows : ShouldEncode(m, t, v) <=> t \in K
  OBVIOUS
<1>6. K \subseteq m.knows
  OBVIOUS
<1>7. IsFiniteSet(Known(m, v))
  <2>1. f \in Surjection(K, Known(m, v))
    BY <1>2 DEF Surjection
  <2> HIDE DEF f, K
  <2> QED BY <1>1, <2>1, FS_Surjection
<1> HIDE DEF f, K
<1> QED BY <1>2, <1>3, <1>5, <1>6, <1>7 DEF EntriesOK, OneEach

\* What is written says of every tag what the message says, or drops it where
\* the version does not carry it, and the tags its holder knows are that
\* version's.
LEMMA Written ==
  ASSUME NEW m, MessageOK(m), NEW v
  PROVE  /\ TrailerOK(Trailer(m, v))
         /\ \A tag \in Tag :
              \/ ValueIn(ToSet(Trailer(m, v)), tag) = Seen(m, tag)
              \/ /\ ValueIn(ToSet(Trailer(m, v)), tag) = Default
                 /\ ~(IsFlexible(v) /\ TagValid(tag, v))
         /\ \A e \in ToSet(Trailer(m, v)) : e.tag \in m.knows => TagValid(e.tag, v)
<1>1. CASE ~IsFlexible(v)
  <2>1. Trailer(m, v) = <<>> /\ ToSet(<<>>) = {}
    BY <1>1 DEF Trailer, ToSet
  <2>2. EntriesOK({})
    BY FS_EmptySet DEF EntriesOK, OneEach
  <2>3. Ascending(<<>>)
    BY DEF Ascending
  <2>4. \A tag : ValueIn({}, tag) = Default
    BY DEF ValueIn
  <2> QED BY <1>1, <2>1, <2>2, <2>3, <2>4 DEF TrailerOK
<1>2. CASE IsFlexible(v)
  <2> DEFINE K == Known(m, v)
             U == m.unknown
             all == K \cup U
  <2>1. /\ EntriesOK(K) /\ \A e \in K : e.tag \in m.knows
        /\ EntriesOK(U) /\ \A e \in U : e.tag \notin m.knows
    BY KnownOK DEF MessageOK
  <2>2. ToSet(Trailer(m, v)) = all /\ Ascending(Trailer(m, v))
    <3> HIDE DEF K, U
    <3>1. Trailer(m, v) = Merged(K, U)
      BY <1>2 DEF Trailer, K, U
    <3> QED BY <2>1, <3>1, MergedIs
  <2>3. EntriesOK(all)
    <3> HIDE DEF K, U
    <3>1. IsFiniteSet(all)
      BY <2>1, FS_Union DEF EntriesOK
    <3> QED BY <2>1, <3>1 DEF EntriesOK, OneEach
  <2>4. ASSUME NEW tag \in Tag
        PROVE  \/ ValueIn(all, tag) = Seen(m, tag)
               \/ ValueIn(all, tag) = Default /\ ~TagValid(tag, v)
    <3>1. CASE tag \in m.knows /\ ShouldEncode(m, tag, v)
      <4>1. PICK e \in K : e.tag = tag /\ e.value = m.fields[tag]
        BY <3>1, KnownOK
      <4>2. ValueIn(all, tag) = m.fields[tag]
        BY <2>3, <4>1, ValueOf DEF EntriesOK
      <4> QED BY <3>1, <4>2 DEF Seen
    <3>2. CASE tag \in m.knows /\ ~ShouldEncode(m, tag, v)
      <4>1. \A e \in all : e.tag # tag
        BY <2>1, <3>2, KnownOK
      <4>2. ValueIn(all, tag) = Default
        BY <2>3, <4>1, ValueOf DEF EntriesOK
      <4> QED BY <3>2, <4>2 DEF ShouldEncode, Seen
    <3>3. CASE tag \notin m.knows
      <4>1. ValueIn(all, tag) = ValueIn(U, tag)
        <5>1. CASE \E e \in U : e.tag = tag
          <6>1. PICK e \in U : e.tag = tag
            BY <5>1
          <6> HIDE DEF K, U
          <6> QED BY <2>1, <2>3, <6>1, ValueOf DEF EntriesOK
        <5>2. CASE \A e \in U : e.tag # tag
          <6>1. \A e \in all : e.tag # tag
            BY <2>1, <3>3, <5>2
          <6> HIDE DEF K, U
          <6> QED BY <2>1, <2>3, <5>2, <6>1, ValueOf DEF EntriesOK
        <5> QED BY <5>1, <5>2
      <4> QED BY <3>3, <4>1 DEF Seen
    <3> QED BY <3>1, <3>2, <3>3
  <2>5. ASSUME NEW e \in all, e.tag \in m.knows PROVE TagValid(e.tag, v)
    <3>1. e \in K
      BY <2>1, <2>5
    <3>2. ShouldEncode(m, e.tag, v)
      BY <2>5, <3>1, KnownOK
    <3> QED BY <3>2 DEF ShouldEncode
  <2> HIDE DEF all
  <2> QED BY <2>2, <2>3, <2>4, <2>5 DEF TrailerOK
<1> QED BY <1>1, <1>2

\* What is read says of every tag what the trailer says.
LEMMA ReadBack ==
  ASSUME NEW trailer, TrailerOK(trailer), NEW knows \in SUBSET Tag
  PROVE  /\ MessageOK(Decoded(trailer, knows))
         /\ \A tag : Seen(Decoded(trailer, knows), tag) = ValueIn(ToSet(trailer), tag)
<1> DEFINE S == ToSet(trailer)
           U == {e \in S : e.tag \notin knows}
           m == Decoded(trailer, knows)
<1>1. m = [knows |-> knows, fields |-> [tag \in knows |-> ValueIn(S, tag)], unknown |-> U]
  BY DEF Decoded
<1>2. EntriesOK(S)
  BY DEF TrailerOK
<1>3. m.knows = knows /\ m.fields = [tag \in knows |-> ValueIn(S, tag)] /\ m.unknown = U
  BY <1>1
<1>4. EntriesOK(U)
  <2>1. IsFiniteSet(U)
    BY <1>2, FS_Subset DEF EntriesOK
  <2> QED BY <1>2, <2>1 DEF EntriesOK, OneEach
<1>5. \A e \in U : e.tag \notin knows
  OBVIOUS
<1>6. ASSUME NEW tag PROVE Seen(m, tag) = ValueIn(S, tag)
  <2>1. CASE tag \in knows
    <3> HIDE DEF m, S
    <3> QED BY <1>3, <2>1 DEF Seen
  <2>2. CASE tag \notin knows
    <3>1. Seen(m, tag) = ValueIn(U, tag)
      <4> HIDE DEF m, U
      <4> QED BY <1>3, <2>2 DEF Seen
    <3>2. ValueIn(U, tag) = ValueIn(S, tag)
      <4>1. CASE \E e \in S : e.tag = tag
        <5>1. PICK e \in S : e.tag = tag
          BY <4>1
        <5>2. e \in U
          BY <2>2, <5>1
        <5> HIDE DEF S, U
        <5> QED BY <1>2, <1>4, <5>1, <5>2, ValueOf DEF EntriesOK
      <4>2. CASE \A e \in S : e.tag # tag
        <5>1. \A e \in U : e.tag # tag
          BY <4>2
        <5> HIDE DEF S, U
        <5> QED BY <1>2, <1>4, <4>2, <5>1, ValueOf DEF EntriesOK
      <4> QED BY <4>1, <4>2
    <3> QED BY <3>1, <3>2
  <2> QED BY <2>1, <2>2
<1>7. m = [knows |-> m.knows, fields |-> m.fields, unknown |-> m.unknown]
  <2> HIDE DEF S, U
  <2> QED BY <1>1, <1>3
<1> HIDE DEF m, U, S
<1> QED BY <1>3, <1>4, <1>5, <1>6, <1>7 DEF MessageOK, S, m

\* The first holder's message says what it says.
LEMMA TagInvInit == TagInit => TagInv
<1> SUFFICES ASSUME TagInit PROVE TagInv
  OBVIOUS
<1>0. PICK knows \in SUBSET Tag : \E fields \in [knows -> FieldValue] :
        /\ holder = [knows |-> knows, fields |-> fields, unknown |-> {}]
        /\ origin = [tag \in Tag |-> IF tag \in knows THEN fields[tag] ELSE Default]
  BY DEF TagInit
<1>1. PICK fields \in [knows -> FieldValue] :
        /\ holder = [knows |-> knows, fields |-> fields, unknown |-> {}]
        /\ origin = [tag \in Tag |-> IF tag \in knows THEN fields[tag] ELSE Default]
  BY <1>0
<1>2. MessageOK(holder)
  <2>1. EntriesOK({})
    BY FS_EmptySet DEF EntriesOK, OneEach
  <2> QED BY <1>1, <2>1 DEF MessageOK
<1>3. \A tag \in Tag : Seen(holder, tag) = origin[tag]
  BY <1>1 DEF Seen, ValueIn
<1> QED BY <1>2, <1>3 DEF TagInv, TagInit, Kept

\* A connection, a reader and a refusal keep the invariant.
LEMMA TagInvStep == TagInv /\ [TagNext]_tagVars => TagInv'
<1> SUFFICES ASSUME TagInv, [TagNext]_tagVars PROVE TagInv'
  OBVIOUS
<1>1. CASE UNCHANGED tagVars
  BY <1>1 DEF TagInv, tagVars, Kept, Carried
<1>2. ASSUME NEW v \in Version, Send(v) PROVE TagInv'
  <2>0. PICK t : t = Trailer(holder, v)
    OBVIOUS
  <2>1. /\ wire' = {t} /\ versions' = versions \cup {v} /\ ~refused /\ refused' = refused
        /\ origin' = origin /\ holder' = holder /\ version' = v
    BY <1>2, <2>0 DEF Send
  <2>2. MessageOK(holder) /\ \A tag \in Tag : Kept(Seen(holder, tag), tag)
    BY DEF TagInv
  <2>3. \A tag : Carried(tag)' => Carried(tag) /\ IsFlexible(v) /\ TagValid(tag, v)
    BY <2>1 DEF Carried
  <2>4. ASSUME NEW tag \in Tag PROVE Kept(Seen(holder, tag), tag)'
    BY <2>1, <2>2, <2>3 DEF Kept
  <2>5. ASSUME NEW tag \in Tag PROVE Kept(ValueIn(ToSet(t), tag), tag)'
    <3>1. \/ ValueIn(ToSet(t), tag) = Seen(holder, tag)
          \/ ValueIn(ToSet(t), tag) = Default /\ ~(IsFlexible(v) /\ TagValid(tag, v))
      BY <2>0, <2>2, Written
    <3> QED BY <2>1, <2>2, <2>3, <3>1 DEF Kept
  <2>6. TrailerOK(t)
    BY <2>0, <2>2, Written
  <2>7. ~refused'
    BY <2>1, Zenon
  <2>8. \A trailer \in wire' : trailer = t
    BY <2>1
  <2>9. MessageOK(holder)'
    BY <2>1, <2>2
  <2>10. \A trailer \in wire' : TrailerOK(trailer) /\ \A tag \in Tag : Kept(ValueIn(ToSet(trailer), tag), tag)'
    BY <2>5, <2>6, <2>8
  <2>11. \A trailer \in wire' : \A e \in ToSet(trailer) :
           e.tag \in holder'.knows => TagValid(e.tag, version')
    BY <2>0, <2>1, <2>2, <2>8, Written
  <2> QED BY <2>4, <2>7, <2>9, <2>10, <2>11 DEF TagInv
<1>3. ASSUME NEW knows \in SUBSET Tag, Receive(knows) PROVE TagInv'
  <2>1. PICK t \in wire : DecodesTrailer(t, knows, version) /\ holder' = Decoded(t, knows)
    BY <1>3 DEF Receive
  <2>2. /\ wire' = {} /\ versions' = versions /\ refused' = refused
        /\ origin' = origin /\ version' = version
    BY <1>3 DEF Receive
  <2>3. TrailerOK(t) /\ \A tag \in Tag : Kept(ValueIn(ToSet(t), tag), tag)
    BY <2>1 DEF TagInv
  <2>4. /\ MessageOK(holder')
        /\ \A tag : Seen(holder', tag) = ValueIn(ToSet(t), tag)
    BY <2>1, <2>3, ReadBack
  <2>5. \A tag \in Tag : Kept(Seen(holder, tag), tag)'
    BY <2>2, <2>3, <2>4 DEF Kept, Carried
  <2>6. ~refused'
    <3>1. ~refused
      BY <2>1 DEF TagInv
    <3> QED BY <2>2, <3>1, Zenon
  <2> QED BY <2>2, <2>4, <2>5, <2>6 DEF TagInv
<1>4. ASSUME NEW knows \in SUBSET Tag, Refuse(knows) PROVE TagInv'
  <2>1. PICK t \in wire : ~DecodesTrailer(t, knows, version)
    BY <1>4 DEF Refuse
  <2>2. /\ wire' = {} /\ versions' = versions /\ refused' = TRUE
        /\ origin' = origin /\ version' = version /\ holder' = holder
    BY <1>4 DEF Refuse
  <2>3. TrailerOK(t) /\ \A tag \in Tag : Kept(ValueIn(ToSet(t), tag), tag)
    BY <2>1 DEF TagInv
  <2>4. PICK i \in DOMAIN t : t[i].tag \in knows /\ ~TagValid(t[i].tag, version)
    BY <2>1, <2>3 DEF DecodesTrailer, TrailerOK, TagsValid
  <2>5. t[i] \in ToSet(t)
    BY <2>4 DEF ToSet
  <2>6. t[i].tag \in Tag /\ ValueIn(ToSet(t), t[i].tag) # Default
    BY <2>3, <2>5, ValueOf DEF TrailerOK, EntriesOK
  <2>7. origin[t[i].tag] # Default
    BY <2>3, <2>6 DEF Kept
  <2>8. \A tag \in Tag : Kept(Seen(holder, tag), tag)'
    BY <2>2 DEF TagInv, Kept, Carried
  <2>9. MessageOK(holder)'
    BY <2>2 DEF TagInv
  <2>10. (\E tag \in Tag \ holder.knows : origin[tag] # Default /\ ~TagValid(tag, version))'
    <3>1. t[i].tag \notin holder.knows
      BY <2>4, <2>5 DEF TagInv
    <3> QED BY <2>2, <2>4, <2>6, <2>7, <3>1
  <2> QED BY <2>2, <2>8, <2>9, <2>10 DEF TagInv
<1> QED BY <1>1, <1>2, <1>3, <1>4 DEF TagNext

\* Through any holders and connections a tagged value arrives as it was sent,
\* or falls to the default where a version does not carry it.
THEOREM RelayIsTransparent == TagSpec => []RelayTransparent
<1>1. TagInv => RelayTransparent
  BY DEF TagInv, RelayTransparent, Kept
<1> QED BY <1>1, TagInvInit, TagInvStep, PTL DEF TagSpec

-----------------------------------------------------------------------------
(* Record batches: sequences of anything *)

IsSeq(s) == \E S : s \in Seq(S)

\* The indices of a sequence.
LEMMA SeqFacts ==
  ASSUME NEW s, IsSeq(s)
  PROVE  Len(s) \in Nat /\ DOMAIN s = 1..Len(s)
BY DEF IsSeq

\* A function on 1..n is a sequence.
LEMMA SeqMap ==
  ASSUME NEW n \in Nat, NEW f, f = [i \in 1..n |-> f[i]]
  PROVE  IsSeq(f) /\ Len(f) = n /\ DOMAIN f = 1..n
<1> DEFINE S == {f[i] : i \in 1..n}
<1>1. f \in [1..n -> S]
  OBVIOUS
<1>2. f \in Seq(S)
  <2> HIDE DEF S
  <2> QED BY <1>1
<1>3. IsSeq(f)
  BY <1>2 DEF IsSeq
<1> HIDE DEF S
<1> QED BY <1>1, <1>2, <1>3

\* One sequence behind another.
LEMMA SeqJoin ==
  ASSUME NEW s, IsSeq(s), NEW t, IsSeq(t)
  PROVE  /\ IsSeq(s \o t) /\ Len(s \o t) = Len(s) + Len(t)
         /\ DOMAIN (s \o t) = 1..Len(s) + Len(t)
         /\ \A i \in 1..Len(s) : (s \o t)[i] = s[i]
         /\ \A i \in 1..Len(t) : (s \o t)[Len(s) + i] = t[i]
<1>1. PICK S : s \in Seq(S)
  BY DEF IsSeq
<1>2. PICK T : t \in Seq(T)
  BY DEF IsSeq
<1> DEFINE U == S \cup T
<1>3. s \in Seq(U) /\ t \in Seq(U)
  BY <1>1, <1>2
<1> HIDE DEF U
<1>4. s \o t \in Seq(U)
  BY <1>3
<1>5. IsSeq(s \o t)
  BY <1>4 DEF IsSeq
<1> QED BY <1>3, <1>4, <1>5

\* One element behind a sequence.
LEMMA SeqAppend ==
  ASSUME NEW s, IsSeq(s), NEW e
  PROVE  /\ IsSeq(Append(s, e)) /\ Len(Append(s, e)) = Len(s) + 1
         /\ DOMAIN Append(s, e) = 1..Len(s) + 1
         /\ \A i \in 1..Len(s) : Append(s, e)[i] = s[i]
         /\ Append(s, e)[Len(s) + 1] = e
<1>1. PICK S : s \in Seq(S)
  BY DEF IsSeq
<1> DEFINE U == S \cup {e}
<1>2. s \in Seq(U) /\ e \in U
  BY <1>1
<1> HIDE DEF U
<1>3. Append(s, e) \in Seq(U)
  BY <1>2
<1>4. IsSeq(Append(s, e))
  BY <1>3 DEF IsSeq
<1> QED BY <1>2, <1>3, <1>4

\* InOrder lists every position once.
LEMMA InOrderIs ==
  ASSUME NEW n \in Nat, NEW P \in SUBSET (1..n)
  PROVE  /\ IsSeq(InOrder(P)) /\ \A i \in DOMAIN InOrder(P) : InOrder(P)[i] \in P
         /\ \A i, j \in DOMAIN InOrder(P) : i < j => InOrder(P)[i] < InOrder(P)[j]
         /\ \A p \in P : \E i \in DOMAIN InOrder(P) : InOrder(P)[i] = p
<1> DEFINE c == Cardinality(P)
           key == [u \in P |-> u]
           Up(s) == \A j, k \in DOMAIN s : j < k => s[j] < s[k]
           o == InOrder(P)
<1>0. \A p \in P : p \in Nat
  OBVIOUS
<1>1. IsFiniteSet(P) /\ c \in Nat
  <2>1. IsFiniteSet(1..n)
    BY FS_Interval
  <2>2. IsFiniteSet(P)
    BY <2>1, FS_Subset
  <2> QED BY <2>2, FS_CardinalityType
<1>2. \E s \in [1..c -> P] : Up(s)
  <2>1. \A u \in P : key[u] = u /\ key[u] \in Nat
    OBVIOUS
  <2>2. PICK s \in [1..c -> P] :
          /\ \A i, j \in DOMAIN s : i # j => s[i] # s[j]
          /\ \A i, j \in DOMAIN s : i < j => key[s[i]] <= key[s[j]]
    <3> HIDE DEF key
    <3> QED BY <1>1, <2>1, Listing
  <2>3. DOMAIN s = 1..c /\ \A i \in 1..c : s[i] \in P
    OBVIOUS
  <2>4. ASSUME NEW j \in 1..c, NEW k \in 1..c, j < k PROVE s[j] < s[k]
    <3>1. s[j] \in P /\ s[k] \in P /\ j # k /\ s[j] \in Nat /\ s[k] \in Nat
      <4>1. s[j] \in P /\ s[k] \in P
        BY <2>3
      <4>2. j # k
        <5> HIDE DEF c
        <5> QED BY <1>1, <2>4
      <4>3. s[j] \in Nat /\ s[k] \in Nat
        BY <1>0, <4>1
      <4> QED BY <4>1, <4>2, <4>3
    <3>2. s[j] # s[k] /\ s[j] <= s[k]
      <4> HIDE DEF key, c
      <4> QED BY <2>1, <2>2, <2>3, <2>4, <3>1
    <3> QED BY <3>1, <3>2
  <2> QED BY <2>3, <2>4
<1>3. o \in [1..c -> P] /\ Up(o)
  <2>1. o = CHOOSE s \in [1..c -> P] : Up(s)
    BY DEF InOrder
  <2> HIDE DEF o, c, Up
  <2> QED BY <1>2, <2>1
<1> HIDE DEF o
<1>4. o \in Injection(1..c, P)
  <2>1. \A i, j \in 1..c : i # j => o[i] # o[j]
    <3>1. ASSUME NEW i \in 1..c PROVE o[i] \in P /\ o[i] \in Nat
      <4>1. o[i] \in P
        <5> HIDE DEF c
        <5> QED BY <1>3
      <4> QED BY <1>0, <4>1
    <3> QED BY <1>1, <1>3, <3>1
  <2> QED BY <1>3, <2>1 DEF Injection, IsInjective
<1>5. o \in Surjection(1..c, P)
  <2>1. Cardinality(1..c) = c
    BY <1>1, FS_Interval
  <2> QED BY <1>1, <1>4, <2>1, FS_Injection
<1>6. IsSeq(o) /\ DOMAIN o = 1..c
  BY <1>1, <1>3, SeqMap
<1>7. \A p \in P : \E i \in 1..c : o[i] = p
  BY <1>5 DEF Surjection
<1> QED BY <1>3, <1>6, <1>7 DEF o

-----------------------------------------------------------------------------
(* Record batches: what a stored batch holds *)

\* The offset behind a batch.
End(w) == w.base + w.head.lastDelta + 1

IsWire(w) ==
  w = [base |-> w.base, length |-> w.length, magic |-> w.magic, crc |-> w.crc,
       head |-> w.head, body |-> w.body]

IsHead(h) ==
  h = [horizon |-> h.horizon, lastDelta |-> h.lastDelta, time |-> h.time, count |-> h.count]

IsRecord(e) ==
  e = [offsetDelta |-> e.offsetDelta, timeDelta |-> e.timeDelta, value |-> e.value]

\* A batch decodes, and its records are in order and within its last offset.
BatchOK(w) ==
  /\ IsWire(w) /\ Sound(w) /\ IsHead(w.head)
  /\ w.base \in Nat /\ w.head.lastDelta \in Nat
  /\ IsSeq(w.body)
  /\ \A k \in DOMAIN w.body : IsRecord(w.body[k]) /\ w.body[k].offsetDelta \in 0..w.head.lastDelta
  /\ \A j, k \in DOMAIN w.body : j < k => w.body[j].offsetDelta < w.body[k].offsetDelta

\* Its records are those accepted at their offsets, and the ones that are not
\* there were taken away.
Holds(w, app, rem) ==
  /\ End(w) <= Len(app)
  /\ \A k \in DOMAIN w.body : RecordAt(w, k) = app[w.base + w.body[k].offsetDelta + 1]
  /\ \A o \in w.base..End(w) - 1 :
       o \in rem \/ \E k \in DOMAIN w.body : w.base + w.body[k].offsetDelta = o

Good(w, app, rem) == BatchOK(w) /\ Holds(w, app, rem)

\* The records accepted.
Story(app) == IsSeq(app) /\ \A i \in DOMAIN app : app[i].time \in 0..MaxI64

\* What was read up to an offset is what was accepted below it.
ReadUpTo(c, p, app, rem) ==
  /\ IsSeq(c) /\ p \in Nat /\ p <= Len(app)
  /\ \A k \in DOMAIN c : c[k].offset \in 0..p - 1 /\ c[k] = app[c[k].offset + 1]
  /\ \A j, k \in DOMAIN c : j < k => c[j].offset < c[k].offset
  /\ \A o \in 0..p - 1 : o \in rem \/ \E k \in DOMAIN c : c[k].offset = o

\* More records and more compaction leave a batch and what was read as true as
\* they were.
LEMMA GoodGrows ==
  ASSUME NEW w, NEW app, NEW rem, Good(w, app, rem), IsSeq(app),
         NEW more, IsSeq(more), NEW rem2, rem \subseteq rem2
  PROVE  Good(w, app \o more, rem2)
<1>1. /\ Len(app) \in Nat /\ Len(more) \in Nat /\ Len(app \o more) = Len(app) + Len(more)
      /\ \A i \in 1..Len(app) : (app \o more)[i] = app[i]
  BY SeqJoin, SeqFacts
<1>2. End(w) \in Nat /\ End(w) <= Len(app) /\ w.base \in Nat /\ w.head.lastDelta \in Nat
  BY DEF Good, BatchOK, Holds, End
<1>3. ASSUME NEW k \in DOMAIN w.body
      PROVE  RecordAt(w, k) = (app \o more)[w.base + w.body[k].offsetDelta + 1]
  <2>1. w.body[k].offsetDelta \in 0..w.head.lastDelta
    BY DEF Good, BatchOK
  <2>2. w.base + w.body[k].offsetDelta + 1 \in 1..Len(app)
    BY <1>1, <1>2, <2>1 DEF End
  <2> QED BY <1>1, <2>2 DEF Good, Holds
<1>4. \A o \in w.base..End(w) - 1 :
        o \in rem2 \/ \E k \in DOMAIN w.body : w.base + w.body[k].offsetDelta = o
  BY DEF Good, Holds
<1>5. End(w) <= Len(app \o more)
  BY <1>1, <1>2
<1> QED BY <1>3, <1>4, <1>5 DEF Good, Holds

\* The same of what was read.
LEMMA ReadGrows ==
  ASSUME NEW c, NEW p, NEW app, NEW rem, ReadUpTo(c, p, app, rem), IsSeq(app),
         NEW more, IsSeq(more), NEW rem2, rem \subseteq rem2
  PROVE  ReadUpTo(c, p, app \o more, rem2)
<1>1. /\ Len(app) \in Nat /\ Len(more) \in Nat /\ Len(app \o more) = Len(app) + Len(more)
      /\ \A i \in 1..Len(app) : (app \o more)[i] = app[i]
  BY SeqJoin, SeqFacts
<1>2. ASSUME NEW k \in DOMAIN c PROVE c[k] = (app \o more)[c[k].offset + 1]
  <2>1. c[k].offset + 1 \in 1..Len(app)
    BY <1>1 DEF ReadUpTo
  <2> QED BY <1>1, <2>1 DEF ReadUpTo
<1> QED BY <1>1, <1>2 DEF ReadUpTo

\* A change of a sound batch shows.
LEMMA DamageShows ==
  ASSUME NEW w, BatchOK(w), NEW d \in Damaged(w)
  PROVE  ~Sound(d)
<1> SUFFICES ASSUME Sound(d) PROVE FALSE
  OBVIOUS
<1> USE DEF Crc32c
<1>1. /\ IsWire(w) /\ IsHead(w.head) /\ w.magic = 2 /\ w.length = Len(w.body)
      /\ w.crc = <<w.head, w.body>> /\ w.head.count = Len(w.body) /\ Len(w.body) \in Nat
      /\ w.head.lastDelta \in Nat
  BY SeqFacts DEF BatchOK, Sound
<1>2. d.magic = 2 /\ d.length = Len(d.body) /\ d.crc = <<d.head, d.body>>
  BY DEF Sound
<1>3. CASE d = [w EXCEPT !.magic = 3]
  BY <1>1, <1>2, <1>3 DEF IsWire
<1>4. CASE d = [w EXCEPT !.length = @ + 1] \/ d = [w EXCEPT !.length = @ - 1]
  BY <1>1, <1>2, <1>4 DEF IsWire
<1>5. CASE d = [w EXCEPT !.crc = <<Garbage>>]
  <2>1. <<Garbage>> = <<w.head, w.body>>
    BY <1>1, <1>2, <1>5 DEF IsWire
  <2> QED BY <2>1
<1>6. CASE d = [w EXCEPT !.head.lastDelta = @ + 1]
  <2>1. d.head = [w.head EXCEPT !.lastDelta = @ + 1] /\ d.body = w.body /\ d.crc = w.crc
    BY <1>1, <1>6 DEF IsWire
  <2>2. d.head = w.head
    BY <1>1, <1>2, <2>1
  <2>3. d.head.lastDelta = w.head.lastDelta + 1
    BY <1>1, <2>1 DEF IsHead
  <2> QED BY <1>1, <2>2, <2>3
<1>7. CASE d = [w EXCEPT !.head.count = @ + 1]
  <2>1. d.head = [w.head EXCEPT !.count = @ + 1] /\ d.body = w.body /\ d.crc = w.crc
    BY <1>1, <1>7 DEF IsWire
  <2>2. d.head = w.head
    BY <1>1, <1>2, <2>1
  <2>3. d.head.count = w.head.count + 1
    BY <1>1, <2>1 DEF IsHead
  <2> QED BY <1>1, <2>2, <2>3
<1>8. CASE /\ d # w
           /\ d = [w EXCEPT !.body = [k \in DOMAIN @ |-> [@[k] EXCEPT !.value = Garbage]]]
  <2> DEFINE B == [k \in DOMAIN w.body |-> [w.body[k] EXCEPT !.value = Garbage]]
  <2>1. d = [w EXCEPT !.body = B]
    BY <1>8
  <2> HIDE DEF B
  <2>2. d.body = B /\ d.crc = w.crc /\ d.head = w.head
    BY <1>1, <2>1 DEF IsWire
  <2>3. B = w.body
    BY <1>1, <1>2, <2>2
  <2>4. d = w
    BY <1>1, <2>1, <2>3 DEF IsWire
  <2> QED BY <1>8, <2>4
<1> QED BY <1>3, <1>4, <1>5, <1>6, <1>7, <1>8 DEF Damaged

\* The bytes of what a producer meant, and what is accepted for it.
BodyOf(meant) ==
  [k \in 1..Len(meant) |->
     [offsetDelta |-> k - 1, timeDelta |-> meant[k].time - meant[1].time,
      value |-> meant[k].value]]

HeadOf(meant) ==
  [horizon |-> FALSE, lastDelta |-> Len(meant) - 1, time |-> meant[1].time,
   count |-> Len(meant)]

StoredAs(meant, base) ==
  [base |-> base, length |-> Len(meant), magic |-> 2,
   crc |-> Crc32c(HeadOf(meant), BodyOf(meant)), head |-> HeadOf(meant),
   body |-> BodyOf(meant)]

AcceptedAt(meant, base) ==
  [k \in DOMAIN meant |-> [offset |-> base + k - 1, time |-> meant[k].time,
                           value |-> meant[k].value]]

IsMeant(meant) ==
  /\ IsSeq(meant) /\ Len(meant) # 0
  /\ \A k \in DOMAIN meant : meant[k].time \in 0..MaxI64

\* A batch is good when it is accepted.
LEMMA StoredGood ==
  ASSUME NEW app, Story(app), NEW rem, NEW meant, IsMeant(meant)
  PROVE  LET w == StoredAs(meant, Len(app))
             all == app \o AcceptedAt(meant, Len(app))
         IN  Good(w, all, rem) /\ Story(all) /\ w.base = Len(app) /\ End(w) = Len(all)
<1> DEFINE b == Len(app)
           n == Len(meant)
           w == StoredAs(meant, b)
           more == AcceptedAt(meant, b)
           all == app \o more
<1>1. b \in Nat /\ n \in Nat /\ n # 0 /\ DOMAIN meant = 1..n /\ DOMAIN app = 1..b
  BY SeqFacts DEF Story, IsMeant
<1>2. more = [k \in 1..n |-> [offset |-> b + k - 1, time |-> meant[k].time, value |-> meant[k].value]]
  BY <1>1 DEF AcceptedAt
<1>3. IsSeq(more) /\ Len(more) = n /\ DOMAIN more = 1..n
  <2> HIDE DEF n, b, more
  <2> QED BY <1>1, <1>2, SeqMap
<1>4. /\ IsSeq(all) /\ Len(all) = b + n /\ DOMAIN all = 1..(b + n)
      /\ \A i \in 1..b : all[i] = app[i]
      /\ \A i \in 1..n : all[b + i] = more[i]
  <2>1. IsSeq(app)
    BY DEF Story
  <2> HIDE DEF more, n
  <2>2. /\ IsSeq(app \o more) /\ Len(app \o more) = Len(app) + Len(more)
        /\ DOMAIN (app \o more) = 1..Len(app) + Len(more)
        /\ \A i \in 1..Len(app) : (app \o more)[i] = app[i]
        /\ \A i \in 1..Len(more) : (app \o more)[Len(app) + i] = more[i]
    BY <1>3, <2>1, SeqJoin
  <2> QED BY <1>3, <2>2
<1>5. /\ w = [base |-> b, length |-> n, magic |-> 2, crc |-> Crc32c(HeadOf(meant), BodyOf(meant)),
              head |-> HeadOf(meant), body |-> BodyOf(meant)]
      /\ HeadOf(meant) = [horizon |-> FALSE, lastDelta |-> n - 1, time |-> meant[1].time, count |-> n]
      /\ BodyOf(meant) = [k \in 1..n |-> [offsetDelta |-> k - 1,
                            timeDelta |-> meant[k].time - meant[1].time, value |-> meant[k].value]]
  BY DEF StoredAs, HeadOf, BodyOf
<1> HIDE DEF w, all, more, n, b
<1>6. /\ IsWire(w) /\ IsHead(w.head) /\ w.base = b /\ w.body = BodyOf(meant) /\ w.head = HeadOf(meant)
      /\ w.head.lastDelta = n - 1 /\ w.head.count = n /\ w.head.time = meant[1].time
      /\ w.magic = 2 /\ w.length = n /\ w.crc = Crc32c(w.head, w.body)
  BY <1>5 DEF IsWire, IsHead
<1>7. IsSeq(w.body) /\ Len(w.body) = n /\ DOMAIN w.body = 1..n
  BY <1>1, <1>5, <1>6, SeqMap
<1>8. End(w) = b + n
  BY <1>1, <1>6 DEF End
<1>9. ASSUME NEW k \in 1..n
      PROVE  /\ w.body[k] = [offsetDelta |-> k - 1, timeDelta |-> meant[k].time - meant[1].time,
                             value |-> meant[k].value]
             /\ w.body[k].offsetDelta = k - 1
             /\ w.body[k].timeDelta = meant[k].time - meant[1].time
             /\ w.body[k].value = meant[k].value
             /\ IsRecord(w.body[k])
  <2>1. w.body[k] = [offsetDelta |-> k - 1, timeDelta |-> meant[k].time - meant[1].time,
                     value |-> meant[k].value]
    BY <1>5, <1>6
  <2> QED BY <2>1 DEF IsRecord
<1>a. \A k \in 1..n : w.body[k].offsetDelta = k - 1
  BY <1>9
<1>10. BatchOK(w)
  <2>1. Sound(w)
    BY <1>6, <1>7 DEF Sound
  <2>2. \A k \in 1..n : w.body[k].offsetDelta \in 0..w.head.lastDelta
    <3>1. w.head.lastDelta = n - 1
      BY <1>6
    <3> QED BY <1>1, <1>a, <3>1
  <2>3. \A j, k \in 1..n : j < k => w.body[j].offsetDelta < w.body[k].offsetDelta
    BY <1>1, <1>a
  <2> QED BY <1>1, <1>6, <1>7, <1>9, <2>1, <2>2, <2>3 DEF BatchOK
<1>11. ASSUME NEW k \in 1..n PROVE RecordAt(w, k) = all[w.base + w.body[k].offsetDelta + 1]
  <2>1. meant[k].time \in 0..MaxI64 /\ meant[1].time \in 0..MaxI64
    BY <1>1 DEF IsMeant
  <2>2. w.head.time + w.body[k].timeDelta = meant[k].time
    <3>1. w.head.time = meant[1].time /\ w.body[k].timeDelta = meant[k].time - meant[1].time
      BY <1>6, <1>9
    <3> QED BY <2>1, <3>1
  <2>3. Saturated(meant[k].time) = meant[k].time
    BY <2>1, TimeAssumption DEF Saturated, MinI64
  <2>4. w.base + w.body[k].offsetDelta = b + k - 1 /\ w.base + w.body[k].offsetDelta + 1 = b + k
    <3>1. w.base = b /\ w.body[k].offsetDelta = k - 1
      BY <1>6, <1>a
    <3> QED BY <1>1, <3>1
  <2>5. RecordAt(w, k) = [offset |-> b + k - 1, time |-> meant[k].time, value |-> meant[k].value]
    BY <1>9, <2>2, <2>3, <2>4 DEF RecordAt
  <2> QED BY <1>2, <1>4, <2>4, <2>5
<1>12. ASSUME NEW o \in w.base..End(w) - 1
       PROVE  \E k \in DOMAIN w.body : w.base + w.body[k].offsetDelta = o
  <2>1. o - b + 1 \in 1..n
    BY <1>1, <1>6, <1>8
  <2>2. w.base + w.body[o - b + 1].offsetDelta = o
    <3>1. w.body[o - b + 1].offsetDelta = (o - b + 1) - 1
      BY <1>9, <2>1
    <3> QED BY <1>1, <1>6, <1>8, <3>1
  <2> QED BY <1>7, <2>1, <2>2
<1>13. Holds(w, all, rem)
  <2>1. End(w) <= Len(all)
    BY <1>1, <1>4, <1>8
  <2> QED BY <1>7, <1>11, <1>12, <2>1 DEF Holds
<1>14. Story(all)
  <2>1. ASSUME NEW i \in 1..(b + n) PROVE all[i].time \in 0..MaxI64
    <3>1. CASE i <= b
      BY <1>1, <1>4, <3>1 DEF Story
    <3>2. CASE i > b
      <4>1. i - b \in 1..n /\ b + (i - b) = i
        BY <1>1, <3>2
      <4>2. all[i] = more[i - b]
        BY <1>4, <4>1
      <4>3. more[i - b].time = meant[i - b].time
        BY <1>2, <4>1
      <4> QED BY <1>1, <4>1, <4>2, <4>3 DEF IsMeant
    <3> QED BY <1>1, <3>1, <3>2
  <2> QED BY <1>4, <2>1 DEF Story
<1>15. Good(w, all, rem) /\ Story(all) /\ w.base = b /\ End(w) = Len(all)
  BY <1>4, <1>6, <1>8, <1>10, <1>13, <1>14 DEF Good
<1> QED BY <1>15 DEF w, all, more, b

\* What compaction makes of a batch.
Rewritten(w, gone, h) ==
  LET b     == DecodedBatch(w)
      order == InOrder(DOMAIN b.records \ gone)
      kept  == [b EXCEPT !.records = [k \in DOMAIN order |-> b.records[order[k]]]]
  IN EncodeBatch(WithDeleteHorizon(kept, h))

\* A batch that is rewritten stays good, with the offsets it had.
LEMMA RewrittenGood ==
  ASSUME NEW app, Story(app), NEW rem, NEW w, Good(w, app, rem),
         NEW gone \in SUBSET DOMAIN w.body, NEW h \in Horizon
  PROVE  LET v == Rewritten(w, gone, h)
             rem2 == rem \cup {RecordAt(w, k).offset : k \in gone}
         IN  Good(v, app, rem2) /\ v.base = w.base /\ End(v) = End(w)
<1> DEFINE n == Len(w.body)
           P == DOMAIN w.body \ gone
           order == InOrder(P)
           m == Len(order)
           Time0(k) == Saturated(w.head.time + w.body[k].timeDelta)
           R0 == [k \in 1..m |-> w.body[order[k]]]
           R == [k \in 1..m |-> [w.body[order[k]] EXCEPT !.timeDelta = Saturated(Time0(order[k]) - h)]]
           H == [horizon |-> TRUE, lastDelta |-> w.head.lastDelta, time |-> h, count |-> m]
           v == Rewritten(w, gone, h)
           rem2 == rem \cup {RecordAt(w, k).offset : k \in gone}
<1>1. /\ BatchOK(w) /\ IsSeq(w.body) /\ n \in Nat /\ DOMAIN w.body = 1..n
      /\ w.base \in Nat /\ w.head.lastDelta \in Nat
  BY SeqFacts DEF Good, BatchOK
<1>2. P \in SUBSET (1..n)
  BY <1>1
<1>3. /\ IsSeq(order) /\ \A i \in DOMAIN order : order[i] \in P
      /\ \A i, j \in DOMAIN order : i < j => order[i] < order[j]
      /\ \A p \in P : \E i \in DOMAIN order : order[i] = p
  <2> HIDE DEF P, n
  <2> QED BY <1>1, <1>2, InOrderIs
<1>4. m \in Nat /\ DOMAIN order = 1..m
  <2> HIDE DEF order
  <2> QED BY <1>3, SeqFacts
<1>5. v = [base |-> w.base, length |-> m, magic |-> 2, crc |-> Crc32c(H, R), head |-> H, body |-> R]
  <2> DEFINE b == DecodedBatch(w)
             kept == [b EXCEPT !.records = R0]
             timed == [base |-> w.base, horizon |-> TRUE, lastDelta |-> w.head.lastDelta,
                       time |-> h, records |-> R]
  <2>1. b = [base |-> w.base, horizon |-> w.head.horizon, lastDelta |-> w.head.lastDelta,
             time |-> w.head.time, records |-> w.body]
    BY DEF DecodedBatch
  <2>2. b.records = w.body
    BY <2>1
  <2>3. v = EncodeBatch(WithDeleteHorizon(kept, h))
    <3>1. v = EncodeBatch(WithDeleteHorizon(
                [b EXCEPT !.records = [k \in DOMAIN order |-> b.records[order[k]]]], h))
      <4> HIDE DEF b
      <4> QED BY <2>2 DEF Rewritten, b
    <3> HIDE DEF b, order, m
    <3> QED BY <1>4, <2>2, <3>1
  <2> HIDE DEF R0
  <2>4. kept = [base |-> w.base, horizon |-> w.head.horizon, lastDelta |-> w.head.lastDelta,
                time |-> w.head.time, records |-> R0]
    BY <2>1
  <2> HIDE DEF kept
  <2>5. DOMAIN R0 = 1..m /\ \A k \in 1..m : R0[k] = w.body[order[k]]
    BY DEF R0
  <2>6. kept.records = R0 /\ kept.time = w.head.time
    BY <2>4
  <2> DEFINE Q == [k \in DOMAIN kept.records |->
                     [kept.records[k] EXCEPT !.timeDelta =
                        Saturated(Saturated(kept.time + kept.records[k].timeDelta) - h)]]
  <2>7. Q = R
    <3> HIDE DEF m, order
    <3> QED BY <2>5, <2>6
  <2>8. WithDeleteHorizon(kept, h) = [kept EXCEPT !.horizon = TRUE, !.time = h, !.records = Q]
    BY DEF WithDeleteHorizon
  <2> HIDE DEF Q, R
  <2>9. WithDeleteHorizon(kept, h) = timed
    BY <2>4, <2>7, <2>8
  <2>10. v = EncodeBatch(timed)
    <3> HIDE DEF v, timed
    <3> QED BY <2>3, <2>9
  <2>11. Len(R) = m
    <3> HIDE DEF m
    <3>1. R = [k \in 1..m |-> R[k]]
      BY DEF R
    <3> QED BY <1>4, <3>1, SeqMap
  <2> HIDE DEF v, m
  <2> QED BY <2>10, <2>11 DEF EncodeBatch
<1> HIDE DEF v, m, order, R, H
<1>6. IsSeq(R) /\ Len(R) = m /\ DOMAIN R = 1..m
  <2>1. R = [k \in 1..m |-> R[k]]
    BY DEF R
  <2> QED BY <1>4, <2>1, SeqMap
<1>7. /\ H.lastDelta = w.head.lastDelta /\ H.time = h /\ H.count = m /\ IsHead(H)
  BY DEF H, IsHead
<1>8. /\ v.base = w.base /\ v.length = m /\ v.magic = 2 /\ v.crc = Crc32c(H, R) /\ v.head = H /\ v.body = R
      /\ IsWire(v)
  BY <1>5 DEF IsWire
<1>9. End(v) = End(w)
  BY <1>7, <1>8 DEF End
<1>10. ASSUME NEW k \in 1..m
       PROVE  /\ order[k] \in 1..n /\ IsRecord(R[k])
              /\ R[k].offsetDelta = w.body[order[k]].offsetDelta
              /\ R[k].value = w.body[order[k]].value
              /\ R[k].timeDelta = Saturated(Time0(order[k]) - h)
  <2>1. order[k] \in 1..n
    BY <1>2, <1>3, <1>4
  <2>2. IsRecord(w.body[order[k]])
    BY <1>1, <2>1 DEF BatchOK
  <2>3. R[k] = [w.body[order[k]] EXCEPT !.timeDelta = Saturated(Time0(order[k]) - h)]
    BY DEF R
  <2> HIDE DEF n, Time0
  <2> QED BY <2>1, <2>2, <2>3 DEF IsRecord
<1>11. BatchOK(v)
  <2>1. Sound(v)
    BY <1>6, <1>7, <1>8 DEF Sound
  <2>2. \A k \in 1..m : R[k].offsetDelta \in 0..H.lastDelta
    BY <1>1, <1>7, <1>10 DEF BatchOK
  <2>3. ASSUME NEW j \in 1..m, NEW k \in 1..m, j < k PROVE R[j].offsetDelta < R[k].offsetDelta
    <3>1. order[j] < order[k] /\ order[j] \in DOMAIN w.body /\ order[k] \in DOMAIN w.body
      BY <1>1, <1>3, <1>4, <1>10, <2>3
    <3>2. w.body[order[j]].offsetDelta < w.body[order[k]].offsetDelta
      BY <1>1, <3>1 DEF BatchOK
    <3> QED BY <1>10, <3>2
  <2> QED BY <1>1, <1>6, <1>7, <1>8, <1>10, <2>1, <2>2, <2>3 DEF BatchOK
<1>12. ASSUME NEW k \in 1..m PROVE RecordAt(v, k) = app[v.base + v.body[k].offsetDelta + 1]
  <2> DEFINE o == w.base + w.body[order[k]].offsetDelta
             t == Time0(order[k])
  <2>1. order[k] \in DOMAIN w.body
    BY <1>1, <1>10
  <2>2. RecordAt(w, order[k]) = app[o + 1]
    BY <2>1 DEF Good, Holds
  <2>3. RecordAt(w, order[k]) = [offset |-> o, time |-> t, value |-> w.body[order[k]].value]
    BY DEF RecordAt
  <2>4. w.body[order[k]].offsetDelta \in 0..w.head.lastDelta
    BY <1>1, <2>1 DEF BatchOK
  <2>5. End(w) <= Len(app) /\ Len(app) \in Nat /\ DOMAIN app = 1..Len(app)
    BY SeqFacts DEF Good, Holds, Story
  <2>6. o + 1 \in DOMAIN app
    BY <1>1, <2>4, <2>5 DEF End
  <2>7. t \in 0..MaxI64
    <3> HIDE DEF o, t
    <3>1. app[o + 1].time = t
      BY <2>2, <2>3
    <3> QED BY <2>6, <3>1 DEF Story
  <2>8. h \in 0..MaxI64 /\ MaxI64 \in Nat
    BY TimeAssumption
  <2>9. Saturated(h + Saturated(t - h)) = t
    <3> HIDE DEF t
    <3>1. Saturated(t - h) = t - h
      BY <2>7, <2>8 DEF Saturated, MinI64
    <3>2. h + (t - h) = t
      BY <2>7, <2>8
    <3>3. Saturated(t) = t
      BY <2>7, <2>8 DEF Saturated, MinI64
    <3> QED BY <3>1, <3>2, <3>3
  <2>10. v.base + v.body[k].offsetDelta = o
    BY <1>8, <1>10
  <2>11. v.head.time + v.body[k].timeDelta = h + Saturated(t - h)
    BY <1>7, <1>8, <1>10
  <2>12. v.body[k].value = w.body[order[k]].value
    BY <1>8, <1>10
  <2> HIDE DEF o, t
  <2>13. RecordAt(v, k) = [offset |-> o, time |-> t, value |-> w.body[order[k]].value]
    BY <2>9, <2>10, <2>11, <2>12 DEF RecordAt
  <2> QED BY <2>2, <2>3, <2>10, <2>13
<1>13. ASSUME NEW o \in v.base..End(v) - 1
       PROVE  o \in rem2 \/ \E k \in DOMAIN v.body : v.base + v.body[k].offsetDelta = o
  <2>1. o \in rem \/ \E k \in DOMAIN w.body : w.base + w.body[k].offsetDelta = o
    BY <1>8, <1>9 DEF Good, Holds
  <2>2. CASE o \in rem
    BY <2>2
  <2>3. ASSUME NEW k \in DOMAIN w.body, w.base + w.body[k].offsetDelta = o
        PROVE  o \in rem2 \/ \E i \in DOMAIN v.body : v.base + v.body[i].offsetDelta = o
    <3>1. CASE k \in gone
      <4>1. RecordAt(w, k).offset = o
        BY <2>3 DEF RecordAt
      <4> QED BY <3>1, <4>1
    <3>2. CASE k \notin gone
      <4>1. k \in P
        BY <3>2
      <4>2. PICK i \in 1..m : order[i] = k
        BY <1>3, <1>4, <4>1
      <4>3. v.base + v.body[i].offsetDelta = o
        BY <1>8, <1>10, <2>3, <4>2
      <4> HIDE DEF rem2
      <4> QED BY <1>6, <1>8, <4>3
    <3> QED BY <3>1, <3>2
  <2> HIDE DEF rem2
  <2> QED BY <2>1, <2>3, <2>2 DEF rem2
<1> HIDE DEF rem2
<1>14. Holds(v, app, rem2)
  <2>1. End(v) <= Len(app)
    BY <1>9 DEF Good, Holds
  <2> QED BY <1>6, <1>8, <1>12, <1>13, <2>1 DEF Holds
<1>15. Good(v, app, rem2) /\ v.base = w.base /\ End(v) = End(w)
  BY <1>8, <1>9, <1>11, <1>14 DEF Good
<1> QED BY <1>15 DEF v, rem2

\* The records of a batch as a consumer sees them.
RecordsOf(w) == [k \in DOMAIN w.body |-> RecordAt(w, k)]

\* Reading a good batch where one has stopped.
LEMMA ReadsOn ==
  ASSUME NEW c, NEW p, NEW app, NEW rem, ReadUpTo(c, p, app, rem),
         NEW w, Good(w, app, rem), w.base = p
  PROVE  ReadUpTo(c \o RecordsOf(w), End(w), app, rem)
<1> DEFINE n == Len(w.body)
           t == RecordsOf(w)
           l == Len(c)
           all == c \o t
           Off(k) == w.base + w.body[k].offsetDelta
<1>1. /\ BatchOK(w) /\ IsSeq(w.body) /\ n \in Nat /\ DOMAIN w.body = 1..n
      /\ p \in Nat /\ w.base = p /\ w.head.lastDelta \in Nat
  BY SeqFacts DEF Good, BatchOK
<1>2. IsSeq(t) /\ Len(t) = n /\ DOMAIN t = 1..n
  <2>1. t = [k \in 1..n |-> t[k]]
    BY <1>1 DEF RecordsOf
  <2> HIDE DEF t, n
  <2> QED BY <1>1, <2>1, SeqMap
<1>3. ASSUME NEW k \in 1..n
      PROVE  /\ t[k].offset = Off(k) /\ Off(k) \in p..End(w) - 1 /\ t[k] = app[Off(k) + 1]
  <2>1. t[k] = RecordAt(w, k)
    BY <1>1 DEF RecordsOf
  <2>2. w.body[k].offsetDelta \in 0..w.head.lastDelta
    BY <1>1 DEF BatchOK
  <2>3. Off(k) \in p..End(w) - 1
    BY <1>1, <2>2 DEF End
  <2>4. RecordAt(w, k) = app[Off(k) + 1]
    BY <1>1 DEF Good, Holds
  <2>5. RecordAt(w, k).offset = Off(k)
    BY DEF RecordAt
  <2> HIDE DEF t, Off, n
  <2> QED BY <2>1, <2>3, <2>4, <2>5
<1>4. IsSeq(c) /\ l \in Nat /\ DOMAIN c = 1..l
  BY SeqFacts DEF ReadUpTo
<1>5. ASSUME NEW j \in 1..n, NEW k \in 1..n, j < k PROVE Off(j) < Off(k)
  <2>1. /\ w.body[j].offsetDelta \in 0..w.head.lastDelta /\ w.body[k].offsetDelta \in 0..w.head.lastDelta
        /\ w.body[j].offsetDelta < w.body[k].offsetDelta
    BY <1>1, <1>5 DEF BatchOK
  <2> QED BY <1>1, <2>1
<1>6. \A o \in p..End(w) - 1 : o \in rem \/ \E k \in 1..n : Off(k) = o
  BY <1>1 DEF Good, Holds
<1>7. End(w) \in Nat /\ p < End(w) /\ End(w) <= Len(app)
  BY <1>1 DEF Good, Holds, End
<1> HIDE DEF t, n, l, Off
<1>8. /\ IsSeq(all) /\ DOMAIN all = 1..(l + n)
      /\ \A i \in 1..l : all[i] = c[i]
      /\ \A i \in 1..n : all[l + i] = t[i]
  <2>1. /\ IsSeq(c \o t) /\ DOMAIN (c \o t) = 1..Len(c) + Len(t)
        /\ \A i \in 1..Len(c) : (c \o t)[i] = c[i]
        /\ \A i \in 1..Len(t) : (c \o t)[Len(c) + i] = t[i]
    BY <1>2, <1>4, SeqJoin
  <2>2. l = Len(c)
    BY DEF l
  <2> QED BY <1>2, <2>1, <2>2
<1> HIDE DEF all
<1>9. /\ \A i \in 1..l : c[i].offset \in 0..p - 1 /\ c[i] = app[c[i].offset + 1]
      /\ \A i, j \in 1..l : i < j => c[i].offset < c[j].offset
      /\ \A o \in 0..p - 1 : o \in rem \/ \E i \in 1..l : c[i].offset = o
  BY <1>4 DEF ReadUpTo
<1>10. ASSUME NEW i \in 1..(l + n)
       PROVE  \/ i \in 1..l /\ all[i] = c[i]
              \/ i - l \in 1..n /\ all[i] = t[i - l]
  <2>1. CASE i <= l
    BY <1>4, <1>8, <2>1
  <2>2. CASE i > l
    <3>1. i - l \in 1..n /\ l + (i - l) = i
      BY <1>1, <1>4, <2>2
    <3>2. all[l + (i - l)] = t[i - l]
      BY <1>8, <3>1
    <3> QED BY <3>1, <3>2
  <2> QED BY <1>1, <1>4, <2>1, <2>2
<1>11. ASSUME NEW i \in 1..(l + n)
       PROVE  all[i].offset \in 0..End(w) - 1 /\ all[i] = app[all[i].offset + 1]
  <2>1. CASE i \in 1..l /\ all[i] = c[i]
    BY <1>1, <1>7, <1>9, <2>1
  <2>2. CASE i - l \in 1..n /\ all[i] = t[i - l]
    <3>1. all[i].offset = Off(i - l) /\ Off(i - l) \in p..End(w) - 1 /\ all[i] = app[Off(i - l) + 1]
      BY <1>3, <2>2
    <3> QED BY <1>1, <1>7, <3>1
  <2> QED BY <1>10, <2>1, <2>2
<1>12. ASSUME NEW i \in 1..(l + n), NEW j \in 1..(l + n), i < j PROVE all[i].offset < all[j].offset
  <2>1. CASE i \in 1..l /\ all[i] = c[i] /\ j \in 1..l /\ all[j] = c[j]
    BY <1>9, <1>12, <2>1
  <2>2. CASE i \in 1..l /\ all[i] = c[i] /\ j - l \in 1..n /\ all[j] = t[j - l]
    <3>1. all[i].offset \in 0..p - 1
      BY <1>9, <2>2
    <3>2. all[j].offset \in p..End(w) - 1
      BY <1>3, <2>2
    <3> QED BY <1>1, <1>7, <3>1, <3>2
  <2>3. CASE i - l \in 1..n /\ all[i] = t[i - l] /\ j - l \in 1..n /\ all[j] = t[j - l]
    <3>1. i - l < j - l
      BY <1>1, <1>4, <1>12
    <3>2. Off(i - l) < Off(j - l)
      BY <1>5, <2>3, <3>1
    <3> QED BY <1>3, <2>3, <3>2
  <2>4. ~(i - l \in 1..n /\ j \in 1..l)
    BY <1>1, <1>4, <1>12
  <2> QED BY <1>10, <2>1, <2>2, <2>3, <2>4
<1>13. ASSUME NEW o \in 0..End(w) - 1 PROVE o \in rem \/ \E i \in 1..(l + n) : all[i].offset = o
  <2>1. CASE o < p
    <3>1. o \in rem \/ \E i \in 1..l : c[i].offset = o
      BY <1>1, <1>9, <2>1
    <3>2. \A i \in 1..l : i \in 1..(l + n)
      BY <1>1, <1>4
    <3> QED BY <1>8, <3>1, <3>2
  <2>2. CASE o >= p
    <3>1. o \in rem \/ \E k \in 1..n : Off(k) = o
      BY <1>1, <1>6, <1>7, <2>2
    <3>2. \A k \in 1..n : l + k \in 1..(l + n)
      BY <1>1, <1>4
    <3> QED BY <1>3, <1>8, <3>1, <3>2
  <2> QED BY <1>1, <2>1, <2>2
<1>14. ReadUpTo(all, End(w), app, rem)
  BY <1>7, <1>8, <1>11, <1>12, <1>13 DEF ReadUpTo
<1> QED BY <1>14 DEF all, t

-----------------------------------------------------------------------------
(* Record batches: the invariant *)

\* The batches follow one another without a gap.
LogOK(l, app, rem) ==
  /\ Story(app) /\ IsSeq(l)
  /\ \A i \in DOMAIN l : Good(l[i], app, rem)
  /\ 1 \in DOMAIN l => l[1].base = 0
  /\ \A i \in DOMAIN l : i > 1 => l[i].base = End(l[i - 1])
  /\ \A i, j \in DOMAIN l : i < j => End(l[i]) <= l[j].base
  /\ Len(app) = IF Len(l) = 0 THEN 0 ELSE End(l[Len(l)])

\* An offset at which a batch ends.
Bound(l, p) == p = 0 \/ \E i \in DOMAIN l : p = End(l[i])

\* A request's checksum is the one its producer computed, or none.
RequestOK(q) ==
  /\ q = [meant |-> q.meant, wire |-> q.wire] /\ IsMeant(q.meant) /\ IsWire(q.wire)
  /\ \/ q.wire.crc = Crc32c(HeadOf(q.meant), BodyOf(q.meant))
     \/ q.wire.crc = <<Garbage>>

\* Where it is sound, a response goes on from the consumer's position.
ResponseOK(r, l, p, app, rem) ==
  /\ IsSeq(r)
  /\ \A i \in DOMAIN r : Sound(r[i].batch) =>
       /\ Good(r[i].batch, app, rem) /\ Bound(l, End(r[i].batch))
       /\ i = 1 => r[i].batch.base = p
       /\ i > 1 /\ Sound(r[i - 1].batch) => r[i].batch.base = End(r[i - 1].batch)

RecordInv ==
  /\ LogOK(log, appended, removed)
  /\ Bound(log, position)
  /\ ReadUpTo(consumed, position, appended, removed)
  /\ \A q \in request : RequestOK(q)
  /\ \A r \in response : ResponseOK(r, log, position, appended, removed)

\* An answer stays good while the log goes on.
LEMMA ResponseGrows ==
  ASSUME NEW r, NEW l, NEW p, NEW app, NEW rem, ResponseOK(r, l, p, app, rem), IsSeq(app),
         NEW more, IsSeq(more), NEW rem2, rem \subseteq rem2,
         NEW l2, \A o : Bound(l, o) => Bound(l2, o)
  PROVE  ResponseOK(r, l2, p, app \o more, rem2)
<1>1. ASSUME NEW i \in DOMAIN r, Sound(r[i].batch)
      PROVE  Good(r[i].batch, app \o more, rem2) /\ Bound(l2, End(r[i].batch))
  <2>1. Good(r[i].batch, app, rem) /\ Bound(l, End(r[i].batch))
    BY <1>1 DEF ResponseOK
  <2> QED BY <2>1, GoodGrows
<1> QED BY <1>1 DEF ResponseOK

\* What the log becomes when a batch is accepted.
LEMMA LogAppend ==
  ASSUME NEW l, NEW app, NEW rem, LogOK(l, app, rem), NEW meant, IsMeant(meant)
  PROVE  LET w == StoredAs(meant, Len(app))
             more == AcceptedAt(meant, Len(app))
         IN  /\ LogOK(Append(l, w), app \o more, rem) /\ IsSeq(more)
             /\ \A p : Bound(l, p) => Bound(Append(l, w), p)
<1> DEFINE w == StoredAs(meant, Len(app))
           more == AcceptedAt(meant, Len(app))
           all == app \o more
           l2 == Append(l, w)
           n == Len(l)
<1>1. Story(app) /\ IsSeq(app) /\ IsSeq(l)
  BY DEF LogOK, Story
<1>2. Good(w, all, rem) /\ Story(all) /\ w.base = Len(app) /\ End(w) = Len(all)
  BY <1>1, StoredGood
<1>3. IsSeq(more)
  <2>1. more = [k \in 1..Len(meant) |-> more[k]] /\ Len(meant) \in Nat
    BY SeqFacts DEF AcceptedAt, IsMeant
  <2> HIDE DEF more
  <2> QED BY <2>1, SeqMap
<1> HIDE DEF w, more
<1>4. /\ n \in Nat /\ DOMAIN l = 1..n /\ IsSeq(l2) /\ Len(l2) = n + 1 /\ DOMAIN l2 = 1..(n + 1)
      /\ \A i \in 1..n : l2[i] = l[i]
      /\ l2[n + 1] = w
  BY <1>1, SeqFacts, SeqAppend
<1> HIDE DEF l2, n
<1>5. \A i \in 1..n : Good(l[i], all, rem)
  <2>1. \A i \in 1..n : Good(l[i], app, rem)
    BY <1>4 DEF LogOK
  <2> QED BY <1>1, <1>3, <2>1, GoodGrows
<1>6. \A i \in 1..n : l[i].base \in Nat /\ End(l[i]) \in Nat
  BY <1>5 DEF Good, BatchOK, End
<1>7. /\ n # 0 => w.base = End(l[n]) /\ \A i \in 1..n : End(l[i]) <= w.base
      /\ n = 0 => w.base = 0
  <2>1. Len(app) = IF n = 0 THEN 0 ELSE End(l[n])
    BY DEF LogOK, n
  <2>2. ASSUME n # 0 PROVE \A i \in 1..n : End(l[i]) <= w.base
    <3>1. w.base = End(l[n]) /\ n \in 1..n
      BY <1>2, <1>4, <2>1, <2>2
    <3>2. ASSUME NEW i \in 1..n, i # n PROVE End(l[i]) <= End(l[n])
      <4>1. End(l[i]) <= l[n].base
        <5>1. i < n
          BY <1>4, <3>2
        <5> QED BY <1>4, <3>1, <5>1 DEF LogOK
      <4>2. l[n].base <= End(l[n])
        BY <1>5, <3>1 DEF Good, BatchOK, End
      <4> QED BY <1>6, <3>1, <4>1, <4>2
    <3> QED BY <1>6, <3>1, <3>2
  <2> QED BY <1>2, <2>1, <2>2
<1>8. \A i \in 1..(n + 1) : i \in 1..n \/ i = n + 1
  BY <1>4
<1>9. \A i \in 1..(n + 1) : Good(l2[i], all, rem)
  BY <1>2, <1>4, <1>5, <1>8
<1>10. l2[1].base = 0
  <2>1. CASE n = 0
    BY <1>4, <1>7, <2>1
  <2>2. CASE n # 0
    <3>1. 1 \in 1..n
      BY <1>4, <2>2
    <3> QED BY <1>4, <3>1 DEF LogOK
  <2> QED BY <2>1, <2>2
<1>11. ASSUME NEW i \in 1..(n + 1), i > 1 PROVE l2[i].base = End(l2[i - 1])
  <2>1. CASE i \in 1..n
    <3>1. i - 1 \in 1..n
      BY <1>4, <1>11, <2>1
    <3> QED BY <1>4, <1>11, <2>1, <3>1 DEF LogOK
  <2>2. CASE i = n + 1
    <3>1. n # 0 /\ i - 1 = n /\ n \in 1..n
      BY <1>4, <1>11, <2>2
    <3> QED BY <1>4, <1>7, <2>2, <3>1
  <2> QED BY <1>8, <2>1, <2>2
<1>12. ASSUME NEW i \in 1..(n + 1), NEW j \in 1..(n + 1), i < j PROVE End(l2[i]) <= l2[j].base
  <2>1. i \in 1..n
    BY <1>4, <1>12
  <2>2. CASE j \in 1..n
    BY <1>4, <1>12, <2>1, <2>2 DEF LogOK
  <2>3. CASE j = n + 1
    BY <1>4, <1>7, <2>1, <2>3
  <2> QED BY <1>8, <2>2, <2>3
<1>13. Len(all) = IF Len(l2) = 0 THEN 0 ELSE End(l2[Len(l2)])
  BY <1>2, <1>4
<1>14. LogOK(l2, all, rem)
  BY <1>2, <1>4, <1>9, <1>10, <1>11, <1>12, <1>13 DEF LogOK
<1>15. \A p : Bound(l, p) => Bound(l2, p)
  <2>1. \A i \in 1..n : i \in 1..(n + 1)
    BY <1>4
  <2> QED BY <1>4, <2>1 DEF Bound
<1> QED BY <1>3, <1>14, <1>15 DEF w, more, l2

\* What the log becomes when a batch is rewritten.
LEMMA LogRewrite ==
  ASSUME NEW l, NEW app, NEW rem, LogOK(l, app, rem), NEW i \in DOMAIN l,
         NEW gone \in SUBSET DOMAIN l[i].body, NEW h \in Horizon
  PROVE  LET l2 == [l EXCEPT ![i] = Rewritten(l[i], gone, h)]
             rem2 == rem \cup {RecordAt(l[i], k).offset : k \in gone}
         IN  LogOK(l2, app, rem2) /\ \A p : Bound(l, p) => Bound(l2, p)
<1> DEFINE v == Rewritten(l[i], gone, h)
           l2 == [l EXCEPT ![i] = v]
           rem2 == rem \cup {RecordAt(l[i], k).offset : k \in gone}
           n == Len(l)
<1>1. Story(app) /\ IsSeq(app) /\ IsSeq(l) /\ Good(l[i], app, rem)
  BY DEF LogOK, Story
<1>2. Good(v, app, rem2) /\ v.base = l[i].base /\ End(v) = End(l[i])
  BY <1>1, RewrittenGood
<1>3. rem \subseteq rem2
  OBVIOUS
<1> HIDE DEF v, rem2
<1>4. n \in Nat /\ DOMAIN l = 1..n /\ DOMAIN l2 = 1..n /\ \A j \in 1..n : l2[j] = IF j = i THEN v ELSE l[j]
  BY <1>1, SeqFacts
<1>5. IsSeq(l2) /\ Len(l2) = n
  <2>1. l2 = [j \in 1..n |-> l2[j]]
    BY <1>4
  <2> HIDE DEF l2, n
  <2> QED BY <1>4, <2>1, SeqMap
<1> HIDE DEF l2, n
<1>6. \A j \in 1..n : l2[j].base = l[j].base /\ End(l2[j]) = End(l[j])
  BY <1>2, <1>4
<1>7. ASSUME NEW j \in 1..n PROVE Good(l2[j], app, rem2)
  <2>1. CASE j = i
    BY <1>2, <1>4, <2>1
  <2>2. CASE j # i
    <3>1. Good(l[j], app, rem) /\ l2[j] = l[j]
      BY <1>4, <2>2 DEF LogOK
    <3> QED BY <1>3, <3>1 DEF Good, Holds
  <2> QED BY <2>1, <2>2
<1>8. 1 \in 1..n => l2[1].base = 0
  BY <1>4, <1>6 DEF LogOK
<1>9. ASSUME NEW j \in 1..n, j > 1 PROVE l2[j].base = End(l2[j - 1])
  <2>1. j - 1 \in 1..n
    BY <1>4, <1>9
  <2> QED BY <1>4, <1>6, <1>9, <2>1 DEF LogOK
<1>10. \A j, k \in 1..n : j < k => End(l2[j]) <= l2[k].base
  BY <1>4, <1>6 DEF LogOK
<1>11. Len(app) = IF n = 0 THEN 0 ELSE End(l2[n])
  <2>1. Len(app) = IF n = 0 THEN 0 ELSE End(l[n])
    BY DEF LogOK, n
  <2>2. n # 0 => n \in 1..n
    BY <1>4
  <2> QED BY <1>6, <2>1, <2>2
<1>12. LogOK(l2, app, rem2)
  BY <1>1, <1>4, <1>5, <1>7, <1>8, <1>9, <1>10, <1>11 DEF LogOK
<1>13. \A p : Bound(l, p) => Bound(l2, p)
  BY <1>4, <1>6 DEF Bound
<1> QED BY <1>12, <1>13 DEF l2, rem2, v

\* A request that is sound is what its producer meant, by either path.
LEMMA SoundRequest ==
  ASSUME NEW q, RequestOK(q), Sound(q.wire), NEW b
  PROVE  /\ Patched(q.wire, b) = StoredAs(q.meant, b)
         /\ EncodeBatch([DecodedBatch(q.wire) EXCEPT !.base = b]) = StoredAs(q.meant, b)
<1> DEFINE w == q.wire
           H == HeadOf(q.meant)
           B == BodyOf(q.meant)
           n == Len(q.meant)
<1>1. IsWire(w) /\ w.magic = 2 /\ w.length = Len(w.body) /\ w.crc = <<w.head, w.body>>
  BY DEF RequestOK, Sound, Crc32c
<1>2. w.head = H /\ w.body = B
  <2>1. w.crc = <<H, B>> \/ w.crc = <<Garbage>>
    BY DEF RequestOK, Crc32c
  <2>2. w.crc # <<Garbage>>
    BY <1>1
  <2> HIDE DEF H, B, w
  <2> QED BY <1>1, <2>1, <2>2
<1>3. Len(B) = n
  <2>1. n \in Nat
    BY SeqFacts DEF RequestOK, IsMeant
  <2>2. B = [k \in 1..n |-> B[k]]
    BY DEF BodyOf
  <2> HIDE DEF B, n
  <2> QED BY <2>1, <2>2, SeqMap
<1>4. H = [horizon |-> FALSE, lastDelta |-> n - 1, time |-> q.meant[1].time, count |-> n]
  BY DEF HeadOf
<1>5. /\ H.horizon = FALSE /\ H.lastDelta = n - 1 /\ H.time = q.meant[1].time
  BY <1>4
<1>6. StoredAs(q.meant, b) = [base |-> b, length |-> n, magic |-> 2, crc |-> Crc32c(H, B), head |-> H, body |-> B]
  BY DEF StoredAs
<1> HIDE DEF w, H, B, n
<1>7. Patched(w, b) = StoredAs(q.meant, b)
  <2>1. w = [base |-> w.base, length |-> n, magic |-> 2, crc |-> Crc32c(H, B), head |-> H, body |-> B]
    BY <1>1, <1>2, <1>3 DEF IsWire, Crc32c
  <2> QED BY <1>6, <2>1 DEF Patched
<1>8. [DecodedBatch(w) EXCEPT !.base = b] =
        [base |-> b, horizon |-> H.horizon, lastDelta |-> H.lastDelta, time |-> H.time, records |-> B]
  BY <1>2 DEF DecodedBatch
<1>9. EncodeBatch([DecodedBatch(w) EXCEPT !.base = b]) = StoredAs(q.meant, b)
  <2> DEFINE d == [base |-> b, horizon |-> H.horizon, lastDelta |-> H.lastDelta, time |-> H.time, records |-> B]
             H2 == [horizon |-> d.horizon, lastDelta |-> d.lastDelta, time |-> d.time, count |-> Len(d.records)]
  <2>1. d.base = b /\ d.records = B /\ d.horizon = H.horizon /\ d.lastDelta = H.lastDelta /\ d.time = H.time
    OBVIOUS
  <2> HIDE DEF d
  <2>2. H2 = H
    BY <1>3, <1>4, <1>5, <2>1
  <2>3. EncodeBatch(d) = [base |-> d.base, length |-> Len(d.records), magic |-> 2,
                          crc |-> Crc32c(H2, d.records), head |-> H2, body |-> d.records]
    BY DEF EncodeBatch
  <2> HIDE DEF H2
  <2>4. EncodeBatch(d) = StoredAs(q.meant, b)
    BY <1>3, <1>6, <2>1, <2>2, <2>3
  <2> QED BY <1>8, <2>4 DEF d
<1> QED BY <1>7, <1>9 DEF w

\* A damaged request is one whose checksum is what it was, or none.
LEMMA DamagedRequest ==
  ASSUME NEW q, RequestOK(q), NEW w \in Damaged(q.wire) \cup {Patched(q.wire, 1)}
  PROVE  RequestOK([q EXCEPT !.wire = w])
<1>1. IsWire(q.wire)
  BY DEF RequestOK
<1>2. IsWire(w) /\ (w.crc = q.wire.crc \/ w.crc = <<Garbage>>)
  <2> DEFINE x == q.wire
  <2>1. CASE w = [x EXCEPT !.magic = 3] \/ w = [x EXCEPT !.base = 1]
    BY <1>1, <2>1 DEF IsWire
  <2>2. CASE w = [x EXCEPT !.length = @ + 1] \/ w = [x EXCEPT !.length = @ - 1]
    BY <1>1, <2>2 DEF IsWire
  <2>3. CASE w = [x EXCEPT !.crc = <<Garbage>>]
    BY <1>1, <2>3 DEF IsWire
  <2>4. CASE w = [x EXCEPT !.head.lastDelta = @ + 1] \/ w = [x EXCEPT !.head.count = @ + 1]
    BY <1>1, <2>4 DEF IsWire
  <2>5. CASE w = [x EXCEPT !.body = [k \in DOMAIN @ |-> [@[k] EXCEPT !.value = Garbage]]]
    BY <1>1, <2>5 DEF IsWire
  <2> QED BY <2>1, <2>2, <2>3, <2>4, <2>5 DEF Damaged, Patched
<1>3. LET p == [q EXCEPT !.wire = w] IN p.meant = q.meant /\ p.wire = w /\ p = [meant |-> p.meant, wire |-> p.wire]
  BY DEF RequestOK
<1> QED BY <1>2, <1>3 DEF RequestOK

\* A fetch starts with the batch that begins at the consumer's position.
LEMMA FirstIs ==
  ASSUME RecordInv, position < Len(appended)
  PROVE  FirstBatch \in DOMAIN log /\ log[FirstBatch].base = position
<1> DEFINE n == Len(log)
           Starts(i) == /\ log[i].base + log[i].head.lastDelta >= position
                        /\ \A j \in 1..i - 1 : log[j].base + log[j].head.lastDelta < position
           T == {i \in 1..n : End(log[i]) > position}
<1>1. n \in Nat /\ DOMAIN log = 1..n /\ position \in Nat
  BY SeqFacts DEF RecordInv, LogOK, ReadUpTo
<1>2. \A i \in 1..n : log[i].base \in Nat /\ log[i].head.lastDelta \in Nat /\ End(log[i]) \in Nat
  BY <1>1 DEF RecordInv, LogOK, Good, BatchOK, End
<1>3. n # 0 /\ End(log[n]) = Len(appended)
  BY <1>1 DEF RecordInv, LogOK
<1>4. T \in SUBSET Nat /\ n \in T
  BY <1>1, <1>3
<1>5. PICK m \in T : \A x \in T : m <= x
  <2> HIDE DEF T
  <2> QED BY <1>4, Numbers!LeastExists
<1>6. m \in 1..n /\ Starts(m)
  <2>1. m \in 1..n /\ End(log[m]) > position
    OBVIOUS
  <2>2. ASSUME NEW j \in 1..m - 1 PROVE log[j].base + log[j].head.lastDelta < position
    <3>1. j \in 1..n /\ ~(m <= j)
      BY <1>1, <2>1
    <3>2. ~(log[j].base + log[j].head.lastDelta + 1 > position)
      BY <1>5, <3>1 DEF End
    <3>3. log[j].base \in Nat /\ log[j].head.lastDelta \in Nat /\ position \in Nat
      BY <1>1, <1>2, <3>1
    <3> QED BY <3>2, <3>3
  <2>3. log[m].base + log[m].head.lastDelta >= position
    BY <1>1, <1>2, <2>1 DEF End
  <2> QED BY <2>1, <2>2, <2>3
<1> DEFINE f == FirstBatch
<1>7. f \in 1..n /\ Starts(f)
  <2>1. f = CHOOSE i \in DOMAIN log : Starts(i)
    BY DEF FirstBatch
  <2> HIDE DEF f, Starts, n
  <2> QED BY <1>1, <1>6, <2>1
<1> HIDE DEF f, n
<1>8. End(log[f]) > position /\ \A j \in 1..n : j < f => End(log[j]) <= position
  <2>1. End(log[f]) > position
    BY <1>1, <1>2, <1>7 DEF End
  <2>2. ASSUME NEW j \in 1..n, j < f PROVE End(log[j]) <= position
    <3>1. j \in 1..f - 1
      BY <1>1, <1>7, <2>2
    <3>2. log[j].base + log[j].head.lastDelta < position
      BY <1>7, <3>1
    <3>3. log[j].base \in Nat /\ log[j].head.lastDelta \in Nat /\ position \in Nat
      BY <1>1, <1>2
    <3>4. log[j].base + log[j].head.lastDelta + 1 <= position
      BY <3>2, <3>3
    <3> QED BY <3>4 DEF End
  <2> QED BY <2>1, <2>2
<1>9. log[f].base <= position
  <2>1. CASE f = 1
    <3>1. log[f].base = 0
      BY <1>1, <1>7, <2>1 DEF RecordInv, LogOK
    <3> QED BY <1>1, <3>1
  <2>2. CASE f > 1
    <3>1. f - 1 \in 1..n /\ f - 1 < f
      BY <1>1, <1>7, <2>2
    <3>2. log[f].base = End(log[f - 1])
      BY <1>1, <1>7, <2>2 DEF RecordInv, LogOK
    <3> QED BY <1>8, <3>1, <3>2
  <2> QED BY <1>1, <1>7, <2>1, <2>2
<1>10. position <= log[f].base
  <2>1. CASE position = 0
    BY <1>2, <1>7, <2>1
  <2>2. ASSUME NEW k \in 1..n, position = End(log[k]) PROVE position <= log[f].base
    <3>1. CASE k < f
      BY <1>1, <1>7, <2>2, <3>1 DEF RecordInv, LogOK
    <3>2. CASE k = f
      BY <1>1, <1>8, <2>2, <3>2
    <3>3. CASE f < k
      <4>1. End(log[f]) <= log[k].base
        BY <1>1, <1>7, <3>3 DEF RecordInv, LogOK
      <4>2. log[k].base < End(log[k])
        BY <1>2 DEF End
      <4> QED BY <1>1, <1>2, <1>7, <1>8, <2>2, <4>1, <4>2
    <3> QED BY <1>1, <1>7, <3>1, <3>2, <3>3
  <2> QED BY <1>1, <2>1, <2>2 DEF RecordInv, Bound
<1>11. log[f].base = position
  BY <1>1, <1>2, <1>7, <1>9, <1>10
<1> QED BY <1>1, <1>7, <1>11 DEF f

\* A run of bytes of the log is a good answer.
LEMMA RunIs ==
  ASSUME RecordInv, position < Len(appended), NEW m \in FirstBatch..Len(log), NEW u
  PROVE  /\ IsSeq(Run(m, u)) /\ DOMAIN Run(m, u) = 1..(m - FirstBatch + 1)
         /\ \A k \in DOMAIN Run(m, u) :
              FirstBatch + k - 1 \in DOMAIN log /\ Run(m, u)[k].batch = log[FirstBatch + k - 1]
<1> DEFINE f == FirstBatch
           c == m - f + 1
           r == Run(m, u)
<1>1. f \in DOMAIN log
  BY FirstIs
<1>2. Len(log) \in Nat /\ DOMAIN log = 1..Len(log)
  BY SeqFacts DEF RecordInv, LogOK
<1>3. c \in Nat /\ f \in Nat /\ m \in Nat
  <2> HIDE DEF f
  <2>1. m \in f..Len(log)
    BY DEF f
  <2> QED BY <1>1, <1>2, <2>1
<1>4. r = [k \in 1..c |->
             LET w == log[f + k - 1] IN [batch |-> w, units |-> IF k = c THEN u ELSE Units(w)]]
  BY DEF Run
<1>5. m \in f..Len(log)
  OBVIOUS
<1> HIDE DEF r, f
<1>6. IsSeq(r) /\ DOMAIN r = 1..c
  <2>1. r = [k \in 1..c |-> r[k]]
    BY <1>4
  <2> HIDE DEF c
  <2> QED BY <1>3, <2>1, SeqMap
<1>7. \A k \in 1..c : f + k - 1 \in DOMAIN log /\ r[k].batch = log[f + k - 1]
  <2>1. \A k \in 1..c : f + k - 1 \in 1..Len(log)
    BY <1>1, <1>2, <1>3, <1>5
  <2>2. \A k \in 1..c : r[k].batch = log[f + k - 1]
    BY <1>4
  <2> QED BY <1>2, <2>1, <2>2
<1> QED BY <1>6, <1>7 DEF r, f, c

\* So is one of whose batches some are damaged.
LEMMA AnswerOK ==
  ASSUME RecordInv, position < Len(appended), NEW r, IsSeq(r),
         \A k \in DOMAIN r : /\ FirstBatch + k - 1 \in DOMAIN log
                             /\ Sound(r[k].batch) => r[k].batch = log[FirstBatch + k - 1]
  PROVE  ResponseOK(r, log, position, appended, removed)
<1> DEFINE f == FirstBatch
<1>1. f \in DOMAIN log /\ log[f].base = position /\ DOMAIN log = 1..Len(log) /\ Len(log) \in Nat
  BY FirstIs, SeqFacts DEF RecordInv, LogOK
<1>2. DOMAIN r = 1..Len(r) /\ Len(r) \in Nat
  BY SeqFacts
<1> SUFFICES ASSUME NEW i \in DOMAIN r, Sound(r[i].batch)
             PROVE  /\ Good(r[i].batch, appended, removed) /\ Bound(log, End(r[i].batch))
                    /\ i = 1 => r[i].batch.base = position
                    /\ i > 1 /\ Sound(r[i - 1].batch) => r[i].batch.base = End(r[i - 1].batch)
  BY DEF ResponseOK
<1>3. f + i - 1 \in DOMAIN log /\ r[i].batch = log[f + i - 1]
  OBVIOUS
<1> HIDE DEF f
<1>4. Good(r[i].batch, appended, removed)
  BY <1>3 DEF RecordInv, LogOK
<1>5. Bound(log, End(r[i].batch))
  BY <1>3 DEF Bound
<1>6. i = 1 => r[i].batch.base = position
  BY <1>1, <1>3
<1>7. ASSUME i > 1, Sound(r[i - 1].batch) PROVE r[i].batch.base = End(r[i - 1].batch)
  <2>1. i - 1 \in DOMAIN r
    BY <1>2, <1>7
  <2>2. f + (i - 1) - 1 \in DOMAIN log /\ r[i - 1].batch = log[f + (i - 1) - 1]
    BY <1>7, <2>1 DEF f
  <2>3. f + (i - 1) - 1 = (f + i - 1) - 1 /\ f + i - 1 > 1
    BY <1>1, <1>2, <1>7
  <2>4. log[f + i - 1].base = End(log[(f + i - 1) - 1])
    BY <1>3, <2>3 DEF RecordInv, LogOK
  <2> QED BY <1>3, <2>2, <2>3, <2>4
<1> QED BY <1>4, <1>5, <1>6, <1>7

\* from_fetch_bytes stops behind batches that are sound.
LEMMA StopsAtIs ==
  ASSUME NEW r, IsSeq(r)
  PROVE  StopsAt(r) \in 1..(Len(r) + 1) /\ \A j \in 1..StopsAt(r) - 1 : j \in DOMAIN r /\ Sound(r[j].batch)
<1> DEFINE n == Len(r)
           Stop(i) == /\ i <= n => ~DecodesBatch(r, i)
                      /\ \A j \in 1..i - 1 : DecodesBatch(r, j)
           T == {i \in 1..(n + 1) : i <= n => ~DecodesBatch(r, i)}
           s == StopsAt(r)
<1>1. n \in Nat /\ DOMAIN r = 1..n
  BY SeqFacts
<1>2. T \in SUBSET Nat /\ n + 1 \in T
  BY <1>1
<1>3. PICK m \in T : \A x \in T : m <= x
  <2> HIDE DEF T
  <2> QED BY <1>2, Numbers!LeastExists
<1>4. m \in 1..(n + 1) /\ Stop(m)
  <2>1. m \in 1..(n + 1) /\ (m <= n => ~DecodesBatch(r, m))
    OBVIOUS
  <2>2. ASSUME NEW j \in 1..m - 1 PROVE DecodesBatch(r, j)
    <3>1. j \in 1..(n + 1) /\ j <= n /\ ~(m <= j)
      BY <1>1, <2>1
    <3> QED BY <1>3, <3>1
  <2> QED BY <2>1, <2>2
<1>5. s \in 1..(n + 1) /\ Stop(s)
  <2>1. s = CHOOSE i \in 1..(n + 1) : Stop(i)
    BY DEF StopsAt
  <2> HIDE DEF s, Stop, n
  <2> QED BY <1>4, <2>1
<1> HIDE DEF s
<1>6. ASSUME NEW j \in 1..s - 1 PROVE j \in DOMAIN r /\ Sound(r[j].batch)
  <2>1. j \in 1..n
    BY <1>1, <1>5
  <2> QED BY <1>1, <1>5, <2>1 DEF DecodesBatch
<1> QED BY <1>5, <1>6 DEF s

\* The consumer's reading of the first batches of an answer.
Reads(g, c, r, n) ==
  g = [i \in 0..n |-> IF i = 0 THEN c
                      ELSE g[i - 1] \o [k \in DOMAIN r[i].batch.body |-> RecordAt(r[i].batch, k)]]

\* The recursion of the reading has a solution.
LEMMA ReadsExists ==
  ASSUME NEW c, NEW r, NEW n \in Nat
  PROVE  \E g : Reads(g, c, r, n)
<1> DEFINE T == {k \in Nat : \E g : Reads(g, c, r, k)}
           Add(x, i) == x \o [k \in DOMAIN r[i].batch.body |-> RecordAt(r[i].batch, k)]
<1>1. 0 \in T
  <2> DEFINE g == [i \in 0..0 |-> c]
  <2>1. Reads(g, c, r, 0)
    BY DEF Reads
  <2> QED BY <2>1
<1>2. ASSUME NEW k \in Nat, k \in T PROVE k + 1 \in T
  <2>1. PICK g : Reads(g, c, r, k)
    BY <1>2
  <2>2. g = [i \in 0..k |-> IF i = 0 THEN c ELSE Add(g[i - 1], i)]
    BY <2>1 DEF Reads
  <2> HIDE DEF Add
  <2> DEFINE e == [i \in 0..(k + 1) |-> IF i = k + 1 THEN Add(g[k], k + 1) ELSE g[i]]
             F == [i \in 0..(k + 1) |-> IF i = 0 THEN c ELSE Add(e[i - 1], i)]
  <2>3. ASSUME NEW i \in 0..(k + 1) PROVE e[i] = F[i]
    <3>1. CASE i = k + 1
      <4>1. e[i - 1] = g[k]
        BY <3>1
      <4>2. i # 0 /\ F[i] = Add(e[i - 1], i)
        BY <3>1
      <4>3. e[i] = Add(g[k], i)
        BY <3>1
      <4> QED BY <4>1, <4>2, <4>3
    <3>2. CASE i = 0
      <4>1. e[i] = g[0] /\ F[i] = c /\ g[0] = c
        BY <2>2, <3>2
      <4> QED BY <4>1
    <3>3. CASE i \in 1..k
      <4>1. e[i] = g[i] /\ e[i - 1] = g[i - 1]
        BY <3>3
      <4>2. g[i] = Add(g[i - 1], i) /\ F[i] = Add(e[i - 1], i)
        BY <2>2, <3>3
      <4> QED BY <4>1, <4>2
    <3> QED BY <3>1, <3>2, <3>3
  <2>4. e = F
    BY <2>3
  <2>5. Reads(e, c, r, k + 1)
    <3> HIDE DEF e
    <3> QED BY <2>4 DEF Reads, Add
  <2> HIDE DEF e
  <2> QED BY <2>5
<1>3. Nat \subseteq T
  <2> HIDE DEF T
  <2> QED BY <1>1, <1>2, Numbers!SetInduction
<1> QED BY <1>3

\* What the consumer has read, batch after batch.
LEMMA ReadsAre ==
  ASSUME NEW r, NEW l, NEW p, NEW app, NEW rem, ResponseOK(r, l, p, app, rem),
         NEW c, ReadUpTo(c, p, app, rem), NEW n \in Nat,
         \A j \in 1..n : j \in DOMAIN r /\ Sound(r[j].batch),
         NEW g, Reads(g, c, r, n)
  PROVE  ReadUpTo(g[n], IF n = 0 THEN p ELSE End(r[n].batch), app, rem)
<1> DEFINE ReadTo(i) == IF i = 0 THEN p ELSE End(r[i].batch)
           T == {i \in Nat : i <= n => ReadUpTo(g[i], ReadTo(i), app, rem)}
<1>1. g[0] = c /\ \A i \in 1..n : g[i] = g[i - 1] \o RecordsOf(r[i].batch)
  <2>1. \A i \in 0..n : g[i] = IF i = 0 THEN c ELSE g[i - 1] \o RecordsOf(r[i].batch)
    BY DEF Reads, RecordsOf
  <2>2. 0 \in 0..n /\ \A i \in 1..n : i \in 0..n /\ i # 0
    OBVIOUS
  <2> QED BY <2>1, <2>2
<1>2. 0 \in T
  BY <1>1
<1>3. ASSUME NEW i \in Nat, i \in T PROVE i + 1 \in T
  <2> SUFFICES ASSUME i + 1 <= n PROVE ReadUpTo(g[i + 1], ReadTo(i + 1), app, rem)
    OBVIOUS
  <2> DEFINE w == r[i + 1].batch
  <2>1. ReadUpTo(g[i], ReadTo(i), app, rem)
    BY <1>3
  <2>2. i + 1 \in 1..n /\ (i + 1) - 1 = i
    OBVIOUS
  <2>3. g[i + 1] = g[i] \o RecordsOf(w)
    BY <1>1, <2>2
  <2>4. i + 1 \in DOMAIN r /\ Sound(w)
    BY <2>2
  <2>5. Good(w, app, rem)
    BY <2>4 DEF ResponseOK
  <2>6. w.base = ReadTo(i)
    <3>1. CASE i = 0
      BY <2>4, <3>1 DEF ResponseOK
    <3>2. CASE i # 0
      <4>1. i \in 1..n /\ i + 1 > 1
        BY <3>2
      <4>2. Sound(r[(i + 1) - 1].batch)
        BY <2>2, <4>1
      <4>3. w.base = End(r[(i + 1) - 1].batch)
        BY <2>4, <4>1, <4>2 DEF ResponseOK
      <4> QED BY <2>2, <3>2, <4>3
    <3> QED BY <3>1, <3>2
  <2>7. ReadTo(i + 1) = End(w)
    OBVIOUS
  <2> HIDE DEF ReadTo, w
  <2>8. ReadUpTo(g[i] \o RecordsOf(w), End(w), app, rem)
    BY <2>1, <2>5, <2>6, ReadsOn
  <2> QED BY <2>3, <2>7, <2>8
<1>4. Nat \subseteq T
  <2> HIDE DEF T
  <2> QED BY <1>2, <1>3, Numbers!SetInduction
<1> QED BY <1>4

\* An empty log has nothing to read.
LEMMA RecordInvInit == RecordInit => RecordInv
<1> SUFFICES ASSUME RecordInit PROVE RecordInv
  OBVIOUS
<1>1. IsSeq(<<>>) /\ Len(<<>>) = 0 /\ DOMAIN <<>> = {}
  <2>1. <<>> \in Seq({})
    OBVIOUS
  <2> QED BY <2>1 DEF IsSeq
<1>2. LogOK(<<>>, <<>>, {})
  BY <1>1 DEF LogOK, Story
<1>3. ReadUpTo(<<>>, 0, <<>>, {})
  BY <1>1 DEF ReadUpTo
<1> QED BY <1>2, <1>3 DEF RecordInit, RecordInv, Bound

\* A request leaves as it was meant.
LEMMA ProduceKeeps == RecordInv /\ Produce => RecordInv'
<1> SUFFICES ASSUME RecordInv, Produce PROVE RecordInv'
  OBVIOUS
<1>1. PICK n \in 1..MaxRecords : \E meant \in [1..n -> [time : Time, value : Value]] :
       request' = {[meant |-> meant,
          wire |-> EncodeBatch(
            [base |-> 0, horizon |-> FALSE, lastDelta |-> n - 1, time |-> meant[1].time,
             records |-> [k \in 1..n |->
               [offsetDelta |-> k - 1, timeDelta |-> meant[k].time - meant[1].time,
                value |-> meant[k].value]]])]}
  BY DEF Produce
<1>2. PICK meant \in [1..n -> [time : Time, value : Value]] :
       request' = {[meant |-> meant,
          wire |-> EncodeBatch(
            [base |-> 0, horizon |-> FALSE, lastDelta |-> n - 1, time |-> meant[1].time,
             records |-> [k \in 1..n |->
               [offsetDelta |-> k - 1, timeDelta |-> meant[k].time - meant[1].time,
                value |-> meant[k].value]]])]}
  BY <1>1
<1>3. n \in Nat /\ n # 0
  OBVIOUS
<1>4. IsSeq(meant) /\ Len(meant) = n /\ DOMAIN meant = 1..n
  BY <1>3, SeqMap
<1>5. IsMeant(meant)
  <2>1. \A k \in 1..n : meant[k].time \in Time
    OBVIOUS
  <2>2. \A k \in 1..n : meant[k].time \in 0..MaxI64
    BY <2>1, TimeAssumption
  <2> QED BY <1>3, <1>4, <2>2 DEF IsMeant
<1> DEFINE B == BodyOf(meant)
           H == HeadOf(meant)
           b == [base |-> 0, horizon |-> FALSE, lastDelta |-> n - 1, time |-> meant[1].time, records |-> B]
           q == [meant |-> meant, wire |-> EncodeBatch(b)]
<1>6. request' = {q}
  BY <1>2, <1>4 DEF BodyOf
<1>7. Len(B) = n
  <2>1. B = [k \in 1..n |-> B[k]]
    BY <1>4 DEF BodyOf
  <2> HIDE DEF B
  <2> QED BY <1>3, <2>1, SeqMap
<1>8. H = [horizon |-> FALSE, lastDelta |-> n - 1, time |-> meant[1].time, count |-> n]
  BY <1>4 DEF HeadOf
<1> HIDE DEF B, H
<1>9. EncodeBatch(b) = [base |-> 0, length |-> n, magic |-> 2, crc |-> Crc32c(H, B), head |-> H, body |-> B]
  BY <1>7, <1>8 DEF EncodeBatch
<1>10. RequestOK(q)
  <2>1. IsWire(q.wire) /\ q.wire.crc = Crc32c(H, B)
    BY <1>9 DEF IsWire
  <2>2. q.meant = meant /\ q = [meant |-> q.meant, wire |-> q.wire]
    OBVIOUS
  <2> HIDE DEF q
  <2> QED BY <1>5, <2>1, <2>2 DEF RequestOK, H, B
<1> HIDE DEF q
<1>11. \A x \in request' : RequestOK(x)
  BY <1>6, <1>10
<1> QED BY <1>11 DEF Produce, RecordInv

\* A request is damaged on its way.
LEMMA DamageRequestKeeps == RecordInv /\ DamageRequest => RecordInv'
<1> SUFFICES ASSUME RecordInv, DamageRequest PROVE RecordInv'
  OBVIOUS
<1>1. PICK q \in request : \E w \in Damaged(q.wire) \cup {Patched(q.wire, 1)} :
        request' = {[q EXCEPT !.wire = w]}
  BY DEF DamageRequest
<1>2. PICK w \in Damaged(q.wire) \cup {Patched(q.wire, 1)} : request' = {[q EXCEPT !.wire = w]}
  BY <1>1
<1>3. RequestOK([q EXCEPT !.wire = w])
  BY DamagedRequest DEF RecordInv
<1>4. \A x \in request' : RequestOK(x)
  BY <1>2, <1>3
<1> QED BY <1>4 DEF DamageRequest, RecordInv

\* Either path of the broker.
LEMMA AcceptKeeps ==
  ASSUME RecordInv, NEW q \in request, NEW stored, Accept(q, stored),
         Sound(q.wire) => stored = StoredAs(q.meant, Len(appended))
  PROVE  RecordInv'
<1> DEFINE more == AcceptedAt(q.meant, Len(appended))
<1>1. /\ log' = Append(log, StoredAs(q.meant, Len(appended)))
      /\ appended' = appended \o more /\ request' = {}
      /\ response' = response /\ position' = position /\ consumed' = consumed /\ removed' = removed
  BY DEF Accept, AcceptedAt
<1>2. LogOK(log, appended, removed) /\ IsMeant(q.meant) /\ IsSeq(appended)
  BY DEF RecordInv, RequestOK, LogOK, Story
<1>3. /\ LogOK(log', appended', removed') /\ IsSeq(more)
      /\ \A p : Bound(log, p) => Bound(log', p)
  BY <1>1, <1>2, LogAppend
<1> HIDE DEF more
<1>4. Bound(log', position')
  BY <1>1, <1>3 DEF RecordInv
<1>5. ReadUpTo(consumed', position', appended', removed')
  BY <1>1, <1>2, <1>3, ReadGrows DEF RecordInv
<1>6. ASSUME NEW r \in response' PROVE ResponseOK(r, log', position', appended', removed')
  <2>1. ResponseOK(r, log, position, appended, removed)
    BY <1>1 DEF RecordInv
  <2>2. ResponseOK(r, log', position, appended \o more, removed)
    BY <1>2, <1>3, <2>1, ResponseGrows
  <2> QED BY <1>1, <2>2
<1> QED BY <1>1, <1>3, <1>4, <1>5, <1>6 DEF RecordInv

\* A batch is rewritten, also one that a response is carrying.
LEMMA CompactKeeps == RecordInv /\ Compact => RecordInv'
<1> SUFFICES ASSUME RecordInv, Compact PROVE RecordInv'
  OBVIOUS
<1>1. PICK i \in DOMAIN log : \E gone \in SUBSET DOMAIN log[i].body : \E h \in Horizon :
        /\ log' = [log EXCEPT ![i] = Rewritten(log[i], gone, h)]
        /\ removed' = removed \cup {RecordAt(log[i], k).offset : k \in gone}
  BY DEF Compact, Rewritten
<1>2. PICK gone \in SUBSET DOMAIN log[i].body : \E h \in Horizon :
        /\ log' = [log EXCEPT ![i] = Rewritten(log[i], gone, h)]
        /\ removed' = removed \cup {RecordAt(log[i], k).offset : k \in gone}
  BY <1>1
<1>3. PICK h \in Horizon :
        /\ log' = [log EXCEPT ![i] = Rewritten(log[i], gone, h)]
        /\ removed' = removed \cup {RecordAt(log[i], k).offset : k \in gone}
  BY <1>2
<1>4. /\ appended' = appended /\ request' = request /\ response' = response
      /\ position' = position /\ consumed' = consumed
  BY DEF Compact
<1>5. LogOK(log, appended, removed) /\ IsSeq(appended)
  BY DEF RecordInv, LogOK, Story
<1>6. LogOK(log', appended, removed') /\ \A p : Bound(log, p) => Bound(log', p)
  <2>1. PICK l : l = [log EXCEPT ![i] = Rewritten(log[i], gone, h)]
    OBVIOUS
  <2>2. PICK rem : rem = removed \cup {RecordAt(log[i], k).offset : k \in gone}
    OBVIOUS
  <2>3. LogOK(l, appended, rem) /\ \A p : Bound(log, p) => Bound(l, p)
    <3>1. /\ LogOK([log EXCEPT ![i] = Rewritten(log[i], gone, h)], appended,
                   removed \cup {RecordAt(log[i], k).offset : k \in gone})
          /\ \A p : Bound(log, p) => Bound([log EXCEPT ![i] = Rewritten(log[i], gone, h)], p)
      BY <1>5, LogRewrite
    <3> QED BY <2>1, <2>2, <3>1
  <2>4. log' = l /\ removed' = rem
    BY <1>3, <2>1, <2>2
  <2> QED BY <2>3, <2>4
<1>7. removed \subseteq removed'
  BY <1>3
<1>8. ReadUpTo(consumed, position, appended, removed')
  BY <1>7 DEF RecordInv, ReadUpTo
<1>9. ASSUME NEW r \in response PROVE ResponseOK(r, log', position, appended, removed')
  <2>1. ResponseOK(r, log, position, appended, removed)
    BY DEF RecordInv
  <2>2. ASSUME NEW k \in DOMAIN r, Sound(r[k].batch)
        PROVE  Good(r[k].batch, appended, removed') /\ Bound(log', End(r[k].batch))
    BY <1>6, <1>7, <2>1, <2>2 DEF ResponseOK, Good, Holds
  <2> QED BY <2>1, <2>2 DEF ResponseOK
<1>10. \A q \in request' : RequestOK(q)
  BY <1>4 DEF RecordInv
<1>11. \A r \in response' : ResponseOK(r, log', position', appended', removed')
  BY <1>4, <1>9
<1>12. LogOK(log', appended', removed') /\ Bound(log', position') /\ ReadUpTo(consumed', position', appended', removed')
  BY <1>4, <1>6, <1>8 DEF RecordInv
<1> QED BY <1>10, <1>11, <1>12 DEF RecordInv

\* A response is made of the log.
LEMMA FetchKeeps == RecordInv /\ Fetch => RecordInv'
<1> SUFFICES ASSUME RecordInv, Fetch PROVE RecordInv'
  OBVIOUS
<1>1. PICK m \in FirstBatch..Len(log) :
        \E u \in IF m = FirstBatch THEN {Units(log[m])} ELSE 1..Units(log[m]) : response' = {Run(m, u)}
  BY DEF Fetch
<1>2. PICK u : response' = {Run(m, u)}
  BY <1>1
<1>3. position < Len(appended)
  BY DEF Fetch, CanFetch
<1>4. PICK r : r = Run(m, u)
  OBVIOUS
<1>5. ResponseOK(r, log, position, appended, removed)
  BY <1>3, <1>4, RunIs, AnswerOK
<1>6. \A x \in response' : ResponseOK(x, log, position, appended, removed)
  BY <1>2, <1>4, <1>5
<1> QED BY <1>6 DEF Fetch, RecordInv

\* A response is short or damaged.
LEMMA FetchFaultyKeeps == RecordInv /\ FetchFaulty => RecordInv'
<1> SUFFICES ASSUME RecordInv, FetchFaulty PROVE RecordInv'
  OBVIOUS
<1>1. position < Len(appended)
  BY DEF FetchFaulty, CanFetch
<1>2. /\ log' = log /\ request' = request /\ position' = position /\ consumed' = consumed
      /\ appended' = appended /\ removed' = removed
  BY DEF FetchFaulty
<1>3. FirstBatch \in DOMAIN log /\ Len(log) \in Nat /\ DOMAIN log = 1..Len(log)
  BY <1>1, FirstIs, SeqFacts DEF RecordInv, LogOK
<1>4. FirstBatch \in FirstBatch..Len(log)
  BY <1>3
<1>5. ASSUME NEW u, response' = {IF u = 0 THEN <<>> ELSE Run(FirstBatch, u)}
      PROVE  \A r \in response' : ResponseOK(r, log, position, appended, removed)
  <2>1. ResponseOK(<<>>, log, position, appended, removed)
    <3>1. <<>> \in Seq({}) /\ DOMAIN <<>> = {}
      OBVIOUS
    <3> QED BY <3>1 DEF ResponseOK, IsSeq
  <2>2. ResponseOK(Run(FirstBatch, u), log, position, appended, removed)
    BY <1>1, <1>4, RunIs, AnswerOK
  <2> QED BY <1>5, <2>1, <2>2
<1>6. ASSUME NEW m \in FirstBatch..Len(log), NEW r, r = Run(m, Units(log[m])),
             NEW k \in DOMAIN r, NEW w \in Damaged(r[k].batch), response' = {[r EXCEPT ![k].batch = w]}
      PROVE  \A x \in response' : ResponseOK(x, log, position, appended, removed)
  <2> DEFINE d == [r EXCEPT ![k].batch = w]
  <2>1. /\ IsSeq(r)
        /\ \A j \in DOMAIN r : FirstBatch + j - 1 \in DOMAIN log /\ r[j].batch = log[FirstBatch + j - 1]
    BY <1>1, <1>6, RunIs
  <2>2. BatchOK(r[k].batch)
    BY <2>1 DEF RecordInv, LogOK, Good
  <2>3. ~Sound(w)
    BY <2>2, DamageShows
  <2>4. Len(r) \in Nat /\ DOMAIN r = 1..Len(r)
    BY <2>1, SeqFacts
  <2>5. DOMAIN d = DOMAIN r /\ \A j \in DOMAIN r : j # k => d[j] = r[j]
    OBVIOUS
  <2>6. IsSeq(d)
    <3>1. d = [j \in 1..Len(r) |-> d[j]]
      BY <2>4
    <3> HIDE DEF d
    <3> QED BY <2>4, <3>1, SeqMap
  <2>7. d[k].batch = w
    <3>1. DOMAIN r[k] = {"batch", "units"}
      BY <1>6 DEF Run
    <3>2. d[k] = [r[k] EXCEPT !.batch = w]
      OBVIOUS
    <3> HIDE DEF d
    <3> QED BY <3>1, <3>2
  <2> HIDE DEF d
  <2>8. \A j \in DOMAIN d : /\ FirstBatch + j - 1 \in DOMAIN log
                            /\ Sound(d[j].batch) => d[j].batch = log[FirstBatch + j - 1]
    BY <2>1, <2>3, <2>5, <2>7
  <2>9. ResponseOK(d, log, position, appended, removed)
    BY <1>1, <2>6, <2>8, AnswerOK
  <2> QED BY <1>6, <2>9 DEF d
<1>7. \A r \in response' : ResponseOK(r, log, position, appended, removed)
  BY <1>5, <1>6 DEF FetchFaulty
<1> QED BY <1>2, <1>7 DEF RecordInv

\* The batches before the first that does not decode are read.
LEMMA ConsumeKeeps == RecordInv /\ Consume => RecordInv'
<1> SUFFICES ASSUME RecordInv, Consume PROVE RecordInv'
  OBVIOUS
<1>1. PICK r \in response :
        /\ LET n == StopsAt(r) - 1
               read[i \in 0..n] ==
                 IF i = 0 THEN consumed
                 ELSE read[i - 1] \o [k \in DOMAIN r[i].batch.body |-> RecordAt(r[i].batch, k)]
           IN /\ consumed' = read[n]
              /\ position' = IF n = 0 THEN position
                             ELSE r[n].batch.base + r[n].batch.head.lastDelta + 1
        /\ response' = {}
        /\ UNCHANGED <<log, request, appended, removed, sends, compactions, faults>>
  BY DEF Consume
<1>2. ResponseOK(r, log, position, appended, removed)
  BY DEF RecordInv
<1> DEFINE n == StopsAt(r) - 1
           g == CHOOSE x : Reads(x, consumed, r, n)
<1>3. n \in Nat /\ \A j \in 1..n : j \in DOMAIN r /\ Sound(r[j].batch)
  <2>1. Len(r) \in Nat /\ StopsAt(r) \in 1..(Len(r) + 1) /\ \A j \in 1..n : j \in DOMAIN r /\ Sound(r[j].batch)
    BY <1>2, StopsAtIs, SeqFacts DEF ResponseOK
  <2> QED BY <2>1
<1>4. consumed' = g[n] /\ position' = IF n = 0 THEN position ELSE End(r[n].batch)
  BY <1>1 DEF Reads, End
<1>5. Reads(g, consumed, r, n)
  <2> HIDE DEF n
  <2> QED BY <1>3, ReadsExists, Zenon
<1> HIDE DEF g, n
<1>6. ReadUpTo(consumed', position', appended, removed)
  BY <1>2, <1>3, <1>4, <1>5, ReadsAre DEF RecordInv
<1>7. Bound(log, position')
  <2>1. CASE n = 0
    BY <1>4, <2>1 DEF RecordInv
  <2>2. CASE n # 0
    <3>1. n \in DOMAIN r /\ Sound(r[n].batch)
      BY <1>3, <2>2
    <3> QED BY <1>2, <1>4, <2>2, <3>1 DEF ResponseOK
  <2> QED BY <2>1, <2>2
<1>8. /\ log' = log /\ request' = request /\ appended' = appended /\ removed' = removed /\ response' = {}
  BY <1>1
<1> QED BY <1>6, <1>7, <1>8 DEF RecordInv

\* Every step keeps the invariant.
LEMMA RecordInvStep == RecordInv /\ [RecordNext]_recordVars => RecordInv'
<1> SUFFICES ASSUME RecordInv, [RecordNext]_recordVars PROVE RecordInv'
  OBVIOUS
<1>1. CASE UNCHANGED recordVars
  BY <1>1 DEF recordVars, RecordInv
<1>2. CASE AppendVerbatim
  <2>1. PICK q \in request : Accept(q, Patched(q.wire, Len(appended)))
    BY <1>2 DEF AppendVerbatim
  <2>2. Sound(q.wire) => Patched(q.wire, Len(appended)) = StoredAs(q.meant, Len(appended))
    BY SoundRequest DEF RecordInv
  <2> QED BY <2>1, <2>2, AcceptKeeps
<1>3. CASE AppendDecoded
  <2>1. PICK q \in request : Accept(q, EncodeBatch([DecodedBatch(q.wire) EXCEPT !.base = Len(appended)]))
    BY <1>3 DEF AppendDecoded
  <2>2. Sound(q.wire) =>
          EncodeBatch([DecodedBatch(q.wire) EXCEPT !.base = Len(appended)]) = StoredAs(q.meant, Len(appended))
    BY SoundRequest DEF RecordInv
  <2> QED BY <2>1, <2>2, AcceptKeeps
<1>4. CASE Reject
  BY <1>4 DEF Reject, RecordInv
<1>5. CASE Fail \/ TakeLegacy
  BY <1>5 DEF Fail, TakeLegacy, RecordInv
<1> QED BY <1>1, <1>2, <1>3, <1>4, <1>5, ProduceKeeps, DamageRequestKeeps, CompactKeeps, FetchKeeps,
           FetchFaultyKeeps, ConsumeKeeps DEF RecordNext

\* What a consumer reads is what producers wrote, in order, with nothing left
\* out but what compaction removed.
THEOREM ReadsAsWritten == RecordSpec => []ReadAsWritten
<1>1. RecordInv => ReadAsWritten
  BY DEF RecordInv, ReadUpTo, ReadAsWritten
<1> QED BY <1>1, RecordInvInit, RecordInvStep, PTL DEF RecordSpec
=============================================================================
